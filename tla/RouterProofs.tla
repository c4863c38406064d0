---------------------------- MODULE RouterProofs ----------------------------
(***************************************************************************)
(* Proofs about the tree of Router, for any routes and topics.             *)
(***************************************************************************)
EXTENDS Router, SequenceTheorems, FiniteSetTheorems, WellFoundedInduction, TLAPS

(***************************************************************************)
(* Types                                                                   *)
(***************************************************************************)
AnyMethod == Methods \cup {RouteNotFound}

Nodes ==
  [kind : Kinds, prefix : Seq(Characters), parent : Nat, originalPath : Seq(Characters),
   statics : SUBSET Nat, param : Nat, any : Nat,
   methods : [Methods -> RouteMethods], notFound : RouteMethods,
   paramsCount : Nat, isLeaf : BOOLEAN, isHandler : BOOLEAN]

Adds ==
  [method : AnyMethod \cup {"none"}, topic : Seq(Characters), ppath : Seq(Characters),
   path : Seq(Characters), i : Nat \ {0}, pnames : Seq(Seq(Characters))]

Caller == [method : AnyMethod, path : Seq(Characters), kind : Kinds, rm : RouteMethods]

Finds ==
  [method : Methods \cup {"none"}, path : Seq(Characters), node : Nat, search : Seq(Characters),
   searchIndex : Nat, paramIndex : Nat, pvalues : Seq(Seq(Characters)), best : Nat,
   matched : RouteMethods, handler : AnyMethod \cup {"nil", "none", "NotFound", "MethodNotAllowed"},
   rpath : Seq(Characters), pnames : Seq(Seq(Characters))]

TypeInv ==
  /\ tree \in Seq(Nodes) /\ tree # <<>>
  /\ maxParam \in Nat
  /\ routes \in SUBSET Routes
  /\ pc \in {"idle", "scan", "register", "insert", "loop", "param", "any", "out", "done", "panic"}
  /\ add \in Adds
  /\ calls \in Seq(Caller)
  /\ cur \in [node : Nat, search : Seq(Characters)]
  /\ find \in Finds

\* Add's arguments, and the calls of insert that it has come to
AddInv ==
  /\ pc \in {"scan", "insert", "register"} =>
       /\ <<add.method, add.topic>> \in Routes
       /\ add.method \in AnyMethod
       /\ add.ppath = Rooted(add.topic)
       /\ add.path # <<>> /\ add.path[1] = "/"
  /\ pc = "insert" =>
       /\ Len(calls) \in 1 .. 2
       /\ \A q \in DOMAIN calls :
            /\ calls[q].method = add.method
            /\ calls[q].path = Take(add.path, Len(calls[q].path))
            /\ 1 <= Len(calls[q].path) /\ Len(calls[q].path) <= Len(add.path)
            /\ calls[q].rm \in {EmptyRoute} \cup {Full(add.pnames)}
       /\ Len(calls) = 2 =>
            /\ calls[1].kind = "static" /\ calls[1].rm = EmptyRoute
            /\ calls[2].kind \in {"param", "any"}
            /\ Len(calls[2].path) = Len(calls[1].path) + 1
       /\ calls[Len(calls)].kind = "param" => calls[Len(calls)].path[Len(calls[Len(calls)].path)] = ":"
       /\ calls[Len(calls)].kind = "any" =>
            /\ calls[Len(calls)].path[Len(calls[Len(calls)].path)] = "*"
            /\ calls[Len(calls)].rm # EmptyRoute
       /\ calls[Len(calls)].kind = "static" =>
            /\ calls[Len(calls)].rm # EmptyRoute
            /\ calls[Len(calls)].path = add.path

-----------------------------------------------------------------------------
(* Words: the path from the root to a node *)

Agree(s, t, m) == \A k \in 1 .. m : s[k] = t[k]

\* Where the part of node i starts in its word
StartIn(t, w, i) == Len(w[i]) - Len(t[i].prefix)
Start(w, i) == StartIn(tree, w, i)

Kids(n) == n.statics \cup ({n.param, n.any} \ {NoNode})

LabelsIn(t, i) == {t[c].prefix[1] : c \in Kids(t[i])}
Labels(i) == LabelsIn(tree, i)

LinkInv ==
  /\ tree[Root].parent = NoNode
  /\ \A i \in DOMAIN tree :
       /\ \A c \in Kids(tree[i]) : c \in DOMAIN tree /\ c # Root /\ tree[c].parent = i
       /\ tree[i].param # NoNode => tree[tree[i].param].prefix = <<":">>
       /\ tree[i].any # NoNode => tree[tree[i].any].prefix = <<"*">>
       /\ i # Root =>
            /\ tree[i].parent \in DOMAIN tree
            /\ i \in Kids(tree[tree[i].parent])
            /\ tree[i].isLeaf = IsLeafNode(tree[i])

WordsOf(t, w) ==
  /\ w \in [DOMAIN t -> Seq(Characters)]
  /\ StartIn(t, w, Root) = 0
  /\ w[Root] # <<>> => w[Root][1] = "/"
  /\ \A i \in DOMAIN t :
       /\ t[i].prefix = <<>> => Len(t) = 1 /\ IsLeafNode(t[i])
       /\ StartIn(t, w, i) >= 0
       /\ \A k \in 1 .. Len(t[i].prefix) : t[i].prefix[k] = w[i][StartIn(t, w, i) + k]
       /\ i # Root => /\ StartIn(t, w, i) = Len(w[t[i].parent])
                      /\ Agree(w[t[i].parent], w[i], StartIn(t, w, i))

WordInv(w) == WordsOf(tree, w)

\* Different nodes have different words; a word that enters the part of a node
\* goes through all of it; and one that goes on below a node has a child there
Distinct(D, w) ==
  \A i, j \in D : Len(w[i]) = Len(w[j]) /\ Agree(w[i], w[j], Len(w[i])) => i = j

Through(D, w, st) ==
  \A i, j \in D : Len(w[j]) > st[i] /\ Agree(w[i], w[j], st[i] + 1)
                    => Len(w[i]) <= Len(w[j]) /\ Agree(w[i], w[j], Len(w[i]))

Onward(D, w, L) ==
  \A i, j \in D : Len(w[j]) > Len(w[i]) /\ Agree(w[i], w[j], Len(w[i]))
                    => w[j][Len(w[i]) + 1] \in L[i]

Trie(D, w, st, L) == Distinct(D, w) /\ Through(D, w, st) /\ Onward(D, w, L)

TrieOf(t, w) ==
  Trie(DOMAIN t, w, [i \in DOMAIN t |-> StartIn(t, w, i)], [i \in DOMAIN t |-> LabelsIn(t, i)])

TreeTrie(w) == TrieOf(tree, w)

NodeAt(w, s, m) == \E j \in DOMAIN tree : Len(w[j]) = m /\ Agree(w[j], s, m)

WalkInv(w) ==
  pc = "insert" =>
    LET n == cur.node
        P == Now.path
    IN  /\ n \in DOMAIN tree
        /\ cur.search # <<>>
        /\ Len(P) = Start(w, n) + Len(cur.search)
        /\ Agree(w[n], P, Start(w, n))
        /\ \A k \in 1 .. Len(cur.search) : cur.search[k] = P[Start(w, n) + k]
        /\ Node.prefix # <<>> => cur.search[1] = Node.prefix[1]
        /\ Now.kind # "static" => NodeAt(w, P, Len(P) - 1)

-----------------------------------------------------------------------------
(* Sequences and sets of numbers *)

\* The first n elements of a sequence.
LEMMA TakeFacts ==
  ASSUME NEW s \in Seq(Characters), NEW n \in 0 .. Len(s)
  PROVE  /\ Take(s, n) \in Seq(Characters) /\ Len(Take(s, n)) = n
         /\ \A k \in 1 .. n : Take(s, n)[k] = s[k]
BY DEF Take

\* What is left without them.
LEMMA DropFacts ==
  ASSUME NEW s \in Seq(Characters), NEW n \in 0 .. Len(s)
  PROVE  /\ Drop(s, n) \in Seq(Characters) /\ Len(Drop(s, n)) = Len(s) - n
         /\ \A k \in 1 .. Len(s) - n : Drop(s, n)[k] = s[n + k]
BY DEF Drop

\* The least-number principle.
LEMMA LeastNat ==
  ASSUME NEW S \in SUBSET Nat, S # {}
  PROVE  \E x \in S : \A y \in S : x <= y
<1> DEFINE R == {ss \in Nat \X Nat : ss[1] < ss[2]}
<1>1. IsWellFoundedOn(R, Nat)
  BY NatLessThanWellFounded DEF OpToRel
<1>2. PICK x \in S : \A y \in S : ~ (<<y, x>> \in R)
  <2> HIDE DEF R
  <2> QED
    BY <1>1, WFMin, Zenon
<1>3. \A y \in S : x <= y
  <2> SUFFICES ASSUME NEW y \in S, y < x PROVE FALSE
    OBVIOUS
  <2>1. <<y, x>> \in R
    OBVIOUS
  <2> QED
    BY <2>1, <1>2
<1> QED
  BY <1>3

\* Min returns the least element of a set of numbers.
LEMMA MinOf ==
  ASSUME NEW S \in SUBSET Nat, S # {}
  PROVE  Min(S) \in S /\ \A y \in S : Min(S) <= y
BY LeastNat DEF Min

\* Max returns the greatest element of a bounded set of numbers.
LEMMA MaxOf ==
  ASSUME NEW n \in Nat, NEW S \in SUBSET (0 .. n), S # {}
  PROVE  Max(S) \in S /\ \A y \in S : Max(S) >= y
<1> DEFINE T == {x \in 0 .. n : n - x \in S}
<1>1. PICK z \in S : TRUE
  OBVIOUS
<1>2. n - z \in T /\ T \in SUBSET Nat
  OBVIOUS
<1> HIDE DEF T
<1>3. PICK x \in T : \A y \in T : x <= y
  BY <1>2, LeastNat
<1>4. n - x \in S /\ x \in Nat
  BY <1>3 DEF T
<1>5. \A y \in S : n - x >= y
  <2> SUFFICES ASSUME NEW y \in S PROVE n - x >= y
    OBVIOUS
  <2>1. n - y \in T /\ y \in Nat
    BY DEF T
  <2> QED
    BY <2>1, <1>3, <1>4
<1> QED
  BY <1>4, <1>5 DEF Max

\* Two sequences agree on the length of their longest common prefix, and differ
\* after it.
LEMMA LcpFacts ==
  ASSUME NEW s \in Seq(Characters), NEW t \in Seq(Characters)
  PROVE  /\ Lcp(s, t) \in Nat /\ Lcp(s, t) <= Len(s) /\ Lcp(s, t) <= Len(t)
         /\ Agree(s, t, Lcp(s, t))
         /\ Lcp(s, t) < Len(s) /\ Lcp(s, t) < Len(t) => s[Lcp(s, t) + 1] # t[Lcp(s, t) + 1]
<1> DEFINE M == Min({Len(s), Len(t)})
           S == {n \in 0 .. M : Take(s, n) = Take(t, n)}
<1>1. M \in Nat /\ M <= Len(s) /\ M <= Len(t) /\ M \in {Len(s), Len(t)}
  BY MinOf, {Len(s), Len(t)} \in SUBSET Nat
<1> HIDE DEF M
<1>2. 0 \in S
  BY <1>1 DEF Take
<1>3. Max(S) \in S /\ \A y \in S : Max(S) >= y
  BY <1>1, <1>2, MaxOf
<1>4. Lcp(s, t) = Max(S)
  BY DEF Lcp, M
<1>5. Lcp(s, t) \in 0 .. M /\ Take(s, Lcp(s, t)) = Take(t, Lcp(s, t))
  BY <1>3, <1>4
<1>6. Agree(s, t, Lcp(s, t))
  <2> DEFINE l == Lcp(s, t)
  <2>1. l \in 0 .. Len(s) /\ l \in 0 .. Len(t) /\ Take(s, l) = Take(t, l)
    BY <1>1, <1>5
  <2> HIDE DEF l
  <2>2. \A k \in 1 .. l : s[k] = t[k]
    <3>1. \A k \in 1 .. l : Take(s, l)[k] = s[k]
      BY <2>1, TakeFacts
    <3>2. \A k \in 1 .. l : Take(t, l)[k] = t[k]
      BY <2>1, TakeFacts
    <3> QED
      BY <2>1, <3>1, <3>2
  <2> QED
    BY <2>2 DEF Agree, l
<1>7. ASSUME Lcp(s, t) < Len(s), Lcp(s, t) < Len(t), s[Lcp(s, t) + 1] = t[Lcp(s, t) + 1]
      PROVE  FALSE
  <2> DEFINE l == Lcp(s, t) + 1
  <2>1. l \in 0 .. M
    BY <1>1, <1>5, <1>7
  <2>2. Take(s, l) = Take(t, l)
    <3>1. /\ Take(s, l) \in Seq(Characters) /\ Len(Take(s, l)) = l
          /\ Take(t, l) \in Seq(Characters) /\ Len(Take(t, l)) = l
      BY <1>1, <2>1, TakeFacts
    <3>2. \A k \in 1 .. l : s[k] = t[k]
      BY <1>5, <1>6, <1>7 DEF Agree
    <3>3. l \in 0 .. Len(s) /\ l \in 0 .. Len(t)
      BY <1>1, <2>1
    <3>4. \A k \in 1 .. l : Take(s, l)[k] = s[k] /\ Take(t, l)[k] = t[k]
      BY <3>3, TakeFacts
    <3> QED
      BY <3>1, <3>2, <3>4, SeqEqual
  <2>3. l \in S
    BY <2>1, <2>2
  <2> QED
    BY <1>3, <1>4, <1>5, <2>3
<1> QED
  BY <1>1, <1>5, <1>6, <1>7

-----------------------------------------------------------------------------
(* Tries *)

\* Agreement is symmetric.
LEMMA AgreeSym ==
  ASSUME NEW s, NEW t, NEW m, Agree(s, t, m)
  PROVE  Agree(t, s, m)
BY DEF Agree

\* Agreement is transitive.
LEMMA AgreeTrans ==
  ASSUME NEW s, NEW t, NEW u, NEW m, Agree(s, t, m), Agree(t, u, m)
  PROVE  Agree(s, u, m)
BY DEF Agree

\* Agreement is inherited by shorter prefixes.
LEMMA AgreeLess ==
  ASSUME NEW s, NEW t, NEW m \in Int, NEW l \in Int, l <= m, Agree(s, t, m)
  PROVE  Agree(s, t, l)
BY DEF Agree

\* Sequences that agree have the same elements.
LEMMA AgreeAt ==
  ASSUME NEW s, NEW t, NEW m \in Int, NEW k \in 1 .. m, Agree(s, t, m)
  PROVE  s[k] = t[k]
BY DEF Agree

\* Agreement goes one element further if the next ones are equal.
LEMMA AgreeNext ==
  ASSUME NEW s, NEW t, NEW m \in Nat, Agree(s, t, m), s[m + 1] = t[m + 1]
  PROVE  Agree(s, t, m + 1)
BY DEF Agree

\* Agreement is reflexive.
LEMMA AgreeSelf ==
  ASSUME NEW s, NEW m
  PROVE  Agree(s, s, m)
BY DEF Agree

\* Node n is split at length m, with c as its lower half.
Splits(D, w, st, L, n, c, m, w2, st2, L2) ==
  /\ w \in [D -> Seq(Characters)] /\ st \in [D -> Nat] /\ Trie(D, w, st, L)
  /\ n \in D /\ c \notin D /\ m \in Nat /\ st[n] < m /\ m < Len(w[n])
  /\ \A i \in D : i # n => w2[i] = w[i] /\ L2[i] = L[i]
  /\ \A i \in D : st2[i] = st[i]
  /\ w2[c] = w[n] /\ st2[c] = m /\ L2[c] = L[n]
  /\ Len(w2[n]) = m /\ Agree(w2[n], w[n], m) /\ w[n][m + 1] \in L2[n]

\* Node e for P is hung below node n, which has no child there yet.
Grows(D, w, st, L, n, e, P, w2, st2, L2) ==
  /\ w \in [D -> Seq(Characters)] /\ st \in [D -> Nat] /\ Trie(D, w, st, L)
  /\ \A i \in D : st[i] <= Len(w[i])
  /\ n \in D /\ e \notin D /\ P \in Seq(Characters)
  /\ Len(w[n]) < Len(P) /\ Agree(w[n], P, Len(w[n])) /\ P[Len(w[n]) + 1] \notin L[n]
  /\ \A i \in D : w2[i] = w[i] /\ st2[i] = st[i] /\ L[i] \subseteq L2[i]
  /\ w2[e] = P /\ st2[e] = Len(w[n]) /\ P[Len(w[n]) + 1] \in L2[n]

\* Splitting a node keeps a trie.
LEMMA TrieSplit ==
  ASSUME NEW D, NEW w, NEW st, NEW L, NEW n, NEW c, NEW m, NEW w2, NEW st2, NEW L2,
         Splits(D, w, st, L, n, c, m, w2, st2, L2)
  PROVE  Trie(D \cup {c}, w2, st2, L2)
<1>1. /\ w \in [D -> Seq(Characters)] /\ st \in [D -> Nat] /\ Trie(D, w, st, L)
      /\ n \in D /\ c \notin D /\ m \in Nat /\ st[n] < m /\ m < Len(w[n])
      /\ \A i \in D : i # n => w2[i] = w[i] /\ L2[i] = L[i]
      /\ \A i \in D : st2[i] = st[i]
      /\ w2[c] = w[n] /\ st2[c] = m /\ L2[c] = L[n]
      /\ Len(w2[n]) = m /\ Agree(w2[n], w[n], m) /\ w[n][m + 1] \in L2[n]
  BY DEF Splits
<1> USE <1>1
<1> USE DEF Trie
<1>2. \A i \in D : w[i] \in Seq(Characters) /\ Len(w[i]) \in Nat /\ st[i] \in Nat
  OBVIOUS
\* A word that agrees with w[n] up to m goes through all of w[n]
<1>3. ASSUME NEW j \in D, NEW l \in Nat, l > st[n], l <= Len(w[j]), Agree(w[n], w[j], l)
      PROVE  Len(w[n]) <= Len(w[j]) /\ Agree(w[n], w[j], Len(w[n]))
  <2>1. Agree(w[n], w[j], st[n] + 1)
    BY <1>2, <1>3, AgreeLess
  <2> QED
    BY <1>2, <1>3, <2>1 DEF Through
<1>4. ASSUME NEW j \in D, Len(w[j]) >= m, Agree(w2[n], w[j], m)
      PROVE  Len(w[n]) <= Len(w[j]) /\ Agree(w[n], w[j], Len(w[n]))
  <2>1. Agree(w[n], w[j], m)
    BY <1>4, AgreeSym, AgreeTrans
  <2> QED
    BY <1>2, <1>3, <1>4, <2>1
<1>5. Distinct(D \cup {c}, w2)
  <2> SUFFICES ASSUME NEW i \in D \cup {c}, NEW j \in D \cup {c}, i # j,
                      Len(w2[i]) = Len(w2[j]), Agree(w2[i], w2[j], Len(w2[i]))
               PROVE  FALSE
    BY DEF Distinct
  <2>1. CASE i # n /\ j # n
    <3> DEFINE i0 == IF i = c THEN n ELSE i
               j0 == IF j = c THEN n ELSE j
    <3>1. i0 \in D /\ j0 \in D /\ i0 # j0 /\ w2[i] = w[i0] /\ w2[j] = w[j0]
      BY <2>1
    <3> QED
      BY <3>1 DEF Distinct
  <2>2. CASE i = n
    <3>1. CASE j = c
      BY <1>2, <2>2, <3>1
    <3>2. CASE j # c
      <4>1. j \in D /\ w2[j] = w[j] /\ Agree(w2[n], w[j], m) /\ Len(w[j]) = m
        BY <2>2, <3>2
      <4>2. Len(w[n]) <= Len(w[j])
        BY <1>2, <1>4, <4>1
      <4> QED
        BY <1>2, <4>1, <4>2
    <3> QED
      BY <3>1, <3>2
  <2>3. CASE j = n
    <3>1. CASE i = c
      BY <1>2, <2>3, <3>1
    <3>2. CASE i # c
      <4>1. Agree(w2[n], w[i], m)
        BY <2>3, <3>2, AgreeSym
      <4> QED
        BY <1>2, <1>4, <2>3, <3>2, <4>1
    <3> QED
      BY <3>1, <3>2
  <2> QED
    BY <2>1, <2>2, <2>3
<1>6. Through(D \cup {c}, w2, st2)
  <2> SUFFICES ASSUME NEW i \in D \cup {c}, NEW j \in D \cup {c},
                      Len(w2[j]) > st2[i], Agree(w2[i], w2[j], st2[i] + 1)
               PROVE  Len(w2[i]) <= Len(w2[j]) /\ Agree(w2[i], w2[j], Len(w2[i]))
    BY DEF Through
  <2>1. CASE i = j
    BY <1>2, <2>1, AgreeSelf
  <2>2. CASE i # n /\ i # c /\ j # n
    <3> DEFINE j0 == IF j = c THEN n ELSE j
    <3>1. i \in D /\ j0 \in D /\ w2[i] = w[i] /\ w2[j] = w[j0] /\ st2[i] = st[i]
      BY <2>2
    <3> QED
      BY <3>1 DEF Through
  <2>3. CASE i # n /\ i # c /\ j = n
    <3>1. i \in D /\ w2[i] = w[i] /\ st2[i] = st[i] /\ st[i] < m
      BY <2>3
    <3>2. Agree(w[i], w[n], st[i] + 1)
      <4>1. st[i] + 1 \in Int /\ st[i] + 1 <= m
        BY <1>2, <2>3, <3>1
      <4>2. Agree(w2[n], w[n], st[i] + 1)
        BY <4>1, AgreeLess
      <4>3. Agree(w[i], w2[n], st[i] + 1)
        BY <2>3, <3>1
      <4> QED
        BY <4>2, <4>3, AgreeTrans
    <3>3. Len(w[i]) <= Len(w[n]) /\ Agree(w[i], w[n], Len(w[i]))
      BY <1>2, <3>1, <3>2 DEF Through
    <3>4. Len(w[i]) <= st[n]
      <4> SUFFICES ASSUME Len(w[i]) > st[n] PROVE FALSE
        BY <1>2, <3>1
      <4>1. Len(w[n]) <= Len(w[i])
        BY <1>2, <1>3, <3>1, <3>3, AgreeSym
      <4> QED
        BY <1>2, <2>3, <3>1, <3>3, <4>1 DEF Distinct
    <3>5. Agree(w[n], w2[n], Len(w[i]))
      BY <1>2, <3>1, <3>4, AgreeSym, AgreeLess
    <3> QED
      BY <1>2, <2>3, <3>1, <3>3, <3>4, <3>5, AgreeTrans
  <2>4. CASE i = n /\ j # n
    <3> DEFINE j0 == IF j = c THEN n ELSE j
    <3>1. j0 \in D /\ w2[j] = w[j0]
      BY <2>4
    <3>2. Agree(w[n], w2[n], st[n] + 1)
      BY <1>2, AgreeSym, AgreeLess
    <3>3. Agree(w[n], w[j0], st[n] + 1)
      BY <2>4, <3>1, <3>2, AgreeTrans
    <3>4. Len(w[n]) <= Len(w[j0]) /\ Agree(w[n], w[j0], Len(w[n]))
      BY <1>2, <2>4, <3>1, <3>3 DEF Through
    <3>5. Agree(w[n], w[j0], m)
      BY <1>2, <3>1, <3>4, AgreeLess
    <3> QED
      BY <1>2, <2>4, <3>1, <3>4, <3>5, AgreeTrans
  <2>5. CASE i = c /\ j # n /\ j # c
    <3>1. j \in D /\ w2[j] = w[j] /\ Agree(w[n], w[j], m + 1) /\ Len(w[j]) > m
      BY <2>5
    <3> QED
      BY <1>2, <1>3, <2>5, <3>1
  <2>6. CASE i = c /\ j = n
    BY <1>2, <2>6
  <2> QED
    BY <2>1, <2>2, <2>3, <2>4, <2>5, <2>6
<1>7. Onward(D \cup {c}, w2, L2)
  <2> SUFFICES ASSUME NEW i \in D \cup {c}, NEW j \in D \cup {c},
                      Len(w2[j]) > Len(w2[i]), Agree(w2[i], w2[j], Len(w2[i]))
               PROVE  w2[j][Len(w2[i]) + 1] \in L2[i]
    BY DEF Onward
  <2>1. CASE i # n /\ j # n
    <3> DEFINE i0 == IF i = c THEN n ELSE i
               j0 == IF j = c THEN n ELSE j
    <3>1. i0 \in D /\ j0 \in D /\ w2[i] = w[i0] /\ w2[j] = w[j0] /\ L2[i] = L[i0]
      BY <2>1
    <3> QED
      BY <3>1 DEF Onward
  <2>2. CASE i = n /\ j = c
    BY <1>2, <2>2
  <2>3. CASE i = n /\ j # n /\ j # c
    <3>1. j \in D /\ w2[j] = w[j]
      BY <2>3
    <3>2. Len(w[n]) <= Len(w[j]) /\ Agree(w[n], w[j], Len(w[n]))
      BY <1>2, <1>4, <2>3, <3>1
    <3>3. w[j][m + 1] = w[n][m + 1]
      BY <1>2, <3>2, AgreeAt
    <3> QED
      BY <2>3, <3>1, <3>3
  <2>4. CASE i # n /\ j = n
    <3>1. i # c
      BY <1>2, <2>4
    <3>2. i \in D /\ w2[i] = w[i] /\ Len(w[i]) < m /\ L2[i] = L[i]
      BY <2>4, <3>1
    <3>3. Agree(w2[n], w[n], Len(w[i])) /\ w2[n][Len(w[i]) + 1] = w[n][Len(w[i]) + 1]
      BY <1>2, <3>2, AgreeLess, AgreeAt
    <3>4. Agree(w[i], w[n], Len(w[i]))
      BY <2>4, <3>2, <3>3, AgreeTrans
    <3> QED
      BY <1>2, <2>4, <3>2, <3>3, <3>4 DEF Onward
  <2> QED
    BY <1>2, <2>1, <2>2, <2>3, <2>4
<1> QED
  BY <1>5, <1>6, <1>7

\* So does hanging a node below another.
LEMMA TrieGrow ==
  ASSUME NEW D, NEW w, NEW st, NEW L, NEW n, NEW e, NEW P, NEW w2, NEW st2, NEW L2,
         Grows(D, w, st, L, n, e, P, w2, st2, L2)
  PROVE  Trie(D \cup {e}, w2, st2, L2)
<1>1. /\ w \in [D -> Seq(Characters)] /\ st \in [D -> Nat] /\ Trie(D, w, st, L)
      /\ \A i \in D : st[i] <= Len(w[i])
      /\ n \in D /\ e \notin D /\ P \in Seq(Characters)
      /\ Len(w[n]) < Len(P) /\ Agree(w[n], P, Len(w[n])) /\ P[Len(w[n]) + 1] \notin L[n]
      /\ \A i \in D : w2[i] = w[i] /\ st2[i] = st[i] /\ L[i] \subseteq L2[i]
      /\ w2[e] = P /\ st2[e] = Len(w[n]) /\ P[Len(w[n]) + 1] \in L2[n]
  BY DEF Grows
<1> USE <1>1
<1> USE DEF Trie
<1>2. \A i \in D : w[i] \in Seq(Characters) /\ Len(w[i]) \in Nat /\ st[i] \in Nat
  OBVIOUS
\* No word goes on from n as P does
<1>3. ASSUME NEW j \in D, Len(w[j]) > Len(w[n]), Agree(w[j], P, Len(w[n]) + 1) PROVE FALSE
  <2>1. Len(w[n]) \in Nat
    BY <1>2
  <2>2. Agree(w[j], P, Len(w[n]))
    BY <1>3, <2>1, AgreeLess
  <2>3. w[j][Len(w[n]) + 1] = P[Len(w[n]) + 1]
    BY <1>3, <2>1, AgreeAt
  <2>4. Agree(P, w[j], Len(w[n]))
    BY <2>2, AgreeSym
  <2>5. Agree(w[n], w[j], Len(w[n]))
    BY <2>4, AgreeTrans
  <2> QED
    BY <1>3, <2>3, <2>5 DEF Onward
<1>4. ASSUME NEW j \in D, NEW l \in Nat, l > Len(w[n]), l <= Len(w[j]), Agree(w[j], P, l)
      PROVE  FALSE
  BY <1>2, <1>3, <1>4, AgreeLess
<1>5. Distinct(D \cup {e}, w2)
  <2> SUFFICES ASSUME NEW i \in D \cup {e}, NEW j \in D \cup {e}, i # j,
                      Len(w2[i]) = Len(w2[j]), Agree(w2[i], w2[j], Len(w2[i]))
               PROVE  FALSE
    BY DEF Distinct
  <2>1. CASE i \in D /\ j \in D
    BY <2>1 DEF Distinct
  <2>2. CASE i = e /\ j \in D
    BY <1>2, <1>4, <2>2, AgreeSym
  <2>3. CASE i \in D /\ j = e
    BY <1>2, <1>4, <2>3
  <2> QED
    BY <2>1, <2>2, <2>3
<1>6. Through(D \cup {e}, w2, st2)
  <2> SUFFICES ASSUME NEW i \in D \cup {e}, NEW j \in D \cup {e},
                      Len(w2[j]) > st2[i], Agree(w2[i], w2[j], st2[i] + 1)
               PROVE  Len(w2[i]) <= Len(w2[j]) /\ Agree(w2[i], w2[j], Len(w2[i]))
    BY DEF Through
  <2>1. CASE i \in D /\ j \in D
    BY <2>1 DEF Through
  <2>2. CASE i = e /\ j \in D
    <3>1. Agree(w[j], P, Len(w[n]) + 1)
      BY <2>2, AgreeSym
    <3> QED
      BY <1>3, <2>2, <3>1
  <2>3. CASE i = e /\ j = e
    BY <2>3, AgreeSelf
  <2>4. CASE i \in D /\ j = e /\ st[i] + 1 <= Len(w[n])
    <3>1. Agree(P, w[n], st[i] + 1)
      BY <1>2, <2>4, AgreeLess, AgreeSym
    <3>2. Agree(w[i], w[n], st[i] + 1)
      BY <2>4, <3>1, AgreeTrans
    <3>3. Len(w[i]) <= Len(w[n]) /\ Agree(w[i], w[n], Len(w[i]))
      BY <1>2, <2>4, <3>2 DEF Through
    <3>4. Agree(w[n], P, Len(w[i]))
      BY <1>2, <2>4, <3>3, AgreeLess
    <3> QED
      BY <1>2, <2>4, <3>3, <3>4, AgreeTrans
  <2>5. CASE i \in D /\ j = e /\ st[i] >= Len(w[n])
    <3>1. CASE Len(w[i]) > st[i]
      <4>1. Agree(w[i], P, st[i] + 1)
        BY <2>5
      <4> DEFINE l == st[i] + 1
      <4>2. l \in Nat /\ l > Len(w[n]) /\ l <= Len(w[i])
        BY <1>2, <2>5, <3>1
      <4> HIDE DEF l
      <4>3. Agree(w[i], P, l)
        BY <4>1 DEF l
      <4> QED
        BY <1>4, <2>5, <4>2, <4>3
    <3>2. CASE Len(w[i]) = st[i]
      <4>1. Agree(w[i], P, Len(w[i]))
        BY <1>2, <2>5, <3>2, AgreeLess
      <4> QED
        BY <1>2, <2>5, <3>2, <4>1
    <3> QED
      BY <1>2, <2>5, <3>1, <3>2
  <2> QED
    BY <1>2, <2>1, <2>2, <2>3, <2>4, <2>5
<1>7. Onward(D \cup {e}, w2, L2)
  <2> SUFFICES ASSUME NEW i \in D \cup {e}, NEW j \in D \cup {e},
                      Len(w2[j]) > Len(w2[i]), Agree(w2[i], w2[j], Len(w2[i]))
               PROVE  w2[j][Len(w2[i]) + 1] \in L2[i]
    BY DEF Onward
  <2>1. CASE i \in D /\ j \in D
    BY <2>1 DEF Onward
  <2>2. CASE i = e /\ j \in D
    <3>1. Agree(w[j], P, Len(P))
      BY <2>2, AgreeSym
    <3> QED
      BY <1>2, <1>4, <2>2, <3>1
  <2>3. CASE i \in D /\ j = e /\ Len(w[i]) < Len(w[n])
    <3>1. Agree(P, w[n], Len(w[i])) /\ w[n][Len(w[i]) + 1] = P[Len(w[i]) + 1]
      BY <1>2, <2>3, AgreeLess, AgreeSym, AgreeAt
    <3>2. Agree(w[i], w[n], Len(w[i]))
      BY <2>3, <3>1, AgreeTrans
    <3> QED
      BY <2>3, <3>1, <3>2 DEF Onward
  <2>4. CASE i \in D /\ j = e /\ Len(w[i]) = Len(w[n])
    <3>1. Agree(P, w[n], Len(w[i]))
      BY <2>4, AgreeSym
    <3>2. i = n
      BY <1>2, <2>4, <3>1, AgreeTrans DEF Distinct
    <3> QED
      BY <2>4, <3>2
  <2>5. CASE i \in D /\ j = e /\ Len(w[i]) > Len(w[n])
    BY <1>2, <1>4, <2>5
  <2> QED
    BY <1>2, <2>1, <2>2, <2>3, <2>4, <2>5
<1> QED
  BY <1>5, <1>6, <1>7

-----------------------------------------------------------------------------
(* Helpers of the model *)

\* Next1 stops at the first of the characters from i on, or after the end.
LEMMA Next1Facts ==
  ASSUME NEW s \in Seq(Characters), NEW i \in Nat \ {0}, NEW chars
  PROVE  /\ Next1(s, i, chars) \in 1 .. Len(s) + 1
         /\ Next1(s, i, chars) <= Len(s) => Next1(s, i, chars) >= i /\ s[Next1(s, i, chars)] \in chars
         /\ \A j \in i .. Len(s) : j < Next1(s, i, chars) => s[j] \notin chars
<1> DEFINE S == {j \in i .. Len(s) : s[j] \in chars} \cup {Len(s) + 1}
<1>1. S \in SUBSET Nat /\ S # {}
  OBVIOUS
<1>2. Min(S) \in S /\ \A y \in S : Min(S) <= y
  BY <1>1, MinOf
<1>3. Next1(s, i, chars) = Min(S)
  BY DEF Next1
<1>4. \A y \in S : y = Len(s) + 1 \/ (y \in i .. Len(s) /\ s[y] \in chars)
  OBVIOUS
<1>5. \A y \in i .. Len(s) : s[y] \in chars => y \in S
  OBVIOUS
<1> HIDE DEF S
<1>6. Min(S) \in 1 .. Len(s) + 1
  BY <1>2, <1>4
<1>7. Min(S) <= Len(s) => Min(S) >= i /\ s[Min(S)] \in chars
  BY <1>2, <1>4, <1>6
<1>8. \A j \in i .. Len(s) : j < Min(S) => s[j] \notin chars
  BY <1>2, <1>5, <1>6
<1> QED
  BY <1>3, <1>6, <1>7, <1>8

\* A sequence of one character.
LEMMA Single ==
  ASSUME NEW c \in Characters
  PROVE  <<c>> \in Seq(Characters) /\ Len(<<c>>) = 1 /\ <<c>>[1] = c
OBVIOUS

\* A rooted path starts with a slash.
LEMMA RootedFacts ==
  ASSUME NEW s \in Seq(Characters)
  PROVE  Rooted(s) \in Seq(Characters) /\ Rooted(s) # <<>> /\ Rooted(s)[1] = "/"
<1>1. CASE s = <<>> \/ s[1] # "/"
  <2> DEFINE a == <<"/">>
  <2>1. a \in Seq(Characters) /\ Len(a) = 1 /\ a[1] = "/"
    BY Single, PathsAssumption
  <2>2. Rooted(s) = a \o s
    BY <1>1 DEF Rooted
  <2> HIDE DEF a
  <2>3. /\ a \o s \in Seq(Characters) /\ Len(a \o s) = Len(a) + Len(s)
        /\ \A k \in 1 .. Len(a) + Len(s) :
             (a \o s)[k] = IF k <= Len(a) THEN a[k] ELSE s[k - Len(a)]
    BY <2>1, ConcatProperties
  <2>4. a \o s # <<>> /\ (a \o s)[1] = "/"
    BY <2>1, <2>3
  <2> QED
    BY <2>2, <2>3, <2>4
<1>2. CASE ~(s = <<>> \/ s[1] # "/")
  BY <1>2 DEF Rooted
<1> QED
  BY <1>1, <1>2

\* A route that is registered has a path, names and a handler.
LEMMA RouteFacts ==
  ASSUME NEW rm \in RouteMethods
  PROVE  /\ rm.ppath \in Seq(Characters) /\ rm.pnames \in Seq(Seq(Characters))
         /\ rm.handler \in AnyMethod \cup {"nil", "none"}
<1>1. Paths \subseteq Seq(Characters)
  BY PathsAssumption, RootedFacts DEF Paths
<1>2. EmptyRoute = [ppath |-> <<>>, pnames |-> <<>>, handler |-> "nil"]
  BY DEF EmptyRoute
<1>3. NoRoute = [ppath |-> <<>>, pnames |-> <<>>, handler |-> "none"]
  BY DEF EmptyRoute, NoRoute
<1>4. CASE rm \in [ppath : Paths, pnames : Seq(Seq(Characters)), handler : AnyMethod]
  BY <1>1, <1>4
<1>5. CASE rm = EmptyRoute
  BY <1>2, <1>5
<1>6. CASE rm = NoRoute
  BY <1>3, <1>6
<1> QED
  BY <1>4, <1>5, <1>6 DEF RouteMethods, AnyMethod

\* A new node is one.
LEMMA NewNodeFacts ==
  ASSUME NEW k \in Kinds, NEW s \in Seq(Characters), NEW p \in Nat, NEW t \in Seq(Characters)
  PROVE  /\ NewNode(k, s, p, t) \in Nodes
         /\ NewNode(k, s, p, t).prefix = s /\ NewNode(k, s, p, t).parent = p
         /\ NewNode(k, s, p, t).kind = k /\ IsLeafNode(NewNode(k, s, p, t))
         /\ NewNode(k, s, p, t).isLeaf
         /\ NewNode(k, s, p, t).paramsCount = 0
BY DEF NewNode, Nodes, RouteMethods, IsLeafNode, NoNode

\* Two nodes have the same part of the path and the same children, and the same
\* place in the tree.
SameBelow(n, k) ==
  /\ k.prefix = n.prefix /\ k.isLeaf = n.isLeaf
  /\ k.statics = n.statics /\ k.param = n.param /\ k.any = n.any

SamePlace(n, k) == SameBelow(n, k) /\ k.parent = n.parent

\* Registering a handler leaves the node where it is.
LEMMA RegisterFacts ==
  ASSUME NEW n \in Nodes, NEW m \in AnyMethod, NEW rm \in RouteMethods
  PROVE  /\ Register(n, m, rm) \in Nodes /\ SamePlace(n, Register(n, m, rm))
         /\ Register(n, m, rm).kind = n.kind
         /\ Register(n, m, rm).paramsCount = Len(rm.pnames)
<1>1. rm.ppath \in Seq(Characters) /\ Len(rm.pnames) \in Nat
  BY RouteFacts
<1> DEFINE a == AddMethod(n, m, rm)
<1>2. a \in Nodes /\ SamePlace(n, a) /\ a.kind = n.kind
  <2>1. CASE m = RouteNotFound
    BY <2>1 DEF AddMethod, Nodes, SamePlace, SameBelow
  <2>2. CASE m # RouteNotFound
    <3>1. Set(n.methods, m, rm) \in [Methods -> RouteMethods]
      BY DEF Set, Nodes, RouteMethods
    <3>2. (rm.handler # "nil" \/ IsHandler(Set(n.methods, m, rm))) \in BOOLEAN
      BY DEF IsHandler
    <3> QED
      BY <2>2, <3>1, <3>2 DEF AddMethod, Nodes, SamePlace, SameBelow
  <2> QED
    BY <2>1, <2>2
<1> HIDE DEF a
<1>3. Register(n, m, rm) = [a EXCEPT !.paramsCount = Len(rm.pnames), !.originalPath = rm.ppath]
  BY DEF Register, a
<1> QED
  BY <1>1, <1>2, <1>3 DEF Nodes, SamePlace, SameBelow

\* The same for a guarded registration.
LEMMA RegisterHandlerFacts ==
  ASSUME NEW n \in Nodes, NEW m \in AnyMethod, NEW rm \in RouteMethods
  PROVE  /\ RegisterHandler(n, m, rm) \in Nodes /\ SamePlace(n, RegisterHandler(n, m, rm))
         /\ RegisterHandler(n, m, rm).kind = n.kind
         /\ RegisterHandler(n, m, rm).paramsCount
              = IF rm.handler # "nil" THEN Len(rm.pnames) ELSE n.paramsCount
BY RegisterFacts DEF RegisterHandler, SamePlace, SameBelow

\* Without the element at i, those after it move up by one.
LEMMA RemoveAtFacts ==
  ASSUME NEW s \in Seq(Characters), NEW i \in 1 .. Len(s)
  PROVE  /\ RemoveAt(s, i) \in Seq(Characters) /\ Len(RemoveAt(s, i)) = Len(s) - 1
         /\ \A k \in 1 .. i - 1 : RemoveAt(s, i)[k] = s[k]
         /\ \A k \in i .. Len(s) - 1 : RemoveAt(s, i)[k] = s[k + 1]
<1> DEFINE a == SubSeq(s, 1, i - 1)
           b == SubSeq(s, i + 1, Len(s))
<1>1. a \in Seq(Characters) /\ Len(a) = i - 1 /\ \A k \in 1 .. i - 1 : a[k] = s[k]
  OBVIOUS
<1>2. b \in Seq(Characters) /\ Len(b) = Len(s) - i /\ \A k \in 1 .. Len(s) - i : b[k] = s[i + k]
  OBVIOUS
<1> HIDE DEF a, b
<1>3. /\ a \o b \in Seq(Characters) /\ Len(a \o b) = Len(s) - 1
      /\ \A k \in 1 .. i - 1 : (a \o b)[k] = s[k]
      /\ \A k \in i .. Len(s) - 1 : (a \o b)[k] = s[k + 1]
  <2>1. /\ a \o b \in Seq(Characters) /\ Len(a \o b) = Len(a) + Len(b)
        /\ \A k \in 1 .. Len(a) + Len(b) :
             (a \o b)[k] = IF k <= Len(a) THEN a[k] ELSE b[k - Len(a)]
    BY <1>1, <1>2, ConcatProperties
  <2>2. \A k \in 1 .. i - 1 : (a \o b)[k] = s[k]
    BY <1>1, <1>2, <2>1
  <2>3. \A k \in i .. Len(s) - 1 : (a \o b)[k] = s[k + 1]
    <3> SUFFICES ASSUME NEW k \in i .. Len(s) - 1 PROVE (a \o b)[k] = s[k + 1]
      OBVIOUS
    <3>1. (a \o b)[k] = b[k - (i - 1)]
      BY <1>1, <1>2, <2>1
    <3>2. b[k - (i - 1)] = s[i + (k - (i - 1))]
      BY <1>2
    <3> QED
      BY <3>1, <3>2
  <2>4. Len(a \o b) = Len(s) - 1
    BY <1>1, <1>2, <2>1
  <2> QED
    BY <2>1, <2>2, <2>3, <2>4
<1> QED
  BY <1>3 DEF RemoveAt, a, b

-----------------------------------------------------------------------------
(* Add: the scan for parameters *)

\* The route that Add registers is one of the routes.
LEMMA FullFacts ==
  ASSUME NEW a \in Adds,
         <<a.method, a.topic>> \in Routes, a.method \in AnyMethod, a.ppath = Rooted(a.topic),
         NEW names \in Seq(Seq(Characters))
  PROVE  /\ [ppath |-> a.ppath, pnames |-> names, handler |-> a.method] \in RouteMethods
         /\ [ppath |-> a.ppath, pnames |-> names, handler |-> a.method] # EmptyRoute
<1>1. a.ppath \in Paths
  BY DEF Paths
<1>2. a.method # "nil"
  BY MethodsAssumption DEF AnyMethod, RouteNotFound
<1> QED
  BY <1>1, <1>2 DEF RouteMethods, AnyMethod, EmptyRoute, Adds

\* The fields of Add's variables.
LEMMA AddFacts ==
  ASSUME TypeInv
  PROVE  /\ add.path \in Seq(Characters) /\ Len(add.path) \in Nat
         /\ add.pnames \in Seq(Seq(Characters)) /\ Len(add.pnames) \in Nat
         /\ add.i \in Nat \ {0}
<1>1. add \in Adds
  BY DEF TypeInv
<1>2. add.path \in Seq(Characters) /\ add.pnames \in Seq(Seq(Characters)) /\ add.i \in Nat \ {0}
  BY <1>1 DEF Adds
<1> QED
  BY <1>2

\* What the scan stops at.
LEMMA ScanAtFacts ==
  ASSUME TypeInv, AddInv, pc = "scan"
  PROVE  /\ ScanAt \in 1 .. Len(add.path) + 1
         /\ ScanAt <= Len(add.path) =>
              ScanAt >= add.i /\ ScanAt > 1 /\ add.path[ScanAt] \in {":", "*"}
         /\ \A j \in add.i .. Len(add.path) : j < ScanAt => add.path[j] \notin {":", "*"}
<1>1. add.path \in Seq(Characters) /\ add.i \in Nat \ {0}
  BY DEF TypeInv, Adds
<1>2. add.path[1] = "/"
  BY DEF AddInv
<1> QED
  BY <1>1, <1>2, Next1Facts DEF ScanAt

\* It stops inside the path, after its first character.
LEMMA ScanInside ==
  ASSUME TypeInv, AddInv, pc = "scan", ScanAt <= Len(add.path)
  PROVE  ScanAt \in 2 .. Len(add.path) /\ ScanAt >= add.i /\ add.path[1] = "/"
<1>1. PICK s, l : s = ScanAt /\ l = Len(add.path)
  OBVIOUS
<1>2. s \in 1 .. l + 1 /\ s <= l /\ s > 1 /\ s >= add.i /\ l \in Nat
  BY <1>1, ScanAtFacts, AddFacts
<1>3. s \in 2 .. l
  BY ONLY <1>2
<1> QED
  BY <1>1, <1>2, <1>3 DEF AddInv

\* An escaped colon is taken out of the path.
LEMMA ScanEscapeStep ==
  ASSUME TypeInv, AddInv, ScanEscape
  PROVE  TypeInv' /\ AddInv'
<1> DEFINE p == RemoveAt(add.path, ScanAt - 1)
<1>1. pc = "scan" /\ pc' = "scan" /\ ScanAt <= Len(add.path) /\ ScanAt > 1 /\ add.path[ScanAt - 1] = "\\"
  BY DEF ScanEscape, Scanning, Escaped
<1>2. add.path \in Seq(Characters) /\ ScanAt \in 1 .. Len(add.path) /\ add.path[1] = "/"
  BY <1>1, ScanAtFacts DEF TypeInv, AddInv, Adds
<1>3. ScanAt > 2
  BY <1>1, <1>2
<1>4. p \in Seq(Characters) /\ p # <<>> /\ p[1] = "/"
  <2> DEFINE i == ScanAt - 1
             s == add.path
  <2>1. i \in 1 .. Len(s) /\ i > 1 /\ Len(s) > 1 /\ s \in Seq(Characters) /\ s[1] = "/"
    BY <1>1, <1>2, <1>3
  <2> HIDE DEF i, s
  <2>2. /\ RemoveAt(s, i) \in Seq(Characters) /\ Len(RemoveAt(s, i)) = Len(s) - 1
        /\ \A k \in 1 .. i - 1 : RemoveAt(s, i)[k] = s[k]
    BY <2>1, RemoveAtFacts
  <2>3. RemoveAt(s, i) # <<>> /\ RemoveAt(s, i)[1] = "/"
    BY <2>1, <2>2
  <2> QED
    BY <2>2, <2>3 DEF i, s
<1> HIDE DEF p
<1>5. add' = [add EXCEPT !.path = p, !.i = ScanAt] /\ UNCHANGED <<tree, maxParam, routes, pc, calls, cur, find>>
  BY DEF ScanEscape, p
<1>6. TypeInv'
  <2>1. add' \in Adds
    <3>1. add \in Adds /\ ScanAt \in Nat \ {0}
      BY <1>2 DEF TypeInv
    <3> QED
      BY <1>4, <1>5, <3>1 DEF Adds
  <2> QED
    BY <1>5, <2>1 DEF TypeInv
<1>7. /\ add'.method = add.method /\ add'.topic = add.topic /\ add'.ppath = add.ppath /\ add'.path = p
  BY <1>5 DEF TypeInv, Adds
<1>8. AddInv'
  BY <1>1, <1>4, <1>7 DEF AddInv
<1> QED
  BY <1>6, <1>8

\* insert is called for the static part before a parameter or a wildcard, and
\* for the part that ends with it.
LEMMA TwoCalls ==
  ASSUME TypeInv, AddInv, pc = "scan",
         NEW p \in Seq(Characters), NEW m \in 2 .. Len(p), p[1] = "/",
         NEW names \in Seq(Seq(Characters)), NEW j \in Nat \ {0},
         add' = [add EXCEPT !.path = p, !.pnames = names, !.i = j],
         NEW kind \in {"param", "any"}, NEW rm \in {EmptyRoute, Full(names)},
         p[m] = IF kind = "param" THEN ":" ELSE "*",
         kind = "any" => rm = Full(names),
         Calls(<<Call(Take(p, m - 1), "static", EmptyRoute), Call(Take(p, m), kind, rm)>>),
         UNCHANGED <<tree, maxParam, routes, find>>
  PROVE  /\ TypeInv' /\ AddInv' /\ pc' = "insert" /\ Len(calls') = 2
         /\ calls'[1].kind = "static" /\ cur' = [node |-> Root, search |-> calls'[1].path]
         /\ calls'[2].kind = kind /\ calls'[2].path = Take(p, m) /\ calls'[1].path = Take(p, m - 1)
<1> DEFINE c1 == Call(Take(p, m - 1), "static", EmptyRoute)
           c2 == Call(Take(p, m), kind, rm)
           full == [ppath |-> add.ppath, pnames |-> names, handler |-> add.method]
<1>1. /\ <<add.method, add.topic>> \in Routes /\ add.method \in AnyMethod
      /\ add.ppath = Rooted(add.topic) /\ add.ppath \in Seq(Characters)
  BY DEF TypeInv, AddInv, Adds
<1>2. Full(names) = full /\ full \in RouteMethods /\ full # EmptyRoute /\ EmptyRoute \in RouteMethods
  BY <1>1, FullFacts DEF Full, TypeInv, RouteMethods
<1>3. /\ Take(p, m) \in Seq(Characters) /\ Len(Take(p, m)) = m /\ Take(p, m)[m] = p[m]
      /\ Take(p, m - 1) \in Seq(Characters) /\ Len(Take(p, m - 1)) = m - 1
  <2>1. m \in 0 .. Len(p) /\ m - 1 \in 0 .. Len(p) /\ m \in 1 .. m
    OBVIOUS
  <2> QED
    BY <2>1, TakeFacts
<1>4. /\ c1 \in Caller /\ c1.path = Take(p, m - 1) /\ c1.kind = "static" /\ c1.rm = EmptyRoute
      /\ c1.method = add.method
  BY <1>1, <1>2, <1>3 DEF Call, Caller, Kinds
<1>5. /\ c2 \in Caller /\ c2.path = Take(p, m) /\ c2.kind = kind /\ c2.rm = rm
      /\ c2.method = add.method
  BY <1>1, <1>2, <1>3 DEF Call, Caller, Kinds
<1> HIDE DEF c1, c2, full
<1>6. /\ calls' = <<c1, c2>> /\ pc' = "insert" /\ cur' = [node |-> Root, search |-> c1.path]
  BY DEF Calls, c1, c2
<1>7. /\ calls' \in Seq(Caller) /\ Len(calls') = 2 /\ calls'[1] = c1 /\ calls'[2] = c2
  BY <1>4, <1>5, <1>6
<1>8. TypeInv'
  <2>1. cur' \in [node : Nat, search : Seq(Characters)]
    BY <1>3, <1>4, <1>6 DEF Root
  <2>2. add' \in Adds
    BY DEF TypeInv, Adds
  <2> QED
    BY <1>6, <1>7, <2>1, <2>2 DEF TypeInv
<1>9. /\ add'.method = add.method /\ add'.topic = add.topic /\ add'.ppath = add.ppath
      /\ add'.path = p /\ add'.pnames = names
  BY DEF TypeInv, Adds
<1>10. Full(add.pnames)' = full
  BY <1>9 DEF Full, full
<1>11. AddInv'
  <2>1. p # <<>>
    OBVIOUS
  <2>2. \A q \in DOMAIN calls' :
            /\ calls'[q].method = add'.method
            /\ calls'[q].path = Take(add'.path, Len(calls'[q].path))
            /\ 1 <= Len(calls'[q].path) /\ Len(calls'[q].path) <= Len(add'.path)
            /\ calls'[q].rm \in {EmptyRoute} \cup {Full(add.pnames)'}
    BY <1>2, <1>3, <1>4, <1>5, <1>7, <1>9, <1>10
  <2>3. /\ <<add'.method, add'.topic>> \in Routes /\ add'.method \in AnyMethod
        /\ add'.ppath = Rooted(add'.topic) /\ add'.path # <<>> /\ add'.path[1] = "/"
    BY <1>1, <1>9, <2>1
  <2>4. /\ Len(calls') \in 1 .. 2 /\ Len(calls') = 2
        /\ calls'[1].kind = "static" /\ calls'[1].rm = EmptyRoute
        /\ calls'[2].kind \in {"param", "any"}
        /\ Len(calls'[2].path) = Len(calls'[1].path) + 1
    BY <1>3, <1>4, <1>5, <1>7
  <2>5. /\ calls'[2].kind = "param" => calls'[2].path[Len(calls'[2].path)] = ":"
        /\ calls'[2].kind = "any" =>
             calls'[2].path[Len(calls'[2].path)] = "*" /\ calls'[2].rm # EmptyRoute
    BY <1>2, <1>3, <1>5, <1>7
  <2>6. calls'[2].kind # "static"
    BY <2>4
  <2> QED
    BY <1>6, <2>2, <2>3, <2>4, <2>5, <2>6 DEF AddInv
<1> QED
  BY <1>4, <1>5, <1>6, <1>7, <1>8, <1>11

\* A parameter is named, and its name is taken out of the path.
LEMMA ScanParamStep ==
  ASSUME TypeInv, AddInv, ScanParam
  PROVE  /\ TypeInv' /\ AddInv' /\ pc' = "insert" /\ calls'[1].kind = "static"
         /\ cur' = [node |-> Root, search |-> calls'[1].path]
         /\ UNCHANGED <<tree, maxParam, routes, find>>
<1> DEFINE end == Next1(add.path, ScanAt, {"/"})
           names == Append(add.pnames, SubSeq(add.path, ScanAt + 1, end - 1))
           short == Take(add.path, ScanAt) \o Drop(add.path, end - 1)
           rm == IF ScanAt = Len(short) THEN Full(names) ELSE EmptyRoute
<1>1. pc = "scan" /\ ScanAt <= Len(add.path) /\ add.path[ScanAt] = ":"
  BY DEF ScanParam, Scanning
<1>2. /\ add.path \in Seq(Characters) /\ ScanAt \in 2 .. Len(add.path) /\ add.path[1] = "/"
      /\ add.pnames \in Seq(Seq(Characters))
  BY <1>1, ScanAtFacts DEF TypeInv, AddInv, Adds
<1>3. end \in ScanAt .. Len(add.path) + 1
  BY <1>2, Next1Facts
<1>4. SubSeq(add.path, ScanAt + 1, end - 1) \in Seq(Characters)
  BY <1>2, <1>3
<1>5. names \in Seq(Seq(Characters))
  BY <1>2, <1>4
<1>6. /\ short \in Seq(Characters) /\ ScanAt \in 2 .. Len(short)
      /\ short[1] = "/" /\ short[ScanAt] = ":"
  <2>1. /\ Take(add.path, ScanAt) \in Seq(Characters) /\ Len(Take(add.path, ScanAt)) = ScanAt
        /\ \A k \in 1 .. ScanAt : Take(add.path, ScanAt)[k] = add.path[k]
    BY <1>2, TakeFacts
  <2>2. Drop(add.path, end - 1) \in Seq(Characters)
    BY <1>2, <1>3, DropFacts
  <2>3. /\ short \in Seq(Characters) /\ Len(short) >= ScanAt
        /\ \A k \in 1 .. ScanAt : short[k] = Take(add.path, ScanAt)[k]
    BY <1>2, <2>1, <2>2, ConcatProperties
  <2> QED
    BY <1>1, <1>2, <2>1, <2>3
<1>7. /\ add' = [add EXCEPT !.path = short, !.pnames = names, !.i = ScanAt + 2]
      /\ Calls(<<Call(Take(short, ScanAt - 1), "static", EmptyRoute), Call(Take(short, ScanAt), "param", rm)>>)
      /\ UNCHANGED <<tree, maxParam, routes, find>>
  BY DEF ScanParam
<1>8. rm \in {EmptyRoute, Full(names)} /\ ScanAt + 2 \in Nat \ {0}
  BY <1>2
<1> HIDE DEF end, names, short, rm
<1> QED
  BY <1>1, <1>5, <1>6, <1>7, <1>8, TwoCalls

\* A wildcard is named, too.
LEMMA ScanAnyStep ==
  ASSUME TypeInv, AddInv, ScanAny
  PROVE  /\ TypeInv' /\ AddInv' /\ pc' = "insert" /\ calls'[1].kind = "static"
         /\ cur' = [node |-> Root, search |-> calls'[1].path]
         /\ UNCHANGED <<tree, maxParam, routes, find>>
<1> DEFINE names == Append(add.pnames, <<"*">>)
<1>1. pc = "scan" /\ ScanAt <= Len(add.path) /\ add.path[ScanAt] = "*"
  BY DEF ScanAny, Scanning
<1>2. /\ add.path \in Seq(Characters) /\ ScanAt \in 2 .. Len(add.path) /\ add.path[1] = "/"
      /\ add.pnames \in Seq(Seq(Characters))
  BY <1>1, ScanAtFacts DEF TypeInv, AddInv, Adds
<1>3. <<"*">> \in Seq(Characters)
  BY Single, PathsAssumption
<1>4. names \in Seq(Seq(Characters))
  BY <1>2, <1>3
<1>5. /\ add' = [add EXCEPT !.pnames = names, !.i = ScanAt + 1]
      /\ Calls(<<Call(Take(add.path, ScanAt - 1), "static", EmptyRoute),
                 Call(Take(add.path, ScanAt), "any", Full(names))>>)
      /\ UNCHANGED <<tree, maxParam, routes, find>>
  BY DEF ScanAny
<1>6. ScanAt + 1 \in Nat \ {0}
  BY <1>2
<1> HIDE DEF names
<1>7. add' = [add EXCEPT !.path = add.path, !.pnames = names, !.i = ScanAt + 1]
  BY <1>5 DEF TypeInv, Adds
<1>8. PICK p, m, j, kind, rm : /\ p = add.path /\ m = ScanAt /\ j = ScanAt + 1
                               /\ kind = "any" /\ rm = Full(names)
  OBVIOUS
<1>9. /\ p \in Seq(Characters) /\ m \in 2 .. Len(p) /\ p[1] = "/" /\ j \in Nat \ {0}
      /\ add' = [add EXCEPT !.path = p, !.pnames = names, !.i = j]
      /\ kind \in {"param", "any"} /\ rm \in {EmptyRoute, Full(names)}
      /\ p[m] = (IF kind = "param" THEN ":" ELSE "*") /\ (kind = "any" => rm = Full(names))
  BY <1>1, <1>2, <1>6, <1>7, <1>8
<1>10. Calls(<<Call(Take(p, m - 1), "static", EmptyRoute), Call(Take(p, m), kind, rm)>>)
  BY <1>5, <1>8
<1>11. UNCHANGED <<tree, maxParam, routes, find>>
  BY <1>5
<1>12. pc = "scan"
  BY <1>1
<1>13. /\ TypeInv' /\ AddInv' /\ pc' = "insert" /\ calls'[1].kind = "static"
       /\ cur' = [node |-> Root, search |-> calls'[1].path]
  BY ONLY TypeInv, AddInv, <1>4, <1>9, <1>10, <1>11, <1>12, TwoCalls
<1> QED
  BY <1>11, <1>13

\* The last call of insert is for the whole path.
LEMMA ScanEndStep ==
  ASSUME TypeInv, AddInv, ScanEnd
  PROVE  /\ TypeInv' /\ AddInv' /\ pc' = "insert" /\ calls'[1].kind = "static"
         /\ cur' = [node |-> Root, search |-> calls'[1].path]
         /\ calls' = <<Call(add.path, "static", Full(add.pnames))>>
         /\ UNCHANGED <<tree, maxParam, routes, add, find>>
<1> DEFINE c == Call(add.path, "static", Full(add.pnames))
<1>1. pc = "scan" /\ UNCHANGED <<tree, maxParam, routes, add, find>>
  BY DEF ScanEnd
<1>2. /\ <<add.method, add.topic>> \in Routes /\ add.method \in AnyMethod
      /\ add.ppath = Rooted(add.topic) /\ add.ppath \in Seq(Characters)
      /\ add.path \in Seq(Characters) /\ add.path # <<>> /\ add.path[1] = "/"
      /\ add.pnames \in Seq(Seq(Characters))
  BY <1>1 DEF TypeInv, AddInv, Adds
<1>3. Full(add.pnames) \in RouteMethods /\ Full(add.pnames) # EmptyRoute
  BY <1>2, FullFacts DEF Full, TypeInv
<1>4. /\ c \in Caller /\ c.path = add.path /\ c.kind = "static" /\ c.rm = Full(add.pnames)
      /\ c.method = add.method
  BY <1>2, <1>3 DEF Call, Caller, Kinds
<1>5. /\ calls' = <<c>> /\ pc' = "insert" /\ cur' = [node |-> Root, search |-> c.path]
  BY DEF ScanEnd, Calls
<1> HIDE DEF c
<1>6. calls' \in Seq(Caller) /\ Len(calls') = 1 /\ calls'[1] = c
  BY <1>4, <1>5
<1>7. TypeInv'
  <2>1. cur' \in [node : Nat, search : Seq(Characters)]
    BY <1>2, <1>4, <1>5 DEF Root
  <2> QED
    BY <1>1, <1>5, <1>6, <2>1 DEF TypeInv
<1>8. AddInv'
  <2>1. Full(add.pnames)' = Full(add.pnames)
    BY <1>1 DEF Full
  <2>2. add.path = Take(add.path, Len(add.path)) /\ Len(add.path) >= 1
    BY <1>2 DEF Take
  <2> QED
    BY <1>1, <1>2, <1>3, <1>4, <1>5, <1>6, <2>1, <2>2 DEF AddInv
<1> QED
  BY <1>1, <1>4, <1>5, <1>6, <1>7, <1>8 DEF c

\* What is left of one or two calls.
LEMMA TailFacts ==
  ASSUME NEW T, NEW s \in Seq(T), Len(s) \in 1 .. 2
  PROVE  /\ Tail(s) \in Seq(T) /\ Len(Tail(s)) = Len(s) - 1
         /\ Len(s) = 2 => Tail(s)[1] = s[2] /\ s[2] \in T
<1>1. s # <<>> /\ (Len(s) = 2 => s[2] \in T)
  OBVIOUS
<1>2. /\ Tail(s) \in Seq(T) /\ Len(Tail(s)) = Len(s) - 1
      /\ \A i \in 1 .. Len(Tail(s)) : Tail(s)[i] = s[i + 1]
  BY <1>1, HeadTailProperties
<1> QED
  BY <1>1, <1>2

\* When insert returns, Add goes on with what is left of its calls.
LEMMA ReturnsStep ==
  ASSUME TypeInv, AddInv, pc = "insert", NEW t \in Seq(Nodes), t # <<>>, Returns(t)
  PROVE  /\ TypeInv' /\ AddInv'
         /\ UNCHANGED <<routes, add, find>> /\ tree' = t
         /\ maxParam' >= maxParam /\ maxParam' >= Len(Now.rm.pnames)
         /\ pc' = "insert" => /\ Len(calls) = 2 /\ calls'[1] = calls[2] /\ Len(calls') = 1
                              /\ cur' = [node |-> Root, search |-> calls'[1].path]
         /\ pc' \in {"insert", "scan", "register"}
         /\ pc' # "insert" => Len(calls) = 1
<1>1. /\ calls \in Seq(Caller) /\ Len(calls) \in 1 .. 2 /\ maxParam \in Nat
  BY DEF TypeInv, AddInv
<1>2. Now \in Caller /\ Len(Now.rm.pnames) \in Nat
  <2>1. Now \in Caller
    BY <1>1 DEF Now
  <2>2. Now.rm \in RouteMethods
    BY <2>1 DEF Caller
  <2>3. Now.rm.pnames \in Seq(Seq(Characters))
    BY <2>2, RouteFacts
  <2> QED
    BY <2>1, <2>3
<1>3. Max({maxParam, Len(Now.rm.pnames)}) \in {maxParam, Len(Now.rm.pnames)}
      /\ \A y \in {maxParam, Len(Now.rm.pnames)} : Max({maxParam, Len(Now.rm.pnames)}) >= y
  <2> DEFINE S == {maxParam, Len(Now.rm.pnames)}
             b == maxParam + Len(Now.rm.pnames)
  <2>1. S \in SUBSET (0 .. b) /\ S # {} /\ b \in Nat
    BY <1>1, <1>2
  <2> HIDE DEF S, b
  <2>2. Max(S) \in S /\ \A y \in S : Max(S) >= y
    BY <2>1, MaxOf
  <2> QED
    BY <2>2 DEF S
<1>4. maxParam' \in Nat /\ maxParam' >= maxParam /\ maxParam' >= Len(Now.rm.pnames)
  BY <1>1, <1>2, <1>3 DEF Returns
<1>5. UNCHANGED <<routes, add, find>> /\ tree' = t /\ calls' = Tail(calls)
  BY DEF Returns
<1>6. CASE Len(calls) = 2
  <2>1. calls' \in Seq(Caller) /\ Len(calls') = 1 /\ calls'[1] = calls[2] /\ calls[2] \in Caller
    <3>1. /\ Tail(calls) \in Seq(Caller) /\ Len(Tail(calls)) = 1 /\ Tail(calls)[1] = calls[2]
          /\ calls[2] \in Caller
      BY <1>1, <1>6, TailFacts
    <3> QED
      BY <1>5, <3>1
  <2>2. cur' = [node |-> Root, search |-> calls'[1].path] /\ pc' = "insert"
    <3>1. cur' = [node |-> Root, search |-> calls[2].path] /\ pc' = pc
      BY <1>6 DEF Returns
    <3> QED
      BY <2>1, <3>1
  <2>3. cur' \in [node : Nat, search : Seq(Characters)]
    BY <2>1, <2>2 DEF Caller, Root
  <2>4. TypeInv'
    BY <1>4, <1>5, <2>1, <2>2, <2>3 DEF TypeInv
  <2>5. AddInv'
    <3>1. Full(add.pnames)' = Full(add.pnames)
      BY <1>5 DEF Full
    <3>2. 2 \in DOMAIN calls
      BY <1>1, <1>6
    <3>3. /\ calls[2].method = add.method
          /\ calls[2].path = Take(add.path, Len(calls[2].path))
          /\ 1 <= Len(calls[2].path) /\ Len(calls[2].path) <= Len(add.path)
          /\ calls[2].rm \in {EmptyRoute} \cup {Full(add.pnames)}
          /\ calls[2].kind = "param" => calls[2].path[Len(calls[2].path)] = ":"
          /\ calls[2].kind = "any" =>
               calls[2].path[Len(calls[2].path)] = "*" /\ calls[2].rm # EmptyRoute
          /\ calls[2].kind # "static"
      BY <1>6, <3>2 DEF AddInv
    <3>4. DOMAIN calls' = {1}
      BY <2>1
    <3>5. /\ <<add.method, add.topic>> \in Routes /\ add.method \in AnyMethod
          /\ add.ppath = Rooted(add.topic) /\ add.path # <<>> /\ add.path[1] = "/"
      BY DEF AddInv
    <3>6. /\ calls'[Len(calls')] = calls[2] /\ \A q \in DOMAIN calls' : calls'[q] = calls[2]
          /\ Len(calls') = 1 /\ add' = add /\ pc' = "insert"
      BY <1>5, <2>1, <2>2, <3>4
    <3>7. \A q \in DOMAIN calls' :
            /\ calls'[q].method = add'.method
            /\ calls'[q].path = Take(add'.path, Len(calls'[q].path))
            /\ 1 <= Len(calls'[q].path) /\ Len(calls'[q].path) <= Len(add'.path)
            /\ calls'[q].rm \in {EmptyRoute} \cup {Full(add.pnames)'}
      BY <3>1, <3>3, <3>6
    <3> QED
      BY <3>3, <3>5, <3>6, <3>7 DEF AddInv
  <2> QED
    BY <1>4, <1>5, <1>6, <2>1, <2>2, <2>4, <2>5
<1>7. CASE Len(calls) = 1
  <2>1. cur' = NoCur /\ pc' \in {"register", "scan"}
    BY <1>7 DEF Returns
  <2>2. calls' \in Seq(Caller)
    BY <1>1, <1>5, TailFacts
  <2>3. cur' \in [node : Nat, search : Seq(Characters)]
    BY <2>1 DEF NoCur, Root
  <2>4. TypeInv'
    BY <1>4, <1>5, <2>1, <2>2, <2>3 DEF TypeInv
  <2>5. AddInv'
    BY <1>5, <2>1 DEF AddInv
  <2> QED
    BY <1>4, <1>5, <1>7, <2>1, <2>4, <2>5
<1> QED
  BY <1>1, <1>6, <1>7

-----------------------------------------------------------------------------
(* insert: what the walk down the tree knows *)

Reached(w) == Start(w, cur.node) + Common

\* insert has come to a node whose word agrees with the path up to Reached, and
\* not beyond.
LEMMA InsertFacts ==
  ASSUME NEW w, TypeInv, AddInv, WordInv(w), WalkInv(w), pc = "insert"
  PROVE  /\ cur.node \in DOMAIN tree /\ Node = tree[cur.node] /\ Node \in Nodes
         /\ w[cur.node] \in Seq(Characters) /\ Node.prefix \in Seq(Characters)
         /\ cur.search \in Seq(Characters) /\ cur.search # <<>>
         /\ Now \in Caller /\ Now.path \in Seq(Characters)
         /\ Start(w, cur.node) \in Nat
         /\ Common \in Nat /\ Common <= Len(cur.search) /\ Common <= Len(Node.prefix)
         /\ Len(w[cur.node]) = Start(w, cur.node) + Len(Node.prefix)
         /\ Len(Now.path) = Start(w, cur.node) + Len(cur.search)
         /\ Agree(w[cur.node], Now.path, Reached(w))
         /\ Common < Len(cur.search) /\ Common < Len(Node.prefix) =>
              w[cur.node][Reached(w) + 1] # Now.path[Reached(w) + 1]
         /\ Node.prefix # <<>> => Common > 0
<1> DEFINE n == cur.node
           S == Start(w, cur.node)
<1>1. /\ n \in DOMAIN tree /\ cur.search # <<>> /\ Len(Now.path) = S + Len(cur.search)
      /\ Agree(w[n], Now.path, S)
      /\ \A k \in 1 .. Len(cur.search) : cur.search[k] = Now.path[S + k]
      /\ Node.prefix # <<>> => cur.search[1] = Node.prefix[1]
  BY DEF WalkInv
<1>2. tree[n] \in Nodes /\ cur.search \in Seq(Characters) /\ Node = tree[n]
  BY <1>1 DEF TypeInv, Node
<1>3. Node.prefix \in Seq(Characters)
  BY <1>2 DEF Nodes
<1>4. /\ w[n] \in Seq(Characters) /\ S >= 0 /\ S = Len(w[n]) - Len(Node.prefix)
      /\ \A k \in 1 .. Len(Node.prefix) : Node.prefix[k] = w[n][S + k]
  BY <1>1, <1>2 DEF WordInv, Start, StartIn, WordsOf
<1>5. S \in Nat /\ Len(w[n]) = S + Len(Node.prefix)
  BY <1>3, <1>4
<1>6. calls \in Seq(Caller) /\ Len(calls) \in 1 .. 2
  BY DEF TypeInv, AddInv
<1>7. Now \in Caller
  BY <1>6 DEF Now
<1>8. Now.path \in Seq(Characters)
  BY <1>7 DEF Caller
<1>9. /\ Common \in Nat /\ Common <= Len(cur.search) /\ Common <= Len(Node.prefix)
      /\ Agree(cur.search, Node.prefix, Common)
      /\ Common < Len(cur.search) /\ Common < Len(Node.prefix) =>
           cur.search[Common + 1] # Node.prefix[Common + 1]
  BY <1>2, <1>3, LcpFacts DEF Common
<1> HIDE DEF n, S
<1>10. Agree(w[n], Now.path, S + Common)
  <2> SUFFICES ASSUME NEW k \in 1 .. S + Common PROVE w[n][k] = Now.path[k]
    BY DEF Agree
  <2>1. CASE k <= S
    BY <1>1, <1>5, <1>9, <2>1 DEF Agree
  <2>2. CASE k > S
    <3>1. PICK l \in 1 .. Common : k = S + l
      BY <1>5, <1>9, <2>2
    <3>2. cur.search[l] = Node.prefix[l]
      BY <1>9, <3>1 DEF Agree
    <3>3. l \in 1 .. Len(cur.search) /\ l \in 1 .. Len(Node.prefix)
      BY <1>2, <1>3, <1>9, <3>1
    <3> QED
      BY <1>1, <1>4, <3>1, <3>2, <3>3
  <2> QED
    BY <1>5, <1>9, <2>1, <2>2
<1>11. Common < Len(cur.search) /\ Common < Len(Node.prefix) => w[n][S + Common + 1] # Now.path[S + Common + 1]
  <2> SUFFICES ASSUME Common < Len(cur.search), Common < Len(Node.prefix)
               PROVE  w[n][S + Common + 1] # Now.path[S + Common + 1]
    OBVIOUS
  <2>1. Common + 1 \in 1 .. Len(cur.search) /\ Common + 1 \in 1 .. Len(Node.prefix)
    BY <1>2, <1>3, <1>9
  <2>2. cur.search[Common + 1] = Now.path[S + (Common + 1)] /\ Node.prefix[Common + 1] = w[n][S + (Common + 1)]
    BY <1>1, <1>4, <2>1
  <2>3. S + (Common + 1) = S + Common + 1
    BY <1>5, <1>9
  <2> QED
    BY <1>9, <2>2, <2>3
<1>12. Node.prefix # <<>> => Common > 0
  <2> SUFFICES ASSUME Node.prefix # <<>>, Common = 0 PROVE FALSE
    BY <1>9
  <2>1. Len(Node.prefix) > 0 /\ Len(cur.search) > 0
    BY <1>1, <1>2, <1>3
  <2> QED
    BY <1>1, <1>9, <2>1
<1> QED
  BY <1>1, <1>2, <1>3, <1>4, <1>5, <1>7, <1>8, <1>9, <1>10, <1>11, <1>12 DEF n, S, Reached

\* No node is its own child: its word is longer than its parent's.
LEMMA KidFacts ==
  ASSUME NEW w, TypeInv, LinkInv, WordInv(w), NEW i \in DOMAIN tree, NEW c \in Kids(tree[i])
  PROVE  /\ c \in DOMAIN tree /\ c # Root /\ tree[c].parent = i /\ c # i
         /\ tree[c].prefix # <<>> /\ tree[c].prefix \in Seq(Characters)
         /\ w[c] \in Seq(Characters) /\ w[i] \in Seq(Characters)
         /\ Start(w, c) = Len(w[i]) /\ Len(w[c]) > Len(w[i])
         /\ Agree(w[i], w[c], Len(w[i]))
         /\ tree[c].prefix[1] = w[c][Len(w[i]) + 1]
<1>1. c \in DOMAIN tree /\ c # Root /\ tree[c].parent = i
  BY DEF LinkInv
<1>2. tree[c] \in Nodes /\ tree[i] \in Nodes /\ Len(tree) \in Nat
  BY <1>1 DEF TypeInv
<1>3. tree[c].prefix \in Seq(Characters)
  BY <1>2 DEF Nodes
<1>4. /\ Start(w, c) = Len(w[i]) /\ Agree(w[i], w[c], Start(w, c))
      /\ w[c] \in Seq(Characters) /\ w[i] \in Seq(Characters)
      /\ \A k \in 1 .. Len(tree[c].prefix) : tree[c].prefix[k] = w[c][Start(w, c) + k]
  BY <1>1 DEF WordInv, WordsOf, Start
<1>5. tree[c].prefix # <<>>
  <2> SUFFICES ASSUME tree[c].prefix = <<>> PROVE FALSE
    OBVIOUS
  <2>1. Len(tree) = 1
    BY <1>1 DEF WordInv, WordsOf, Start
  <2> QED
    BY <1>1, <2>1 DEF Root, TypeInv
<1>6. Len(tree[c].prefix) >= 1
  BY <1>3, <1>5
<1>7. Len(w[c]) \in Nat /\ Len(w[i]) \in Nat /\ Len(tree[c].prefix) \in Nat
  BY <1>3, <1>4
<1>8. Len(w[c]) > Len(w[i])
  <2>1. Len(w[c]) - Len(tree[c].prefix) = Len(w[i])
    BY <1>4 DEF Start, StartIn
  <2> DEFINE a == Len(w[c])
             b == Len(w[i])
             d == Len(tree[c].prefix)
  <2>2. a \in Nat /\ b \in Nat /\ d \in Nat /\ a - d = b /\ d >= 1
    BY <1>6, <1>7, <2>1
  <2> HIDE DEF a, b, d
  <2>3. a > b
    BY <2>2
  <2> QED
    BY <2>3 DEF a, b
<1> QED
  BY <1>1, <1>3, <1>4, <1>5, <1>6, <1>8

-----------------------------------------------------------------------------
(* insert: what its branches make of the tree *)

\* The node insert is at is split: c is its lower half, and the upper half has
\* the nodes of extra beside it.
Halved(c, extra) ==
  /\ \A i \in DOMAIN tree \ {cur.node} :
       /\ SameBelow(tree[i], tree'[i])
       /\ tree'[i].parent = IF i \in Kids(Node) THEN c ELSE tree[i].parent
       /\ tree'[i].kind = tree[i].kind /\ tree'[i].paramsCount = tree[i].paramsCount
  /\ tree'[cur.node].prefix = Take(Node.prefix, Common)
  /\ tree'[cur.node].parent = Node.parent
  /\ tree'[cur.node].statics = {c} \cup extra
  /\ tree'[cur.node].param = NoNode /\ tree'[cur.node].any = NoNode
  /\ tree'[cur.node].isLeaf = FALSE
  /\ tree'[c].prefix = Drop(Node.prefix, Common)
  /\ tree'[c].parent = cur.node
  /\ tree'[c].statics = Node.statics /\ tree'[c].param = Node.param /\ tree'[c].any = Node.any
  /\ tree'[c].isLeaf = IsLeafNode(Node)
  /\ tree'[c].kind = Node.kind /\ tree'[c].paramsCount = Node.paramsCount

\* Node e is a new child of the node insert is at.
Sprouted(e) ==
  /\ tree'[e].prefix = Drop(cur.search, Common)
  /\ tree'[e].parent = cur.node
  /\ IsLeafNode(tree'[e]) /\ tree'[e].isLeaf
  /\ tree'[e].kind = Now.kind
  /\ tree'[e].paramsCount = IF Now.rm.handler # "nil" THEN Len(Now.rm.pnames) ELSE 0

\* A call has what registering a handler needs.
LEMMA CallFacts ==
  ASSUME NEW c \in Caller
  PROVE  /\ c.rm \in RouteMethods /\ c.method \in AnyMethod /\ c.kind \in Kinds
         /\ c.path \in Seq(Characters) /\ c.rm.ppath \in Seq(Characters)
         /\ c.rm.pnames \in Seq(Seq(Characters))
<1>1. c.rm \in RouteMethods /\ c.method \in AnyMethod /\ c.kind \in Kinds /\ c.path \in Seq(Characters)
  BY DEF Caller
<1> QED
  BY <1>1, RouteFacts

\* The halves of a node that is split are nodes, and the others are moved.
LEMMA HalfFacts ==
  ASSUME tree \in Seq(Nodes), cur.node \in DOMAIN tree, Node \in Nodes,
         Common \in Nat, Common <= Len(Node.prefix), NEW c \in Nat
  PROVE  /\ Lower \in Nodes
         /\ Lower.prefix = Drop(Node.prefix, Common) /\ Lower.parent = cur.node
         /\ Lower.statics = Node.statics /\ Lower.param = Node.param /\ Lower.any = Node.any
         /\ Lower.isLeaf = IsLeafNode(Node)
         /\ Lower.kind = Node.kind /\ Lower.paramsCount = Node.paramsCount
         /\ Upper(c) \in Nodes
         /\ Upper(c).prefix = Take(Node.prefix, Common) /\ Upper(c).parent = Node.parent
         /\ Upper(c).statics = {c} /\ Upper(c).param = NoNode /\ Upper(c).any = NoNode
         /\ Upper(c).kind = "static"
         /\ DOMAIN Moved(c) = DOMAIN tree
         /\ \A i \in DOMAIN tree :
              /\ Moved(c)[i] \in Nodes /\ SameBelow(tree[i], Moved(c)[i])
              /\ Moved(c)[i].parent = IF i \in Kids(Node) THEN c ELSE tree[i].parent
              /\ Moved(c)[i].kind = tree[i].kind /\ Moved(c)[i].paramsCount = tree[i].paramsCount
<1>1. Node.prefix \in Seq(Characters) /\ Node.parent \in Nat
  BY DEF Nodes
<1>2. Drop(Node.prefix, Common) \in Seq(Characters) /\ Take(Node.prefix, Common) \in Seq(Characters)
  <2>1. PICK s, x : s = Node.prefix /\ x = Common
    OBVIOUS
  <2>2. s \in Seq(Characters) /\ x \in Nat /\ x <= Len(s)
    BY <1>1, <2>1
  <2>3. x \in 0 .. Len(s)
    BY ONLY <2>2
  <2>4. Drop(s, x) \in Seq(Characters) /\ Take(s, x) \in Seq(Characters)
    BY ONLY <2>2, <2>3, TakeFacts, DropFacts
  <2> QED
    BY <2>1, <2>4
<1>3. IsLeafNode(Node) \in BOOLEAN /\ IsHandler(Node.methods) \in BOOLEAN /\ cur.node \in Nat
  BY DEF IsLeafNode, IsHandler
<1>4. /\ Lower \in Nodes
      /\ Lower.prefix = Drop(Node.prefix, Common) /\ Lower.parent = cur.node
      /\ Lower.statics = Node.statics /\ Lower.param = Node.param /\ Lower.any = Node.any
      /\ Lower.isLeaf = IsLeafNode(Node)
      /\ Lower.kind = Node.kind /\ Lower.paramsCount = Node.paramsCount
  BY <1>2, <1>3 DEF Lower, Nodes
<1>5. /\ Upper(c) \in Nodes
      /\ Upper(c).prefix = Take(Node.prefix, Common) /\ Upper(c).parent = Node.parent
      /\ Upper(c).statics = {c} /\ Upper(c).param = NoNode /\ Upper(c).any = NoNode
      /\ Upper(c).kind = "static"
  <2> DEFINE a == Take(Node.prefix, Common)
             p == Node.parent
             b == "static"
             e == <<>>
             k == NewNode(b, a, p, e)
  <2>1. a \in Seq(Characters) /\ p \in Nat /\ e \in Seq(Characters) /\ b \in Kinds
    BY <1>1, <1>2 DEF Kinds
  <2> HIDE DEF a, p, b, e
  <2>2. k \in Nodes /\ k.prefix = a /\ k.parent = p /\ k.kind = b /\ IsLeafNode(k)
    BY <2>1, NewNodeFacts
  <2> HIDE DEF k
  <2>3. Upper(c) = [k EXCEPT !.statics = {c}, !.isLeaf = FALSE]
    BY DEF Upper, k, a, p, b, e
  <2>4. k.param = NoNode /\ k.any = NoNode
    BY <2>2 DEF IsLeafNode
  <2>5. {c} \in SUBSET Nat
    OBVIOUS
  <2> QED
    BY <2>2, <2>3, <2>4, <2>5 DEF Nodes, a, p, b
<1>6. DOMAIN Moved(c) = DOMAIN tree
  BY DEF Moved
<1>7. ASSUME NEW i \in DOMAIN tree
      PROVE  /\ Moved(c)[i] \in Nodes /\ SameBelow(tree[i], Moved(c)[i])
             /\ Moved(c)[i].parent = IF i \in Kids(Node) THEN c ELSE tree[i].parent
             /\ Moved(c)[i].kind = tree[i].kind /\ Moved(c)[i].paramsCount = tree[i].paramsCount
  <2>1. tree[i] \in Nodes /\ i # NoNode
    BY DEF NoNode
  <2>2. Moved(c)[i] = IF i \in Kids(Node) THEN [tree[i] EXCEPT !.parent = c] ELSE tree[i]
    BY <2>1 DEF Moved, Kids
  <2>3. [tree[i] EXCEPT !.parent = c] \in Nodes
    BY <2>1 DEF Nodes
  <2> QED
    BY <2>1, <2>2, <2>3 DEF Nodes, SameBelow
<1> QED
  BY <1>4, <1>5, <1>6, <1>7

\* A leaf flag that is computed anew leaves the rest of a node alone.
LEMMA SetLeafFacts ==
  ASSUME NEW n \in Nodes
  PROVE  /\ SetLeaf(n) \in Nodes /\ SetLeaf(n).isLeaf = IsLeafNode(n)
         /\ SetLeaf(n).prefix = n.prefix /\ SetLeaf(n).parent = n.parent
         /\ SetLeaf(n).statics = n.statics /\ SetLeaf(n).param = n.param /\ SetLeaf(n).any = n.any
         /\ SetLeaf(n).kind = n.kind /\ SetLeaf(n).paramsCount = n.paramsCount
<1>1. IsLeafNode(n) \in BOOLEAN
  BY DEF IsLeafNode
<1> QED
  BY <1>1 DEF SetLeaf, Nodes

\* A sequence with one or two more elements at its end.
LEMMA LongerFacts ==
  ASSUME NEW T, NEW g \in Seq(T), NEW y \in T, NEW z \in T
  PROVE  /\ Append(g, y) \in Seq(T) /\ Len(Append(g, y)) = Len(g) + 1
         /\ Append(g, y)[Len(g) + 1] = y /\ \A i \in 1 .. Len(g) : Append(g, y)[i] = g[i]
         /\ g \o <<y, z>> \in Seq(T) /\ Len(g \o <<y, z>>) = Len(g) + 2
         /\ (g \o <<y, z>>)[Len(g) + 1] = y /\ (g \o <<y, z>>)[Len(g) + 2] = z
         /\ \A i \in 1 .. Len(g) : (g \o <<y, z>>)[i] = g[i]
<1>1. /\ Append(g, y) \in Seq(T) /\ Len(Append(g, y)) = Len(g) + 1
      /\ Append(g, y)[Len(g) + 1] = y /\ \A i \in 1 .. Len(g) : Append(g, y)[i] = g[i]
  BY AppendProperties
<1> DEFINE p == <<y, z>>
<1>2. p \in Seq(T) /\ Len(p) = 2 /\ p[1] = y /\ p[2] = z
  OBVIOUS
<1> HIDE DEF p
<1>3. /\ g \o p \in Seq(T) /\ Len(g \o p) = Len(g) + Len(p)
      /\ \A i \in 1 .. Len(g) + Len(p) : (g \o p)[i] = IF i <= Len(g) THEN g[i] ELSE p[i - Len(g)]
  BY <1>2, ConcatProperties
<1>4. /\ \A i \in 1 .. Len(g) : (g \o p)[i] = g[i]
      /\ (g \o p)[Len(g) + 1] = y /\ (g \o p)[Len(g) + 2] = z
      /\ Len(g \o p) = Len(g) + 2
  BY <1>2, <1>3
<1> QED
  BY <1>1, <1>3, <1>4 DEF p

\* A sequence with one element replaced.
LEMMA EditFacts ==
  ASSUME NEW T, NEW k \in Nat, NEW f \in [1 .. k -> T], NEW n \in 1 .. k, NEW x \in T
  PROVE  /\ [f EXCEPT ![n] = x] \in Seq(T) /\ Len([f EXCEPT ![n] = x]) = k
         /\ [f EXCEPT ![n] = x][n] = x
         /\ \A i \in 1 .. k : i # n => [f EXCEPT ![n] = x][i] = f[i]
<1> DEFINE g == [f EXCEPT ![n] = x]
<1>1. g \in [1 .. k -> T] /\ g[n] = x /\ \A i \in 1 .. k : i # n => g[i] = f[i]
  OBVIOUS
<1> HIDE DEF g
<1>2. g \in Seq(T) /\ Len(g) = k
  BY <1>1
<1> QED
  BY <1>1, <1>2 DEF g

\* The path ends inside a node.
LEMMA SplitShape ==
  ASSUME NEW w, TypeInv, AddInv, WordInv(w), WalkInv(w), InsertSplit
  PROVE  /\ Returns(tree') /\ tree' \in Seq(Nodes) /\ Len(tree') = Len(tree) + 1
         /\ Halved(Len(tree) + 1, {}) /\ tree'[cur.node].kind = Now.kind
         /\ tree'[cur.node].paramsCount = Len(Now.rm.pnames)
<1> DEFINE c == Len(tree) + 1
           k == [Upper(c) EXCEPT !.kind = Now.kind]
           x == SetLeaf(Register(k, Now.method, Now.rm))
           f == Moved(c)
           g == [f EXCEPT ![cur.node] = x]
<1>1. pc = "insert" /\ Returns(Append(g, Lower))
  BY DEF InsertSplit, Inserting
<1>2. tree' = Append(g, Lower)
  BY <1>1 DEF Returns
<1>3. /\ cur.node \in DOMAIN tree /\ Node \in Nodes /\ Now \in Caller
      /\ Common \in Nat /\ Common <= Len(Node.prefix)
  BY <1>1, InsertFacts
<1>4. tree \in Seq(Nodes) /\ c \in Nat /\ Len(tree) \in Nat /\ DOMAIN tree = 1 .. Len(tree)
  BY DEF TypeInv
<1> HIDE DEF c, f
<1>5. /\ Now.rm \in RouteMethods /\ Now.method \in AnyMethod /\ Now.kind \in Kinds
  BY <1>3, CallFacts
<1>6. /\ Lower \in Nodes
      /\ Lower.prefix = Drop(Node.prefix, Common) /\ Lower.parent = cur.node
      /\ Lower.statics = Node.statics /\ Lower.param = Node.param /\ Lower.any = Node.any
      /\ Lower.isLeaf = IsLeafNode(Node)
      /\ Lower.kind = Node.kind /\ Lower.paramsCount = Node.paramsCount
  BY <1>3, <1>4, HalfFacts
<1>7. /\ Upper(c) \in Nodes
      /\ Upper(c).prefix = Take(Node.prefix, Common) /\ Upper(c).parent = Node.parent
      /\ Upper(c).statics = {c} /\ Upper(c).param = NoNode /\ Upper(c).any = NoNode
  BY <1>3, <1>4, HalfFacts
<1>8. /\ DOMAIN f = DOMAIN tree
      /\ \A i \in DOMAIN tree :
           /\ f[i] \in Nodes /\ SameBelow(tree[i], f[i])
           /\ f[i].parent = IF i \in Kids(Node) THEN c ELSE tree[i].parent
           /\ f[i].kind = tree[i].kind /\ f[i].paramsCount = tree[i].paramsCount
  BY <1>3, <1>4, HalfFacts DEF f
<1>9. f \in [1 .. Len(tree) -> Nodes]
  BY <1>4, <1>8 DEF f, Moved
<1>10. /\ k \in Nodes /\ k.prefix = Take(Node.prefix, Common) /\ k.parent = Node.parent
       /\ k.statics = {c} /\ k.param = NoNode /\ k.any = NoNode /\ k.kind = Now.kind
  BY <1>5, <1>7 DEF Nodes
<1> HIDE DEF k
<1> DEFINE r == Register(k, Now.method, Now.rm)
<1>11. r \in Nodes /\ SamePlace(k, r) /\ r.kind = k.kind /\ r.paramsCount = Len(Now.rm.pnames)
  BY <1>5, <1>10, RegisterFacts
<1> HIDE DEF r
<1>12. /\ x \in Nodes /\ x.prefix = Take(Node.prefix, Common) /\ x.parent = Node.parent
       /\ x.statics = {c} /\ x.param = NoNode /\ x.any = NoNode /\ x.kind = Now.kind
       /\ x.isLeaf = FALSE /\ x.paramsCount = Len(Now.rm.pnames)
  <2>1. x = SetLeaf(r)
    BY DEF r
  <2>2. ~IsLeafNode(r)
    BY <1>10, <1>11 DEF IsLeafNode, SamePlace, SameBelow
  <2> QED
    BY <1>10, <1>11, <2>1, <2>2, SetLeafFacts DEF SamePlace, SameBelow
<1> HIDE DEF x
<1>13. /\ Append(g, Lower) \in Seq(Nodes) /\ Len(Append(g, Lower)) = Len(tree) + 1
       /\ Append(g, Lower)[cur.node] = x /\ Append(g, Lower)[Len(tree) + 1] = Lower
       /\ \A i \in 1 .. Len(tree) : i # cur.node => Append(g, Lower)[i] = f[i]
  <2>1. cur.node \in 1 .. Len(tree) /\ x \in Nodes
    BY <1>3, <1>4, <1>12
  <2>2. /\ g \in Seq(Nodes) /\ Len(g) = Len(tree)
        /\ g[cur.node] = x /\ \A i \in 1 .. Len(tree) : i # cur.node => g[i] = f[i]
    BY <1>4, <1>9, <2>1, EditFacts
  <2> HIDE DEF g
  <2>3. Lower \in Nodes
    BY <1>6
  <2> QED
    BY <1>4, <2>1, <2>2, <2>3, LongerFacts
<1> HIDE DEF g
<1>14. Halved(c, {})
  <2>1. \A i \in DOMAIN tree \ {cur.node} : tree'[i] = f[i]
    BY <1>2, <1>4, <1>13
  <2>2. tree'[cur.node] = x /\ tree'[c] = Lower
    BY <1>2, <1>13 DEF c
  <2> QED
    BY <1>6, <1>8, <1>12, <2>1, <2>2 DEF Halved
<1> QED
  BY <1>1, <1>2, <1>12, <1>13, <1>14 DEF c

\* The path leaves the part of a node.
LEMMA ForkShape ==
  ASSUME NEW w, TypeInv, AddInv, WordInv(w), WalkInv(w), InsertFork
  PROVE  /\ Returns(tree') /\ tree' \in Seq(Nodes) /\ Len(tree') = Len(tree) + 2
         /\ Halved(Len(tree) + 1, {Len(tree) + 2}) /\ Sprouted(Len(tree) + 2)
         /\ tree'[cur.node].kind = "static"
<1> DEFINE c == Len(tree) + 1
           k == [Upper(c) EXCEPT !.statics = {c, c + 1}]
           x == SetLeaf(k)
           s == Drop(cur.search, Common)
           p == cur.node
           o == <<>>
           q == Now.kind
           new == NewNode(q, s, p, o)
           y == RegisterHandler(new, Now.method, Now.rm)
           f == Moved(c)
           g == [f EXCEPT ![cur.node] = x]
<1>1. pc = "insert" /\ Returns(g \o <<Lower, y>>)
  BY DEF InsertFork, Inserting
<1>2. tree' = g \o <<Lower, y>>
  BY <1>1 DEF Returns
<1>3. /\ cur.node \in DOMAIN tree /\ Node \in Nodes /\ Now \in Caller
      /\ Common \in Nat /\ Common <= Len(Node.prefix) /\ Common <= Len(cur.search)
      /\ cur.search \in Seq(Characters)
  BY <1>1, InsertFacts
<1>4. /\ tree \in Seq(Nodes) /\ c \in Nat /\ Len(tree) \in Nat /\ DOMAIN tree = 1 .. Len(tree)
      /\ c + 1 = Len(tree) + 2
  BY DEF TypeInv
<1>5. /\ Now.rm \in RouteMethods /\ Now.method \in AnyMethod /\ q \in Kinds
  BY <1>3, CallFacts
<1>6. s \in Seq(Characters) /\ p \in Nat /\ o \in Seq(Characters)
  BY <1>3, <1>4, DropFacts
<1> HIDE DEF c, f, s, p, o, q
<1>7. /\ Lower \in Nodes
      /\ Lower.prefix = Drop(Node.prefix, Common) /\ Lower.parent = cur.node
      /\ Lower.statics = Node.statics /\ Lower.param = Node.param /\ Lower.any = Node.any
      /\ Lower.isLeaf = IsLeafNode(Node)
      /\ Lower.kind = Node.kind /\ Lower.paramsCount = Node.paramsCount
  BY <1>3, <1>4, HalfFacts
<1>8. /\ Upper(c) \in Nodes
      /\ Upper(c).prefix = Take(Node.prefix, Common) /\ Upper(c).parent = Node.parent
      /\ Upper(c).statics = {c} /\ Upper(c).param = NoNode /\ Upper(c).any = NoNode
      /\ Upper(c).kind = "static"
  BY <1>3, <1>4, HalfFacts
<1>9. /\ DOMAIN f = DOMAIN tree
      /\ \A i \in DOMAIN tree :
           /\ f[i] \in Nodes /\ SameBelow(tree[i], f[i])
           /\ f[i].parent = IF i \in Kids(Node) THEN c ELSE tree[i].parent
           /\ f[i].kind = tree[i].kind /\ f[i].paramsCount = tree[i].paramsCount
  BY <1>3, <1>4, HalfFacts DEF f
<1>10. f \in [1 .. Len(tree) -> Nodes]
  BY <1>4, <1>9 DEF f, Moved
<1>11. /\ k \in Nodes /\ k.prefix = Take(Node.prefix, Common) /\ k.parent = Node.parent
       /\ k.statics = {c, c + 1} /\ k.param = NoNode /\ k.any = NoNode /\ k.kind = "static"
  <2>1. {c, c + 1} \in SUBSET Nat
    BY <1>4
  <2> QED
    BY <1>8, <2>1 DEF Nodes
<1> HIDE DEF k
<1>12. /\ x \in Nodes /\ x.prefix = Take(Node.prefix, Common) /\ x.parent = Node.parent
       /\ x.statics = {c, c + 1} /\ x.param = NoNode /\ x.any = NoNode /\ x.kind = "static"
       /\ x.isLeaf = FALSE
  <2>1. ~IsLeafNode(k)
    BY <1>11 DEF IsLeafNode
  <2> QED
    BY <1>11, <2>1, SetLeafFacts
<1> HIDE DEF x
<1>13. /\ new \in Nodes /\ new.prefix = s /\ new.parent = p /\ new.kind = q /\ IsLeafNode(new)
       /\ new.isLeaf /\ new.paramsCount = 0
  BY <1>5, <1>6, NewNodeFacts
<1> HIDE DEF new
<1>14. /\ y \in Nodes /\ SamePlace(new, y) /\ y.kind = q
       /\ y.paramsCount = IF Now.rm.handler # "nil" THEN Len(Now.rm.pnames) ELSE 0
  BY <1>5, <1>13, RegisterHandlerFacts
<1> HIDE DEF y
<1>15. /\ g \o <<Lower, y>> \in Seq(Nodes) /\ Len(g \o <<Lower, y>>) = Len(tree) + 2
       /\ (g \o <<Lower, y>>)[cur.node] = x /\ (g \o <<Lower, y>>)[Len(tree) + 1] = Lower
       /\ (g \o <<Lower, y>>)[Len(tree) + 2] = y
       /\ \A i \in 1 .. Len(tree) : i # cur.node => (g \o <<Lower, y>>)[i] = f[i]
  <2>1. cur.node \in 1 .. Len(tree) /\ x \in Nodes
    BY <1>3, <1>4, <1>12
  <2>2. /\ g \in Seq(Nodes) /\ Len(g) = Len(tree)
        /\ g[cur.node] = x /\ \A i \in 1 .. Len(tree) : i # cur.node => g[i] = f[i]
    BY <1>4, <1>10, <2>1, EditFacts
  <2> HIDE DEF g
  <2>3. Lower \in Nodes /\ y \in Nodes
    BY <1>7, <1>14
  <2> QED
    BY <1>4, <2>1, <2>2, <2>3, LongerFacts
<1> HIDE DEF g
<1>16. \A i \in DOMAIN tree \ {cur.node} : tree'[i] = f[i]
  BY <1>2, <1>4, <1>15
<1>17. tree'[cur.node] = x /\ tree'[c] = Lower /\ tree'[c + 1] = y
  BY <1>2, <1>4, <1>15 DEF c
<1>18. Halved(c, {c + 1})
  BY <1>7, <1>9, <1>12, <1>16, <1>17 DEF Halved
<1>19. Sprouted(c + 1)
  BY <1>13, <1>14, <1>17 DEF Sprouted, SamePlace, SameBelow, IsLeafNode, s, p, q
<1> QED
  BY <1>1, <1>2, <1>4, <1>12, <1>15, <1>17, <1>18, <1>19 DEF c

\* The path goes on below a node that has no child for it.
LEMMA ChildShape ==
  ASSUME NEW w, TypeInv, AddInv, WordInv(w), WalkInv(w), InsertChild
  PROVE  /\ Returns(tree') /\ tree' \in Seq(Nodes) /\ Len(tree') = Len(tree) + 1
         /\ \A i \in DOMAIN tree \ {cur.node} : tree'[i] = tree[i]
         /\ tree'[cur.node].prefix = Node.prefix /\ tree'[cur.node].parent = Node.parent
         /\ tree'[cur.node].statics
              = Node.statics \cup (IF Now.kind = "static" THEN {Len(tree) + 1} ELSE {})
         /\ tree'[cur.node].param = IF Now.kind = "param" THEN Len(tree) + 1 ELSE Node.param
         /\ tree'[cur.node].any = IF Now.kind = "any" THEN Len(tree) + 1 ELSE Node.any
         /\ tree'[cur.node].isLeaf = FALSE
         /\ tree'[cur.node].kind = Node.kind /\ tree'[cur.node].paramsCount = Node.paramsCount
         /\ Sprouted(Len(tree) + 1)
<1> DEFINE c == Len(tree) + 1
           s == Drop(cur.search, Common)
           p == cur.node
           o == Now.rm.ppath
           q == Now.kind
           new == NewNode(q, s, p, o)
           y == RegisterHandler(new, Now.method, Now.rm)
           k == CASE Now.kind = "static" -> [Node EXCEPT !.statics = @ \cup {c}]
                  [] Now.kind = "param" -> [Node EXCEPT !.param = c]
                  [] Now.kind = "any" -> [Node EXCEPT !.any = c]
           x == SetLeaf(k)
           g == [tree EXCEPT ![cur.node] = x]
<1>1. pc = "insert" /\ Returns(Append(g, y))
  BY DEF InsertChild, Below, Inserting
<1>2. tree' = Append(g, y)
  BY <1>1 DEF Returns
<1>3. /\ cur.node \in DOMAIN tree /\ Node \in Nodes /\ Now \in Caller
      /\ Common \in Nat /\ Common <= Len(cur.search) /\ cur.search \in Seq(Characters)
  BY <1>1, InsertFacts
<1>4. /\ tree \in Seq(Nodes) /\ c \in Nat \ {0} /\ Len(tree) \in Nat /\ DOMAIN tree = 1 .. Len(tree)
      /\ tree \in [1 .. Len(tree) -> Nodes]
  BY DEF TypeInv
<1>5. /\ Now.rm \in RouteMethods /\ Now.method \in AnyMethod /\ q \in Kinds /\ o \in Seq(Characters)
  BY <1>3, CallFacts
<1>6. s \in Seq(Characters) /\ p \in Nat
  BY <1>3, <1>4, DropFacts
<1> HIDE DEF c, s, p, o
<1>7. /\ k \in Nodes /\ k.prefix = Node.prefix /\ k.parent = Node.parent
      /\ k.statics = Node.statics \cup (IF q = "static" THEN {c} ELSE {})
      /\ k.param = IF q = "param" THEN c ELSE Node.param
      /\ k.any = IF q = "any" THEN c ELSE Node.any
      /\ k.kind = Node.kind /\ k.paramsCount = Node.paramsCount
  <2>1. CASE q = "static"
    <3>1. k = [Node EXCEPT !.statics = @ \cup {c}]
      BY <2>1
    <3> HIDE DEF k
    <3>2. Node.statics \cup {c} \in SUBSET Nat
      BY <1>3, <1>4 DEF Nodes
    <3> QED
      BY <1>3, <2>1, <3>1, <3>2 DEF Nodes
  <2>2. CASE q = "param"
    <3>1. k = [Node EXCEPT !.param = c]
      BY <2>2
    <3> HIDE DEF k
    <3> QED
      BY <1>3, <1>4, <2>2, <3>1 DEF Nodes
  <2>3. CASE q = "any"
    <3>1. k = [Node EXCEPT !.any = c]
      BY <2>3
    <3> HIDE DEF k
    <3> QED
      BY <1>3, <1>4, <2>3, <3>1 DEF Nodes
  <2> QED
    BY <1>5, <2>1, <2>2, <2>3 DEF Kinds
<1> HIDE DEF k, q
<1>8. ~IsLeafNode(k)
  BY <1>4, <1>5, <1>7 DEF IsLeafNode, Kinds, NoNode
<1>9. /\ x \in Nodes /\ x.prefix = Node.prefix /\ x.parent = Node.parent
      /\ x.statics = k.statics /\ x.param = k.param /\ x.any = k.any
      /\ x.kind = Node.kind /\ x.paramsCount = Node.paramsCount /\ x.isLeaf = FALSE
  BY <1>7, <1>8, SetLeafFacts
<1> HIDE DEF x
<1>10. /\ new \in Nodes /\ new.prefix = s /\ new.parent = p /\ new.kind = q /\ IsLeafNode(new)
       /\ new.isLeaf /\ new.paramsCount = 0
  BY <1>5, <1>6, NewNodeFacts
<1> HIDE DEF new
<1>11. /\ y \in Nodes /\ SamePlace(new, y) /\ y.kind = q
       /\ y.paramsCount = IF Now.rm.handler # "nil" THEN Len(Now.rm.pnames) ELSE 0
  BY <1>5, <1>10, RegisterHandlerFacts
<1> HIDE DEF y
<1>12. /\ Append(g, y) \in Seq(Nodes) /\ Len(Append(g, y)) = Len(tree) + 1
       /\ Append(g, y)[cur.node] = x /\ Append(g, y)[Len(tree) + 1] = y
       /\ \A i \in 1 .. Len(tree) : i # cur.node => Append(g, y)[i] = tree[i]
  <2>1. cur.node \in 1 .. Len(tree) /\ x \in Nodes
    BY <1>3, <1>4, <1>9
  <2>2. /\ g \in Seq(Nodes) /\ Len(g) = Len(tree)
        /\ g[cur.node] = x /\ \A i \in 1 .. Len(tree) : i # cur.node => g[i] = tree[i]
    BY <1>4, <2>1, EditFacts
  <2> HIDE DEF g
  <2>3. y \in Nodes
    BY <1>11
  <2> QED
    BY <1>4, <2>1, <2>2, <2>3, LongerFacts
<1> HIDE DEF g
<1>13. \A i \in DOMAIN tree \ {cur.node} : tree'[i] = tree[i]
  BY <1>2, <1>4, <1>12
<1>14. tree'[cur.node] = x /\ tree'[c] = y
  BY <1>2, <1>12 DEF c
<1>15. Sprouted(c)
  BY <1>10, <1>11, <1>14 DEF Sprouted, SamePlace, SameBelow, IsLeafNode, s, p, q
<1> QED
  BY <1>1, <1>2, <1>7, <1>9, <1>12, <1>13, <1>14, <1>15 DEF c, q

\* The path ends at the end of a node.
LEMMA ExistsShape ==
  ASSUME NEW w, TypeInv, AddInv, WordInv(w), WalkInv(w), InsertExists
  PROVE  /\ Returns(tree') /\ tree' \in Seq(Nodes) /\ Len(tree') = Len(tree)
         /\ \A i \in DOMAIN tree : SamePlace(tree[i], tree'[i]) /\ tree'[i].kind = tree[i].kind
         /\ \A i \in DOMAIN tree \ {cur.node} : tree'[i].paramsCount = tree[i].paramsCount
         /\ tree'[cur.node].paramsCount
              = IF Now.rm.handler # "nil" THEN Len(Now.rm.pnames) ELSE Node.paramsCount
<1> DEFINE x == RegisterHandler(Node, Now.method, Now.rm)
           g == [tree EXCEPT ![cur.node] = x]
<1>1. pc = "insert" /\ Returns([tree EXCEPT ![cur.node] = RegisterHandler(@, Now.method, Now.rm)])
  BY DEF InsertExists, Inserting
<1>2. cur.node \in DOMAIN tree /\ Node \in Nodes /\ Now \in Caller /\ Node = tree[cur.node]
  BY <1>1, InsertFacts
<1>3. tree' = g /\ Returns(g)
  BY <1>1, <1>2 DEF Returns
<1>4. /\ tree \in Seq(Nodes) /\ Len(tree) \in Nat /\ DOMAIN tree = 1 .. Len(tree)
      /\ tree \in [1 .. Len(tree) -> Nodes]
  BY DEF TypeInv
<1>5. Now.rm \in RouteMethods /\ Now.method \in AnyMethod
  BY <1>2, CallFacts
<1>6. /\ x \in Nodes /\ SamePlace(Node, x) /\ x.kind = Node.kind
      /\ x.paramsCount = IF Now.rm.handler # "nil" THEN Len(Now.rm.pnames) ELSE Node.paramsCount
  BY <1>2, <1>5, RegisterHandlerFacts
<1> HIDE DEF x
<1>7. cur.node \in 1 .. Len(tree) /\ x \in Nodes
  BY <1>2, <1>4, <1>6
<1>8. /\ g \in Seq(Nodes) /\ Len(g) = Len(tree)
      /\ g[cur.node] = x /\ \A i \in 1 .. Len(tree) : i # cur.node => g[i] = tree[i]
  BY <1>4, <1>7, EditFacts
<1> HIDE DEF g
<1>9. /\ tree'[cur.node] = x /\ \A i \in DOMAIN tree \ {cur.node} : tree'[i] = tree[i]
  BY <1>3, <1>4, <1>8
<1>10. \A i \in DOMAIN tree : SamePlace(tree[i], tree'[i]) /\ tree'[i].kind = tree[i].kind
  BY <1>2, <1>6, <1>9 DEF SamePlace, SameBelow
<1> QED
  BY <1>3, <1>6, <1>8, <1>9, <1>10

\* The tree is empty.
LEMMA RootShape ==
  ASSUME NEW w, TypeInv, AddInv, WordInv(w), WalkInv(w), InsertAtRoot
  PROVE  /\ Returns(tree') /\ tree' \in Seq(Nodes) /\ Len(tree') = Len(tree)
         /\ Node.prefix = <<>>
         /\ \A i \in DOMAIN tree \ {cur.node} : tree'[i] = tree[i]
         /\ tree'[cur.node].prefix = cur.search /\ tree'[cur.node].parent = Node.parent
         /\ tree'[cur.node].statics = Node.statics /\ tree'[cur.node].param = Node.param
         /\ tree'[cur.node].any = Node.any
         /\ tree'[cur.node].isLeaf = IsLeafNode(tree'[cur.node])
         /\ tree'[cur.node].kind = IF Now.rm.handler # "nil" THEN Now.kind ELSE Node.kind
         /\ tree'[cur.node].paramsCount
              = IF Now.rm.handler # "nil" THEN Len(Now.rm.pnames) ELSE Node.paramsCount
<1> DEFINE n == [Node EXCEPT !.prefix = cur.search]
           k == IF Now.rm.handler # "nil" THEN [n EXCEPT !.kind = Now.kind] ELSE n
           y == RegisterHandler(k, Now.method, Now.rm)
           x == SetLeaf(y)
           g == [tree EXCEPT ![cur.node] = x]
<1>1. pc = "insert" /\ Common = 0 /\ Returns(g)
  BY DEF InsertAtRoot, Inserting
<1>2. tree' = g
  BY <1>1 DEF Returns
<1>3. /\ cur.node \in DOMAIN tree /\ Node \in Nodes /\ Now \in Caller
      /\ cur.search \in Seq(Characters)
      /\ Node.prefix # <<>> => Common > 0
  BY <1>1, InsertFacts
<1>4. /\ tree \in Seq(Nodes) /\ Len(tree) \in Nat /\ DOMAIN tree = 1 .. Len(tree)
      /\ tree \in [1 .. Len(tree) -> Nodes]
  BY DEF TypeInv
<1>5. /\ Now.rm \in RouteMethods /\ Now.method \in AnyMethod /\ Now.kind \in Kinds
  BY <1>3, CallFacts
<1>6. /\ n \in Nodes /\ n.prefix = cur.search /\ n.parent = Node.parent /\ n.statics = Node.statics
      /\ n.param = Node.param /\ n.any = Node.any /\ n.kind = Node.kind
      /\ n.paramsCount = Node.paramsCount
  <2>1. Node \in Nodes /\ cur.search \in Seq(Characters)
    BY <1>3
  <2> QED
    BY <2>1 DEF Nodes
<1> HIDE DEF n
<1>7. /\ k \in Nodes /\ k.prefix = cur.search /\ k.parent = Node.parent /\ k.statics = Node.statics
      /\ k.param = Node.param /\ k.any = Node.any
      /\ k.kind = IF Now.rm.handler # "nil" THEN Now.kind ELSE Node.kind
      /\ k.paramsCount = Node.paramsCount
  BY <1>5, <1>6 DEF Nodes
<1> HIDE DEF k
<1>8. /\ y \in Nodes /\ SamePlace(k, y) /\ y.kind = k.kind
      /\ y.paramsCount = IF Now.rm.handler # "nil" THEN Len(Now.rm.pnames) ELSE k.paramsCount
  BY <1>5, <1>7, RegisterHandlerFacts
<1> HIDE DEF y
<1>9. /\ x \in Nodes /\ x.isLeaf = IsLeafNode(y) /\ x.prefix = y.prefix /\ x.parent = y.parent
      /\ x.statics = y.statics /\ x.param = y.param /\ x.any = y.any
      /\ x.kind = y.kind /\ x.paramsCount = y.paramsCount
  BY <1>8, SetLeafFacts
<1> HIDE DEF x
<1>10. IsLeafNode(x) = IsLeafNode(y)
  BY <1>9 DEF IsLeafNode
<1>11. cur.node \in 1 .. Len(tree) /\ x \in Nodes
  BY <1>3, <1>4, <1>9
<1>12. /\ g \in Seq(Nodes) /\ Len(g) = Len(tree)
       /\ g[cur.node] = x /\ \A i \in 1 .. Len(tree) : i # cur.node => g[i] = tree[i]
  BY <1>4, <1>11, EditFacts
<1> HIDE DEF g
<1>13. /\ tree'[cur.node] = x /\ \A i \in DOMAIN tree \ {cur.node} : tree'[i] = tree[i]
  BY <1>2, <1>4, <1>12
<1>14. /\ x.prefix = cur.search /\ x.parent = Node.parent /\ x.statics = Node.statics
       /\ x.param = Node.param /\ x.any = Node.any /\ x.isLeaf = IsLeafNode(x)
       /\ x.kind = IF Now.rm.handler # "nil" THEN Now.kind ELSE Node.kind
       /\ x.paramsCount = IF Now.rm.handler # "nil" THEN Len(Now.rm.pnames) ELSE Node.paramsCount
  BY <1>7, <1>8, <1>9, <1>10 DEF SamePlace, SameBelow
<1>15. Node.prefix = <<>>
  BY <1>1, <1>3
<1> QED
  BY <1>1, <1>2, <1>12, <1>13, <1>14, <1>15

\* The elements of a sequence.
LEMMA MemberFacts ==
  ASSUME NEW T, NEW s \in Seq(T), NEW i \in DOMAIN s
  PROVE  s[i] \in T
OBVIOUS

\* A longer sequence is not one character.
LEMMA LongFacts ==
  ASSUME NEW s \in Seq(Characters), Len(s) > 1, NEW c
  PROVE  s # <<c>>
<1>1. Len(<<c>>) = 1
  OBVIOUS
<1>2. Len(s) # 1
  <2>1. \A a : a > 1 => a # 1
    OBVIOUS
  <2> QED
    BY <2>1, Zenon
<1> QED
  BY <1>1, <1>2, Zenon

Inv(w) == TypeInv /\ AddInv /\ LinkInv /\ WordInv(w) /\ TreeTrie(w) /\ WalkInv(w)

\* insert splits node n: c is its lower half, and v are the words of the nodes.
Halving(w, v, n, c, extra) ==
  /\ n = cur.node /\ c = Len(tree) + 1 /\ extra \in SUBSET {c + 1}
  /\ DOMAIN tree' = DOMAIN tree \cup {c} \cup extra /\ Len(tree') # 1
  /\ 0 < Common /\ Common < Len(Node.prefix)
  /\ extra # {} => Common < Len(cur.search)
  /\ Halved(c, extra) /\ \A e \in extra : Sprouted(e)
  /\ v \in [DOMAIN tree' -> Seq(Characters)]
  /\ \A i \in DOMAIN tree \ {n} : v[i] = w[i]
  /\ v[c] = w[n] /\ \A e \in extra : v[e] = Now.path
  /\ Len(v[n]) = Reached(w) /\ Agree(v[n], w[n], Reached(w))

\* After a split the links of the tree agree.
LEMMA HalvedLinks ==
  ASSUME NEW w, TypeInv, LinkInv, WordInv(w), cur.node \in DOMAIN tree,
         NEW c, c = Len(tree) + 1, NEW extra \in SUBSET {c + 1},
         DOMAIN tree' = DOMAIN tree \cup {c} \cup extra,
         0 < Common, Common < Len(Node.prefix),
         Halved(c, extra), \A e \in extra : Sprouted(e)
  PROVE  LinkInv'
<1> DEFINE n == cur.node
<1>1. /\ tree \in Seq(Nodes) /\ Len(tree) \in Nat /\ Len(tree) >= 1 /\ DOMAIN tree = 1 .. Len(tree)
      /\ Node = tree[n] /\ n \in DOMAIN tree
  BY DEF TypeInv, Node
<1>2. /\ c \notin DOMAIN tree /\ c # Root /\ c \in DOMAIN tree' /\ c # NoNode
      /\ \A e \in extra : e \notin DOMAIN tree /\ e # c /\ e # Root /\ e # NoNode /\ e \in DOMAIN tree'
      /\ Root \in DOMAIN tree /\ \A i \in DOMAIN tree : i \in DOMAIN tree'
  BY <1>1 DEF Root, NoNode
<1>3. \A i \in DOMAIN tree : \A k \in Kids(tree[i]) :
        k \in DOMAIN tree /\ k # Root /\ tree[k].parent = i /\ k # i
  BY KidFacts
<1>4. /\ \A i \in DOMAIN tree \ {n} :
           /\ tree'[i].prefix = tree[i].prefix /\ tree'[i].isLeaf = tree[i].isLeaf
           /\ tree'[i].param = tree[i].param /\ tree'[i].any = tree[i].any
           /\ Kids(tree'[i]) = Kids(tree[i]) /\ IsLeafNode(tree'[i]) = IsLeafNode(tree[i])
           /\ tree'[i].parent = IF i \in Kids(tree[n]) THEN c ELSE tree[i].parent
  <2>1. ASSUME NEW i \in DOMAIN tree \ {n}
        PROVE  /\ SameBelow(tree[i], tree'[i])
               /\ tree'[i].parent = IF i \in Kids(tree[n]) THEN c ELSE tree[i].parent
    BY <1>1 DEF Halved
  <2>2. \A a, b : SameBelow(a, b) =>
          /\ b.prefix = a.prefix /\ b.isLeaf = a.isLeaf /\ b.param = a.param /\ b.any = a.any
          /\ Kids(b) = Kids(a) /\ IsLeafNode(b) = IsLeafNode(a)
    BY DEF SameBelow, Kids, IsLeafNode
  <2> QED
    BY <2>1, <2>2
<1>5. /\ tree'[n].parent = tree[n].parent /\ Kids(tree'[n]) = {c} \cup extra
      /\ tree'[n].param = NoNode /\ tree'[n].any = NoNode
      /\ tree'[n].isLeaf = FALSE /\ IsLeafNode(tree'[n]) = FALSE
  BY <1>1 DEF Halved, Kids, IsLeafNode
<1>6. /\ tree'[c].parent = n /\ Kids(tree'[c]) = Kids(tree[n])
      /\ tree'[c].param = tree[n].param /\ tree'[c].any = tree[n].any
      /\ tree'[c].isLeaf = IsLeafNode(tree'[c])
  BY <1>1 DEF Halved, Kids, IsLeafNode
<1>7. \A e \in extra : /\ tree'[e].parent = n /\ Kids(tree'[e]) = {}
                       /\ tree'[e].param = NoNode /\ tree'[e].any = NoNode
                       /\ tree'[e].isLeaf = IsLeafNode(tree'[e])
  BY DEF Sprouted, Kids, IsLeafNode
<1>8. /\ tree[Root].parent = NoNode
      /\ \A i \in DOMAIN tree :
           /\ tree[i].param # NoNode => tree[tree[i].param].prefix = <<":">>
           /\ tree[i].any # NoNode => tree[tree[i].any].prefix = <<"*">>
           /\ i # Root => /\ tree[i].parent \in DOMAIN tree
                          /\ i \in Kids(tree[tree[i].parent])
                          /\ tree[i].isLeaf = IsLeafNode(tree[i])
  BY DEF LinkInv
<1>9. tree[n].prefix # <<":">> /\ tree[n].prefix # <<"*">>
  <2>1. Len(tree[n].prefix) > 1 /\ tree[n].prefix \in Seq(Characters)
    <3>1. tree[n] \in Nodes
      BY <1>1
    <3>2. Node.prefix \in Seq(Characters)
      BY <1>1, <3>1 DEF Nodes
    <3>3. Common \in Nat
      <4>1. cur.search \in Seq(Characters)
        BY DEF TypeInv
      <4> QED
        BY <3>2, <4>1, LcpFacts DEF Common
    <3> QED
      BY <1>1, <3>2, <3>3
  <2> QED
    BY <2>1, LongFacts
<1>10. \A i \in DOMAIN tree : /\ tree[i].param # NoNode => tree[i].param \in Kids(tree[i])
                              /\ tree[i].any # NoNode => tree[i].any \in Kids(tree[i])
  BY DEF Kids
<1> HIDE DEF n
<1>11. tree'[Root].parent = NoNode
  BY <1>1, <1>2, <1>3, <1>4, <1>5, <1>8
<1>12. ASSUME NEW i \in DOMAIN tree'
       PROVE  /\ \A k \in Kids(tree'[i]) : k \in DOMAIN tree' /\ k # Root /\ tree'[k].parent = i
              /\ tree'[i].param # NoNode => tree'[tree'[i].param].prefix = <<":">>
              /\ tree'[i].any # NoNode => tree'[tree'[i].any].prefix = <<"*">>
              /\ i # Root =>
                   /\ tree'[i].parent \in DOMAIN tree'
                   /\ i \in Kids(tree'[tree'[i].parent])
                   /\ tree'[i].isLeaf = IsLeafNode(tree'[i])
  <2>1. CASE i \in DOMAIN tree \ {n}
    <3>1. ASSUME NEW k \in Kids(tree'[i])
          PROVE  k \in DOMAIN tree' /\ k # Root /\ tree'[k].parent = i
      <4>1. k \in Kids(tree[i]) /\ k \in DOMAIN tree /\ k # Root /\ tree[k].parent = i
        BY <1>3, <1>4, <2>1, <3>1
      <4>2. k \notin Kids(tree[n])
        BY <1>1, <1>3, <2>1, <4>1
      <4> QED
        BY <1>2, <1>4, <1>5, <4>1, <4>2
    <3>2. /\ tree'[i].param # NoNode => tree'[tree'[i].param].prefix = <<":">>
          /\ tree'[i].any # NoNode => tree'[tree'[i].any].prefix = <<"*">>
      BY <1>3, <1>4, <1>8, <1>9, <1>10, <2>1
    <3>3. ASSUME i # Root
          PROVE  /\ tree'[i].parent \in DOMAIN tree'
                 /\ i \in Kids(tree'[tree'[i].parent])
                 /\ tree'[i].isLeaf = IsLeafNode(tree'[i])
      <4>1. CASE i \in Kids(tree[n])
        BY <1>2, <1>4, <1>6, <1>8, <2>1, <3>3, <4>1
      <4>2. CASE i \notin Kids(tree[n])
        BY <1>2, <1>4, <1>8, <2>1, <3>3, <4>2
      <4> QED
        BY <4>1, <4>2
    <3> QED
      BY <3>1, <3>2, <3>3
  <2>2. CASE i = n
    <3>1. ASSUME n # Root
          PROVE  tree'[n].parent \in DOMAIN tree' /\ n \in Kids(tree'[tree'[n].parent])
      <4>1. tree[n].parent \in DOMAIN tree /\ n \in Kids(tree[tree[n].parent])
        BY <1>1, <1>8, <3>1
      <4>2. tree[n].parent # n
        BY <1>3, <4>1
      <4> QED
        BY <1>2, <1>4, <1>5, <4>1, <4>2
    <3> QED
      BY <1>2, <1>5, <1>6, <1>7, <2>2, <3>1
  <2>3. CASE i = c
    <3>1. ASSUME NEW k \in Kids(tree[n])
          PROVE  k \in DOMAIN tree' /\ k # Root /\ tree'[k].parent = c /\ k \in DOMAIN tree \ {n}
      BY <1>1, <1>2, <1>3, <1>4
    <3>2. /\ tree'[c].param # NoNode => tree'[tree'[c].param].prefix = <<":">>
          /\ tree'[c].any # NoNode => tree'[tree'[c].any].prefix = <<"*">>
      BY <1>1, <1>4, <1>6, <1>8, <1>10, <3>1
    <3>3. tree'[c].parent \in DOMAIN tree' /\ c \in Kids(tree'[tree'[c].parent])
      BY <1>1, <1>2, <1>5, <1>6
    <3> QED
      BY <1>6, <2>3, <3>1, <3>2, <3>3
  <2>4. CASE i \in extra
    BY <1>1, <1>2, <1>5, <1>7, <2>4
  <2> QED
    BY <1>1, <2>1, <2>2, <2>3, <2>4
<1> QED
  BY <1>11, <1>12 DEF LinkInv

\* After a split the words of the nodes are as they were; the upper half has the
\* part of the old word up to the split.
LEMMA HalvedWords ==
  ASSUME NEW w, Inv(w), pc = "insert",
         NEW v, NEW n, NEW c, NEW extra, Halving(w, v, n, c, extra)
  PROVE  /\ WordsOf(tree', v) /\ \A i \in DOMAIN tree : StartIn(tree', v, i) = Start(w, i)
         /\ StartIn(tree', v, c) = Reached(w) /\ \A e \in extra : StartIn(tree', v, e) = Reached(w)
         /\ \A i \in DOMAIN tree' : tree'[i].prefix # <<>>
<1>1. /\ n = cur.node /\ c = Len(tree) + 1 /\ extra \in SUBSET {c + 1}
      /\ DOMAIN tree' = DOMAIN tree \cup {c} \cup extra /\ Len(tree') # 1
      /\ 0 < Common /\ Common < Len(Node.prefix)
      /\ extra # {} => Common < Len(cur.search)
      /\ Halved(c, extra) /\ \A e \in extra : Sprouted(e)
  BY DEF Halving
<1>2. /\ v \in [DOMAIN tree' -> Seq(Characters)]
      /\ \A i \in DOMAIN tree \ {n} : v[i] = w[i]
      /\ v[c] = w[n] /\ \A e \in extra : v[e] = Now.path
      /\ Len(v[n]) = Reached(w) /\ Agree(v[n], w[n], Reached(w))
  BY DEF Halving
<1> USE <1>1, <1>2 DEF Inv
<1> DEFINE S == Start(w, n)
           m == Reached(w)
           x == Common
           p == Node.prefix
           s == cur.search
           P == Now.path
<1>3. /\ tree \in Seq(Nodes) /\ Len(tree) \in Nat /\ Len(tree) >= 1 /\ DOMAIN tree = 1 .. Len(tree)
  BY DEF TypeInv
<1>4. /\ c \notin DOMAIN tree /\ c # Root /\ c \in DOMAIN tree'
      /\ \A e \in extra : e \notin DOMAIN tree /\ e # c /\ e # Root /\ e \in DOMAIN tree'
      /\ Root \in DOMAIN tree /\ \A i \in DOMAIN tree : i \in DOMAIN tree'
  BY <1>3 DEF Root
<1>5. n \in DOMAIN tree /\ Node = tree[n] /\ Agree(w[n], P, m)
  BY InsertFacts
<1>6. w[n] \in Seq(Characters) /\ p \in Seq(Characters) /\ s \in Seq(Characters) /\ P \in Seq(Characters)
  BY InsertFacts
<1>7. /\ S \in Nat /\ x \in 0 .. Len(s) /\ x \in 0 .. Len(p) /\ 0 < x /\ x < Len(p)
      /\ extra # {} => x < Len(s)
      /\ m = S + x /\ m \in Nat
      /\ Len(w[n]) = S + Len(p) /\ Len(P) = S + Len(s) /\ Len(p) \in Nat /\ Len(s) \in Nat
  <2>1. /\ S \in Nat /\ x \in Nat /\ x <= Len(s) /\ x <= Len(p)
        /\ Len(w[n]) = S + Len(p) /\ Len(P) = S + Len(s)
    BY InsertFacts
  <2>2. m = S + x
    BY DEF Reached
  <2>3. Len(p) \in Nat /\ Len(s) \in Nat
    BY <1>6
  <2>4. 0 < x /\ x < Len(p) /\ (extra # {} => x < Len(s))
    OBVIOUS
  <2> HIDE DEF S, m, x, p, s, P
  <2>5. x \in 0 .. Len(s) /\ x \in 0 .. Len(p) /\ S + x \in Nat
    BY ONLY <2>1, <2>3
  <2> QED
    BY <2>1, <2>2, <2>3, <2>4, <2>5
<1>8. Len(v[n]) = m /\ Agree(v[n], w[n], m)
  OBVIOUS
<1>9. /\ \A k \in 1 .. Len(p) : p[k] = w[n][S + k]
      /\ \A k \in 1 .. Len(s) : s[k] = P[S + k]
  BY <1>5 DEF WordInv, WalkInv, WordsOf, Start
<1>10. /\ \A i \in DOMAIN tree \ {n} : /\ tree'[i].prefix = tree[i].prefix
                                       /\ tree'[i].parent = IF i \in Kids(Node) THEN c ELSE tree[i].parent
       /\ tree'[n].prefix = Take(p, x) /\ tree'[n].parent = tree[n].parent
       /\ tree'[c].prefix = Drop(p, x) /\ tree'[c].parent = n
       /\ \A e \in extra : tree'[e].prefix = Drop(s, x) /\ tree'[e].parent = n
  BY <1>5 DEF Halved, SameBelow, Sprouted
<1> HIDE DEF S, m, x, p, s, P
<1>11. \A i \in DOMAIN tree \ {n} : StartIn(tree', v, i) = Start(w, i)
  BY <1>10 DEF Start, StartIn
<1>12. /\ Len(tree'[n].prefix) = x /\ \A k \in 1 .. x : tree'[n].prefix[k] = p[k]
       /\ StartIn(tree', v, n) = S
  <2>1. Len(tree'[n].prefix) = x /\ \A k \in 1 .. x : tree'[n].prefix[k] = p[k]
    <3>1. Len(Take(p, x)) = x /\ \A k \in 1 .. x : Take(p, x)[k] = p[k]
      BY <1>6, <1>7, TakeFacts
    <3> QED
      BY <1>10, <3>1
  <2> QED
    BY <1>7, <1>8, <2>1 DEF Start, StartIn
<1>13. /\ Len(tree'[c].prefix) = Len(p) - x
       /\ \A k \in 1 .. Len(p) - x : tree'[c].prefix[k] = p[x + k]
       /\ StartIn(tree', v, c) = m
  <2>1. /\ Len(tree'[c].prefix) = Len(p) - x
        /\ \A k \in 1 .. Len(p) - x : tree'[c].prefix[k] = p[x + k]
    <3>1. Len(Drop(p, x)) = Len(p) - x /\ \A k \in 1 .. Len(p) - x : Drop(p, x)[k] = p[x + k]
      BY <1>6, <1>7, DropFacts
    <3> QED
      BY <1>10, <3>1
  <2>2. Len(w[n]) - (Len(p) - x) = m
    BY <1>7
  <2>3. Len(v[c]) - Len(tree'[c].prefix) = m
    BY <2>1, <2>2
  <2> QED
    BY <2>1, <2>3 DEF Start, StartIn
<1>14. ASSUME NEW e \in extra
       PROVE  /\ Len(tree'[e].prefix) = Len(s) - x
              /\ \A k \in 1 .. Len(s) - x : tree'[e].prefix[k] = s[x + k]
              /\ StartIn(tree', v, e) = m
  <2>1. /\ Len(tree'[e].prefix) = Len(s) - x
        /\ \A k \in 1 .. Len(s) - x : tree'[e].prefix[k] = s[x + k]
    <3>1. Len(Drop(s, x)) = Len(s) - x /\ \A k \in 1 .. Len(s) - x : Drop(s, x)[k] = s[x + k]
      BY <1>6, <1>7, DropFacts
    <3> QED
      BY <1>10, <3>1
  <2>2. Len(P) - (Len(s) - x) = m
    BY <1>7
  <2>3. Len(v[e]) - Len(tree'[e].prefix) = m
    BY <2>1, <2>2 DEF P
  <2> QED
    BY <2>1, <2>3 DEF Start, StartIn
<1>15. StartIn(tree', v, Root) = 0
  BY <1>4, <1>11, <1>12 DEF WordInv, S, WordsOf, Start
<1>16. v[Root] # <<>> => v[Root][1] = "/"
  <2>1. w[Root] # <<>> => w[Root][1] = "/"
    BY DEF WordInv, WordsOf, Start
  <2>2. CASE Root # n
    BY <1>4, <2>1, <2>2
  <2>3. CASE Root = n
    <3>1. 1 \in 1 .. m /\ m \in Int /\ Len(w[n]) > 0
      BY <1>7
    <3>2. v[n][1] = w[n][1]
      BY <1>8, <3>1, AgreeAt
    <3>3. w[n] # <<>>
      BY <1>6, <3>1
    <3> QED
      BY <2>1, <2>3, <3>2, <3>3
  <2> QED
    BY <2>2, <2>3
<1>17. \A i \in DOMAIN tree' : tree'[i].prefix # <<>>
  <2> SUFFICES ASSUME NEW i \in DOMAIN tree', tree'[i].prefix = <<>> PROVE FALSE
    OBVIOUS
  <2>1. CASE i \in DOMAIN tree \ {n}
    <3>1. Len(tree) = 1
      BY <1>10, <2>1 DEF WordInv, WordsOf, Start
    <3> QED
      BY <1>3, <1>5, <2>1, <3>1
  <2>2. CASE i # n /\ i # c /\ i \notin extra
    BY <2>1, <2>2
  <2>3. Len(tree'[i].prefix) = 0
    OBVIOUS
  <2>4. CASE i = n
    BY <1>7, <1>12, <2>3, <2>4
  <2>5. CASE i = c
    BY <1>7, <1>13, <2>3, <2>5
  <2>6. CASE i \in extra
    BY <1>7, <1>14, <2>3, <2>6
  <2> QED
    BY <2>2, <2>4, <2>5, <2>6
<1>18. ASSUME NEW i \in DOMAIN tree'
       PROVE  /\ StartIn(tree', v, i) >= 0
              /\ \A k \in 1 .. Len(tree'[i].prefix) : tree'[i].prefix[k] = v[i][StartIn(tree', v, i) + k]
  <2>1. CASE i \in DOMAIN tree \ {n}
    <3>1. /\ Start(w, i) >= 0
          /\ \A k \in 1 .. Len(tree[i].prefix) : tree[i].prefix[k] = w[i][Start(w, i) + k]
      BY <2>1 DEF WordInv, WordsOf, Start
    <3>2. StartIn(tree', v, i) = Start(w, i) /\ v[i] = w[i] /\ tree'[i].prefix = tree[i].prefix
      BY <1>10, <1>11, <2>1
    <3> QED
      BY <3>1, <3>2
  <2>2. CASE i = n
    <3>1. ASSUME NEW k \in 1 .. x PROVE tree'[n].prefix[k] = v[n][S + k]
      <4>1. S + k \in 1 .. m /\ m \in Int /\ k \in 1 .. Len(p)
        BY <1>7
      <4>2. v[n][S + k] = w[n][S + k]
        BY <1>8, <4>1, AgreeAt
      <4> QED
        BY <1>9, <1>12, <4>1, <4>2
    <3>2. Len(tree'[n].prefix) = x /\ StartIn(tree', v, n) = S /\ S >= 0
      BY <1>7, <1>12
    <3> QED
      BY <2>2, <3>1, <3>2
  <2>3. CASE i = c
    <3>1. ASSUME NEW k \in 1 .. Len(p) - x PROVE tree'[c].prefix[k] = v[c][m + k]
      <4>1. x + k \in 1 .. Len(p) /\ S + (x + k) = m + k
        BY <1>7
      <4>2. p[x + k] = w[n][m + k]
        BY <1>9, <4>1
      <4> QED
        BY <1>13, <4>2
    <3>2. Len(tree'[c].prefix) = Len(p) - x /\ StartIn(tree', v, c) = m /\ m >= 0
      BY <1>7, <1>13
    <3> QED
      BY <2>3, <3>1, <3>2
  <2>4. CASE i \in extra
    <3>1. ASSUME NEW k \in 1 .. Len(s) - x PROVE tree'[i].prefix[k] = v[i][m + k]
      <4>1. x + k \in 1 .. Len(s) /\ S + (x + k) = m + k
        BY <1>7
      <4>2. s[x + k] = P[m + k]
        BY <1>9, <4>1
      <4> QED
        BY <1>14, <2>4, <4>2 DEF P
    <3>2. Len(tree'[i].prefix) = Len(s) - x /\ StartIn(tree', v, i) = m /\ m >= 0
      BY <1>7, <1>14, <2>4
    <3> QED
      BY <2>4, <3>1, <3>2
  <2> QED
    BY <2>1, <2>2, <2>3, <2>4
<1>19. ASSUME NEW i \in DOMAIN tree', i # Root
       PROVE  /\ StartIn(tree', v, i) = Len(v[tree'[i].parent])
              /\ Agree(v[tree'[i].parent], v[i], StartIn(tree', v, i))
  <2>1. CASE i \in DOMAIN tree \ {n}
    <3>1. /\ Start(w, i) = Len(w[tree[i].parent]) /\ Agree(w[tree[i].parent], w[i], Start(w, i))
      BY <1>19, <2>1 DEF WordInv, WordsOf, Start
    <3>2. /\ tree[i].parent \in DOMAIN tree /\ i \in Kids(tree[tree[i].parent])
      BY <1>19, <2>1 DEF LinkInv
    <3>3. v[i] = w[i] /\ StartIn(tree', v, i) = Start(w, i)
      BY <1>11, <2>1
    <3>4. CASE i \in Kids(Node)
      <4>1. tree[i].parent = n
        BY <1>5, <3>4, KidFacts
      <4>2. tree'[i].parent = c
        BY <1>10, <2>1, <3>4
      <4> QED
        BY <3>1, <3>3, <4>1, <4>2
    <3>5. CASE i \notin Kids(Node)
      <4>1. tree'[i].parent = tree[i].parent
        BY <1>10, <2>1, <3>5
      <4>2. tree[i].parent # n
        BY <1>5, <3>2, <3>5
      <4>3. v[tree[i].parent] = w[tree[i].parent]
        BY <3>2, <4>2
      <4> QED
        BY <3>1, <3>3, <4>1, <4>3
    <3> QED
      BY <3>4, <3>5
  <2>2. CASE i = n
    <3>1. /\ S = Len(w[tree[n].parent]) /\ Agree(w[tree[n].parent], w[n], S)
      BY <1>5, <1>19, <2>2 DEF WordInv, S, WordsOf, Start
    <3>2. /\ tree[n].parent \in DOMAIN tree /\ n \in Kids(tree[tree[n].parent])
      BY <1>5, <1>19, <2>2 DEF LinkInv
    <3>3. tree[n].parent # n
      BY <3>2, KidFacts
    <3>4. tree'[n].parent = tree[n].parent /\ v[tree[n].parent] = w[tree[n].parent]
      BY <1>10, <3>2, <3>3
    <3>5. Agree(v[n], w[n], S)
      BY <1>7, <1>8, AgreeLess
    <3>6. Agree(w[n], v[n], S)
      BY <3>5, AgreeSym
    <3>7. Agree(w[tree[n].parent], v[n], S)
      BY <3>1, <3>6, AgreeTrans
    <3> QED
      BY <1>12, <2>2, <3>1, <3>4, <3>7
  <2>3. CASE i = c
    BY <1>8, <1>10, <1>13, <2>3
  <2>4. CASE i \in extra
    <3>1. Agree(v[n], P, m)
      BY <1>5, <1>8, AgreeTrans
    <3> QED
      BY <1>8, <1>10, <1>14, <2>4, <3>1 DEF P
  <2> QED
    BY <2>1, <2>2, <2>3, <2>4
<1>20. WordsOf(tree', v)
  BY <1>15, <1>16, <1>17, <1>18, <1>19 DEF WordInv, WordsOf, Start
<1>21. \A i \in DOMAIN tree : StartIn(tree', v, i) = Start(w, i)
  BY <1>11, <1>12 DEF S
<1> QED
  BY <1>13, <1>14, <1>17, <1>20, <1>21 DEF m

\* The first character of a child's part is the one after its parent's word.
LEMMA LabelFacts ==
  ASSUME NEW w, TypeInv, WordInv(w), NEW i \in DOMAIN tree, tree[i].prefix # <<>>
  PROVE  tree[i].prefix[1] = w[i][Start(w, i) + 1] /\ Start(w, i) \in Nat /\ Start(w, i) < Len(w[i])
<1>1. tree[i] \in Nodes /\ w[i] \in Seq(Characters)
  BY DEF TypeInv, WordInv, WordsOf, Start
<1>2. tree[i].prefix \in Seq(Characters)
  BY <1>1 DEF Nodes
<1> DEFINE p == tree[i].prefix
           S == Start(w, i)
<1>3. /\ \A k \in 1 .. Len(p) : p[k] = w[i][S + k]
      /\ S >= 0 /\ S = Len(w[i]) - Len(p)
  BY DEF WordInv, Start, StartIn, WordsOf
<1>4. p # <<>> /\ p \in Seq(Characters) /\ Len(w[i]) \in Nat
  BY <1>1, <1>2
<1> HIDE DEF p, S
<1>5. Len(p) \in Nat /\ Len(p) >= 1
  BY <1>4
<1>6. 1 \in 1 .. Len(p) /\ S \in Nat /\ S < Len(w[i])
  BY <1>3, <1>4, <1>5
<1> QED
  BY <1>3, <1>6 DEF p, S

\* Nodes with the same first characters go on with the same ones.
LEMMA SameLabels ==
  ASSUME NEW S, NEW f, NEW g, \A k \in S : f[k].prefix[1] = g[k].prefix[1]
  PROVE  {f[k].prefix[1] : k \in S} = {g[k].prefix[1] : k \in S}
OBVIOUS

\* The characters that go on from a node are the same after a split, but for the
\* upper half.
LEMMA HalvedLabels ==
  ASSUME NEW w, Inv(w), pc = "insert", TypeInv',
         NEW v, NEW n, NEW c, NEW extra, Halving(w, v, n, c, extra)
  PROVE  /\ \A i \in DOMAIN tree \ {n} : LabelsIn(tree', i) = Labels(i)
         /\ LabelsIn(tree', c) = Labels(n)
         /\ w[n][Reached(w) + 1] \in LabelsIn(tree', n)
         /\ \A e \in extra : Now.path[Reached(w) + 1] \in LabelsIn(tree', n)
<1>1. /\ n = cur.node /\ c = Len(tree) + 1 /\ extra \in SUBSET {c + 1}
      /\ DOMAIN tree' = DOMAIN tree \cup {c} \cup extra /\ Len(tree') # 1
      /\ 0 < Common /\ Common < Len(Node.prefix)
      /\ extra # {} => Common < Len(cur.search)
      /\ Halved(c, extra) /\ \A e \in extra : Sprouted(e)
  BY DEF Halving
<1>2. /\ v \in [DOMAIN tree' -> Seq(Characters)]
      /\ \A i \in DOMAIN tree \ {n} : v[i] = w[i]
      /\ v[c] = w[n] /\ \A e \in extra : v[e] = Now.path
      /\ Len(v[n]) = Reached(w) /\ Agree(v[n], w[n], Reached(w))
  BY DEF Halving
<1> USE <1>1, <1>2 DEF Inv
<1>3. /\ WordsOf(tree', v) /\ \A i \in DOMAIN tree : StartIn(tree', v, i) = Start(w, i)
      /\ StartIn(tree', v, c) = Reached(w) /\ \A e \in extra : StartIn(tree', v, e) = Reached(w)
      /\ \A i \in DOMAIN tree' : tree'[i].prefix # <<>>
  BY HalvedWords
<1>4. n \in DOMAIN tree /\ tree[n].prefix # <<>> /\ Node = tree[n]
  <2>1. n \in DOMAIN tree /\ Node = tree[n] /\ Node.prefix \in Seq(Characters) /\ Common \in Nat
    BY InsertFacts
  <2>2. Node.prefix # <<>>
    BY <2>1
  <2> QED
    BY <2>1, <2>2
<1>5. Reached(w) \in Nat /\ Reached(w) > Start(w, n)
  <2>1. Common \in Nat /\ Start(w, n) \in Nat
    BY InsertFacts
  <2> QED
    BY <2>1 DEF Reached
<1> USE <1>3, <1>4, <1>5
<1>6. Node = tree[n] /\ c \notin DOMAIN tree /\ c \in DOMAIN tree'
  BY DEF Node, TypeInv
<1>7. /\ \A i \in DOMAIN tree \ {n} : Kids(tree'[i]) = Kids(tree[i]) /\ tree'[i].prefix = tree[i].prefix
      /\ Kids(tree'[n]) = {c} \cup extra /\ Kids(tree'[c]) = Kids(tree[n])
  <2>1. c # NoNode /\ \A e \in extra : e # NoNode
    BY DEF NoNode, TypeInv
  <2> QED
    BY <1>6, <2>1 DEF Halved, SameBelow, Kids
<1>8. \A i \in DOMAIN tree : \A k \in Kids(tree[i]) : k \in DOMAIN tree /\ k # i
  BY KidFacts
<1>9. \A i \in DOMAIN tree' : tree'[i].prefix[1] = v[i][StartIn(tree', v, i) + 1]
  <2> SUFFICES ASSUME NEW i \in DOMAIN tree' PROVE tree'[i].prefix[1] = v[i][StartIn(tree', v, i) + 1]
    OBVIOUS
  <2>1. tree' \in Seq(Nodes)
    BY DEF TypeInv
  <2>2. tree'[i] \in Nodes
    BY <2>1, MemberFacts
  <2>3. tree'[i].prefix \in Seq(Characters) /\ tree'[i].prefix # <<>>
    BY <2>2 DEF Nodes
  <2>4. 1 \in 1 .. Len(tree'[i].prefix)
    BY <2>3
  <2> QED
    BY <2>4 DEF WordInv, WordsOf, Start
<1>10. tree'[n].prefix[1] = tree[n].prefix[1]
  <2>1. tree[n].prefix[1] = w[n][Start(w, n) + 1] /\ Start(w, n) \in Nat
    BY LabelFacts
  <2> DEFINE k == Start(w, n) + 1
             m == Reached(w)
  <2>2. k \in 1 .. m /\ m \in Int /\ Agree(v[n], w[n], m)
    BY <2>1
  <2> HIDE DEF k, m
  <2>3. v[n][k] = w[n][k]
    BY <2>2 DEF Agree
  <2> QED
    BY <1>9, <2>1, <2>3 DEF k
<1>11. \A k \in DOMAIN tree : tree'[k].prefix[1] = tree[k].prefix[1]
  BY <1>7, <1>10
<1>12. ASSUME NEW i \in DOMAIN tree \ {n} PROVE LabelsIn(tree', i) = Labels(i)
  <2>1. LabelsIn(tree', i) = {tree'[k].prefix[1] : k \in Kids(tree[i])}
    BY <1>7 DEF Labels, LabelsIn
  <2>2. Labels(i) = {tree[k].prefix[1] : k \in Kids(tree[i])}
    BY DEF Labels, LabelsIn
  <2>3. \A k \in Kids(tree[i]) : tree'[k].prefix[1] = tree[k].prefix[1]
    BY <1>8, <1>11
  <2>4. {tree'[k].prefix[1] : k \in Kids(tree[i])} = {tree[k].prefix[1] : k \in Kids(tree[i])}
    BY ONLY <2>3, SameLabels
  <2> QED
    BY ONLY <2>1, <2>2, <2>4
<1>13. LabelsIn(tree', c) = Labels(n)
  <2>1. LabelsIn(tree', c) = {tree'[k].prefix[1] : k \in Kids(tree[n])}
    BY <1>7 DEF Labels, LabelsIn
  <2>2. Labels(n) = {tree[k].prefix[1] : k \in Kids(tree[n])}
    BY DEF Labels, LabelsIn
  <2>3. \A k \in Kids(tree[n]) : tree'[k].prefix[1] = tree[k].prefix[1]
    BY <1>8, <1>11
  <2>4. {tree'[k].prefix[1] : k \in Kids(tree[n])} = {tree[k].prefix[1] : k \in Kids(tree[n])}
    BY ONLY <2>3, SameLabels
  <2> QED
    BY ONLY <2>1, <2>2, <2>4
<1>14. LabelsIn(tree', n) = {tree'[k].prefix[1] : k \in {c} \cup extra}
  BY <1>7 DEF Labels, LabelsIn
<1>15. tree'[c].prefix[1] = w[n][Reached(w) + 1] /\ \A e \in extra : tree'[e].prefix[1] = Now.path[Reached(w) + 1]
  BY <1>6, <1>9
<1> QED
  BY <1>12, <1>13, <1>14, <1>15

-----------------------------------------------------------------------------
(* The branches of insert keep the trie *)

SplitWords(w) ==
  [i \in 1 .. Len(tree) + 1 |->
     IF i = Len(tree) + 1 THEN w[cur.node] ELSE IF i = cur.node THEN Now.path ELSE w[i]]

ForkWords(w) ==
  [i \in 1 .. Len(tree) + 2 |->
     IF i = Len(tree) + 2 THEN Now.path ELSE
     IF i = Len(tree) + 1 THEN w[cur.node] ELSE
     IF i = cur.node THEN Take(w[cur.node], Reached(w)) ELSE w[i]]

ChildWords(w) ==
  [i \in 1 .. Len(tree) + 1 |-> IF i = Len(tree) + 1 THEN Now.path ELSE w[i]]

RootWords == [i \in {Root} |-> Now.path]

\* A node's part starts where its parent's word ends.
LEMMA StartFacts ==
  ASSUME NEW w, TypeInv, WordInv(w), NEW i \in DOMAIN tree
  PROVE  /\ Start(w, i) \in Nat /\ Len(w[i]) \in Nat /\ Start(w, i) <= Len(w[i])
         /\ w[i] \in Seq(Characters)
<1>1. tree[i] \in Nodes /\ w[i] \in Seq(Characters) /\ Start(w, i) >= 0
  BY DEF TypeInv, WordInv, WordsOf, Start
<1>2. tree[i].prefix \in Seq(Characters)
  BY <1>1 DEF Nodes
<1> DEFINE a == Len(w[i])
           b == Len(tree[i].prefix)
           d == Start(w, i)
<1>3. a \in Nat /\ b \in Nat /\ d = a - b /\ d >= 0
  BY <1>1, <1>2 DEF Start, StartIn
<1> HIDE DEF a, b, d
<1>4. d \in Nat /\ d <= a
  BY <1>3
<1> QED
  BY <1>1, <1>3, <1>4 DEF a, d

\* A node that is split where the path ends.
LEMMA SplitStep ==
  ASSUME NEW w, Inv(w), InsertSplit, NEW v, v = SplitWords(w)
  PROVE  /\ TypeInv' /\ AddInv' /\ LinkInv' /\ WordsOf(tree', v) /\ TrieOf(tree', v)
         /\ v[cur.node] = Now.path /\ Halving(w, v, cur.node, Len(tree) + 1, {})
<1> USE DEF Inv
<1>1. PICK n : n = cur.node
  OBVIOUS
<1>2. PICK c : c = Len(tree) + 1
  OBVIOUS
<1>3. PICK extra : extra = {}
  OBVIOUS
<1> DEFINE m == Reached(w)
           P == Now.path
<1>4. /\ Returns(tree') /\ tree' \in Seq(Nodes) /\ Len(tree') = Len(tree) + 1 /\ Halved(c, extra)
  BY <1>2, <1>3, SplitShape
<1>5. pc = "insert" /\ 0 < Common /\ Common < Len(Node.prefix) /\ Common = Len(cur.search)
  BY DEF InsertSplit, Inserting
<1>6. /\ n \in DOMAIN tree /\ Node = tree[n] /\ w[n] \in Seq(Characters) /\ P \in Seq(Characters)
      /\ Agree(w[n], P, m) /\ Node.prefix \in Seq(Characters)
  BY <1>1, <1>5, InsertFacts
<1>7. /\ m \in Nat /\ m = Len(P) /\ Start(w, n) < m /\ m < Len(w[n])
  BY <1>1, <1>5, InsertFacts DEF Reached
<1>8. tree \in Seq(Nodes) /\ Len(tree) \in Nat /\ DOMAIN tree = 1 .. Len(tree) /\ Len(tree) >= 1
  BY DEF TypeInv
<1>9. DOMAIN tree' = DOMAIN tree \cup {c} \cup extra /\ c \notin DOMAIN tree /\ Len(tree') # 1 /\ tree' # <<>>
  BY <1>2, <1>4, <1>8, <1>3
<1>10. TypeInv' /\ AddInv'
  BY <1>4, <1>5, <1>9, ReturnsStep
<1>11. /\ v \in [DOMAIN tree' -> Seq(Characters)] /\ v[n] = P /\ v[c] = w[n]
       /\ \A i \in DOMAIN tree \ {n} : v[i] = w[i]
  <2>1. w \in [DOMAIN tree -> Seq(Characters)]
    BY DEF WordInv, WordsOf
  <2> QED
    BY <1>1, <1>2, <1>3, <1>6, <1>8, <1>9, <2>1 DEF SplitWords
<1>12. Agree(v[n], w[n], m) /\ Len(v[n]) = m
  BY <1>6, <1>7, <1>11, AgreeSym
<1>13. Halving(w, v, n, c, extra)
  BY <1>1, <1>2, <1>3, <1>4, <1>5, <1>9, <1>11, <1>12 DEF Halving
<1>14. LinkInv'
  BY <1>1, <1>2, <1>3, <1>4, <1>5, <1>6, <1>9, HalvedLinks
<1>15. /\ WordsOf(tree', v) /\ StartIn(tree', v, c) = m
       /\ \A i \in DOMAIN tree : StartIn(tree', v, i) = Start(w, i)
  BY <1>5, <1>13, HalvedWords
<1>16. /\ \A i \in DOMAIN tree \ {n} : LabelsIn(tree', i) = Labels(i)
       /\ LabelsIn(tree', c) = Labels(n) /\ w[n][m + 1] \in LabelsIn(tree', n)
  BY <1>5, <1>10, <1>13, HalvedLabels
<1>17. TrieOf(tree', v)
  <2> DEFINE D == DOMAIN tree
             st == [i \in DOMAIN tree |-> StartIn(tree, w, i)]
             L == [i \in DOMAIN tree |-> LabelsIn(tree, i)]
             st2 == [i \in DOMAIN tree' |-> StartIn(tree', v, i)]
             L2 == [i \in DOMAIN tree' |-> LabelsIn(tree', i)]
  <2>1. Trie(D, w, st, L)
    BY DEF TreeTrie, TrieOf
  <2>2. w \in [D -> Seq(Characters)] /\ st \in [D -> Nat]
    BY StartFacts DEF WordInv, WordsOf, Start
  <2>3. n \in D /\ c \notin D /\ st[n] < m
    BY <1>6, <1>7, <1>9 DEF Start
  <2>4. /\ \A i \in D : i # n => v[i] = w[i] /\ L2[i] = L[i]
        /\ \A i \in D : st2[i] = st[i]
        /\ v[c] = w[n] /\ st2[c] = m /\ L2[c] = L[n] /\ w[n][m + 1] \in L2[n]
    BY <1>6, <1>9, <1>11, <1>15, <1>16 DEF Start, Labels
  <2> HIDE DEF D, st, L, st2, L2, m
  <2>5. Splits(D, w, st, L, n, c, m, v, st2, L2)
    BY <1>7, <1>12, <2>1, <2>2, <2>3, <2>4 DEF Splits
  <2>6. Trie(D \cup {c}, v, st2, L2)
    BY <2>5, TrieSplit
  <2> QED
    BY <1>9, <1>3, <2>6 DEF TrieOf, D, st2, L2
<1> QED
  BY <1>1, <1>2, <1>3, <1>10, <1>11, <1>13, <1>14, <1>15, <1>17

\* The same for a tree and its words.
LEMMA StartInFacts ==
  ASSUME NEW t \in Seq(Nodes), NEW w, WordsOf(t, w), NEW i \in DOMAIN t
  PROVE  /\ StartIn(t, w, i) \in Nat /\ Len(w[i]) \in Nat /\ StartIn(t, w, i) <= Len(w[i])
         /\ w[i] \in Seq(Characters)
<1>1. t[i] \in Nodes /\ w[i] \in Seq(Characters) /\ StartIn(t, w, i) >= 0
  BY DEF WordsOf
<1>2. t[i].prefix \in Seq(Characters)
  BY <1>1 DEF Nodes
<1> DEFINE a == Len(w[i])
           b == Len(t[i].prefix)
           d == StartIn(t, w, i)
<1>3. a \in Nat /\ b \in Nat /\ d = a - b /\ d >= 0
  BY <1>1, <1>2 DEF StartIn
<1> HIDE DEF a, b, d
<1>4. d \in Nat /\ d <= a
  BY <1>3
<1> QED
  BY <1>1, <1>3, <1>4 DEF a, d

\* A node that is split where the path leaves it: the upper half gets a second
\* child for the rest of the path.
LEMMA ForkStep ==
  ASSUME NEW w, Inv(w), InsertFork, NEW v, v = ForkWords(w)
  PROVE  /\ TypeInv' /\ AddInv' /\ LinkInv' /\ WordsOf(tree', v) /\ TrieOf(tree', v)
         /\ Len(tree) + 2 \in DOMAIN tree' /\ v[Len(tree) + 2] = Now.path
         /\ Halving(w, v, cur.node, Len(tree) + 1, {Len(tree) + 2})
<1> USE DEF Inv
<1>1. PICK n : n = cur.node
  OBVIOUS
<1>2. PICK c : c = Len(tree) + 1
  OBVIOUS
<1>3. PICK e : e = Len(tree) + 2
  OBVIOUS
<1>4. PICK extra : extra = {e}
  OBVIOUS
<1> DEFINE m == Reached(w)
           P == Now.path
<1>5. /\ Returns(tree') /\ tree' \in Seq(Nodes) /\ Len(tree') = Len(tree) + 2 /\ Halved(c, extra)
      /\ Sprouted(e)
  BY <1>2, <1>3, <1>4, ForkShape
<1>6. pc = "insert" /\ 0 < Common /\ Common < Len(Node.prefix) /\ Common < Len(cur.search)
  BY DEF InsertFork, Inserting
<1>7. /\ n \in DOMAIN tree /\ Node = tree[n] /\ w[n] \in Seq(Characters) /\ P \in Seq(Characters)
      /\ Agree(w[n], P, m) /\ Node.prefix \in Seq(Characters) /\ w[n][m + 1] # P[m + 1]
  BY <1>1, <1>6, InsertFacts
<1>8. /\ m \in Nat /\ m < Len(P) /\ Start(w, n) < m /\ m < Len(w[n])
  BY <1>1, <1>6, InsertFacts DEF Reached
<1>9. tree \in Seq(Nodes) /\ Len(tree) \in Nat /\ DOMAIN tree = 1 .. Len(tree) /\ Len(tree) >= 1
  BY DEF TypeInv
<1>10. /\ DOMAIN tree' = DOMAIN tree \cup {c} \cup extra /\ c \notin DOMAIN tree /\ Len(tree') # 1
       /\ tree' # <<>> /\ e \notin DOMAIN tree \cup {c} /\ e \in DOMAIN tree' /\ extra \in SUBSET {c + 1}
  BY <1>2, <1>3, <1>5, <1>9, <1>4
<1>11. TypeInv' /\ AddInv'
  BY <1>5, <1>6, <1>10, ReturnsStep
<1>12. Take(w[n], m) \in Seq(Characters) /\ Len(Take(w[n], m)) = m /\ Agree(Take(w[n], m), w[n], m)
  <2>1. m \in 0 .. Len(w[n])
    BY <1>7, <1>8
  <2> HIDE DEF m
  <2> QED
    BY <1>7, <2>1, TakeFacts DEF Agree
<1>13. /\ v \in [DOMAIN tree' -> Seq(Characters)] /\ v[n] = Take(w[n], m) /\ v[c] = w[n] /\ v[e] = P
       /\ \A i \in DOMAIN tree \ {n} : v[i] = w[i]
  <2>1. w \in [DOMAIN tree -> Seq(Characters)]
    BY DEF WordInv, WordsOf
  <2>2. v = [i \in 1 .. Len(tree) + 2 |->
               IF i = e THEN P ELSE IF i = c THEN w[n] ELSE IF i = n THEN Take(w[n], m) ELSE w[i]]
    BY <1>1, <1>2, <1>3 DEF ForkWords
  <2>3. DOMAIN tree' = 1 .. Len(tree) + 2 /\ n # c /\ n # e /\ c # e /\ c \in DOMAIN tree' /\ n \in DOMAIN tree'
    <3>1. DOMAIN tree' = 1 .. Len(tree) + 2
      BY ONLY <1>5
    <3> QED
      BY ONLY <1>7, <1>10, <3>1
  <2>4. \A i \in DOMAIN tree' : i # e /\ i # c => i \in DOMAIN tree
    BY <1>10, <1>4
  <2>5. \A i \in DOMAIN tree : i # e /\ i # c /\ i \in DOMAIN tree'
    BY <1>10
  <2>6. w[n] \in Seq(Characters) /\ P \in Seq(Characters) /\ Take(w[n], m) \in Seq(Characters)
    BY <1>7, <1>12
  <2> HIDE DEF m, P
  <2> QED
    BY <1>10, <2>1, <2>2, <2>3, <2>4, <2>5, <2>6
<1>14. Agree(v[n], w[n], m) /\ Len(v[n]) = m
  BY <1>13, <1>12
<1>15. Halving(w, v, n, c, extra)
  BY <1>1, <1>2, <1>4, <1>5, <1>6, <1>10, <1>13, <1>14 DEF Halving
<1>16. LinkInv'
  BY <1>1, <1>2, <1>4, <1>5, <1>6, <1>7, <1>10, HalvedLinks
<1>17. /\ WordsOf(tree', v) /\ StartIn(tree', v, c) = m /\ StartIn(tree', v, e) = m
       /\ \A i \in DOMAIN tree : StartIn(tree', v, i) = Start(w, i)
  BY <1>6, <1>15, <1>4, HalvedWords
<1>18. /\ \A i \in DOMAIN tree \ {n} : LabelsIn(tree', i) = Labels(i)
       /\ LabelsIn(tree', c) = Labels(n) /\ w[n][m + 1] \in LabelsIn(tree', n)
       /\ P[m + 1] \in LabelsIn(tree', n)
  BY <1>6, <1>11, <1>15, <1>4, HalvedLabels
<1>19. TrieOf(tree', v)
  <2> DEFINE D == DOMAIN tree
             D1 == D \cup {c}
             st == [i \in DOMAIN tree |-> StartIn(tree, w, i)]
             L == [i \in DOMAIN tree |-> LabelsIn(tree, i)]
             st2 == [i \in DOMAIN tree' |-> StartIn(tree', v, i)]
             L2 == [i \in DOMAIN tree' |-> LabelsIn(tree', i)]
             v1 == [i \in D1 |-> v[i]]
             st1 == [i \in D1 |-> st2[i]]
             L1 == [i \in D1 |-> IF i = n THEN {w[n][m + 1]} ELSE L2[i]]
  <2>1. Trie(D, w, st, L)
    BY DEF TreeTrie, TrieOf
  <2>2. w \in [D -> Seq(Characters)] /\ st \in [D -> Nat]
    BY StartFacts DEF WordInv, WordsOf, Start
  <2>3. n \in D /\ c \notin D /\ st[n] < m
    BY <1>7, <1>8, <1>10 DEF Start
  <2>4. /\ \A i \in D : i # n => v[i] = w[i] /\ L2[i] = L[i]
        /\ \A i \in D : st2[i] = st[i]
        /\ v[c] = w[n] /\ st2[c] = m /\ L2[c] = L[n] /\ w[n][m + 1] \in L2[n] /\ P[m + 1] \in L2[n]
    BY <1>7, <1>10, <1>13, <1>17, <1>18 DEF Start, Labels
  <2>5. \A i \in D1 : i \in DOMAIN tree'
    BY <1>10
  <2>6. \A i \in D1 : st2[i] \in Nat /\ st2[i] <= Len(v[i]) /\ v[i] \in Seq(Characters)
    BY <1>5, <1>17, <2>5, StartInFacts
  <2>7. st2[e] = m
    BY <1>10, <1>17
  <2> HIDE DEF D, st, L, st2, L2, m, P
  <2>8. /\ \A i \in D : i # n => v1[i] = w[i] /\ L1[i] = L[i]
        /\ \A i \in D : st1[i] = st[i]
        /\ v1[c] = w[n] /\ st1[c] = m /\ L1[c] = L[n] /\ L1[n] = {w[n][m + 1]} /\ v1[n] = v[n]
    BY <2>3, <2>4
  <2>9. Splits(D, w, st, L, n, c, m, v1, st1, L1)
    <3> HIDE DEF v1, st1, L1
    <3> QED
      BY <1>8, <1>14, <2>1, <2>2, <2>3, <2>8 DEF Splits
  <2>10. Trie(D1, v1, st1, L1)
    <3> HIDE DEF v1, st1, L1
    <3> QED
      BY <2>9, TrieSplit
  <2>11. /\ v1 \in [D1 -> Seq(Characters)] /\ st1 \in [D1 -> Nat]
         /\ \A i \in D1 : st1[i] <= Len(v1[i])
         /\ n \in D1
         /\ \A i \in D1 : v[i] = v1[i] /\ st2[i] = st1[i] /\ L1[i] \subseteq L2[i]
    BY <2>3, <2>4, <2>6
  <2>12. Agree(v1[n], P, m) /\ Len(v1[n]) = m /\ P[m + 1] \notin L1[n]
    <3>1. Agree(v[n], P, m)
      BY <1>7, <1>14, AgreeTrans DEF m, P
    <3> QED
      BY <1>7, <1>14, <2>8, <3>1 DEF m, P
  <2>13. e \notin D1 /\ P \in Seq(Characters) /\ m < Len(P) /\ v[e] = P
    BY <1>7, <1>8, <1>10, <1>13 DEF D, m, P
  <2> HIDE DEF v1, st1, L1, D1
  <2>14. Grows(D1, v1, st1, L1, n, e, P, v, st2, L2)
    BY <2>4, <2>10, <2>11, <2>12, <2>13, <2>7 DEF Grows
  <2>15. Trie(D1 \cup {e}, v, st2, L2)
    BY <2>14, TrieGrow
  <2> QED
    BY <1>10, <1>4, <2>15 DEF TrieOf, D1, D, st2, L2
<1> QED
  BY <1>1, <1>2, <1>3, <1>4, <1>10, <1>11, <1>13, <1>15, <1>16, <1>17, <1>19

\* findChildWithLabel finds a child with the character if there is one.
LEMMA DeeperFacts ==
  ASSUME NEW w, Inv(w), Below, Common > 0
  PROVE  /\ Reached(w) = Len(w[cur.node]) /\ Reached(w) \in Nat /\ Reached(w) < Len(Now.path)
         /\ cur.search[Common + 1] = Now.path[Reached(w) + 1]
         /\ Deeper = NoNode => Now.path[Reached(w) + 1] \notin Labels(cur.node)
         /\ Deeper # NoNode =>
              Deeper \in Kids(Node) /\ tree[Deeper].prefix[1] = Now.path[Reached(w) + 1]
<1> USE DEF Inv
<1>1. PICK n : n = cur.node
  OBVIOUS
<1>2. PICK l : l = cur.search[Common + 1]
  OBVIOUS
<1>3. pc = "insert" /\ Common = Len(Node.prefix) /\ Common < Len(cur.search)
  BY DEF Below, Inserting
<1>4. /\ Common \in Nat /\ Start(w, n) \in Nat /\ Len(cur.search) \in Nat
      /\ Len(w[n]) = Start(w, n) + Len(Node.prefix) /\ Len(Now.path) = Start(w, n) + Len(cur.search)
      /\ n \in DOMAIN tree /\ Node = tree[n]
  <2>1. cur.search \in Seq(Characters)
    BY <1>3, InsertFacts
  <2> QED
    BY <1>1, <1>3, <2>1, InsertFacts
<1>5. /\ Reached(w) = Len(w[n]) /\ Reached(w) \in Nat /\ Reached(w) < Len(Now.path)
  <2>1. PICK s, x, q : s = Start(w, n) /\ x = Common /\ q = Len(cur.search)
    OBVIOUS
  <2>2. Reached(w) = s + x
    BY <1>1, <2>1 DEF Reached
  <2>3. /\ s \in Nat /\ x \in Nat /\ q \in Nat /\ x < q
        /\ Len(w[n]) = s + x /\ Len(Now.path) = s + q
    BY <1>3, <1>4, <2>1
  <2>4. s + x \in Nat /\ s + x < s + q
    BY ONLY <2>3
  <2> QED
    BY <2>2, <2>3, <2>4
<1>6. l = Now.path[Reached(w) + 1]
  <2>1. \A k \in 1 .. Len(cur.search) : cur.search[k] = Now.path[Start(w, n) + k]
    BY <1>1, <1>3 DEF WalkInv
  <2>2. Common + 1 \in 1 .. Len(cur.search) /\ Start(w, n) + (Common + 1) = Reached(w) + 1
    <3>1. PICK s, x, q : s = Start(w, n) /\ x = Common /\ q = Len(cur.search)
      OBVIOUS
    <3>2. s \in Nat /\ x \in Nat /\ q \in Nat /\ x < q
      BY <1>3, <1>4, <3>1
    <3>3. x + 1 \in 1 .. q /\ s + (x + 1) = (s + x) + 1
      BY ONLY <3>2
    <3>4. Reached(w) = s + x
      BY <1>1, <3>1 DEF Reached
    <3> QED
      BY <3>1, <3>3, <3>4
  <2>3. cur.search[Common + 1] = Now.path[Start(w, n) + (Common + 1)]
    BY <2>1, <2>2
  <2> QED
    BY <1>2, <2>2, <2>3
<1>7. \A k \in Kids(Node) : k \in DOMAIN tree /\ k # NoNode
  <2>1. \A k \in Kids(Node) : k \in DOMAIN tree
    BY <1>4, KidFacts
  <2>2. NoNode \notin DOMAIN tree
    BY DEF TypeInv, NoNode
  <2> QED
    BY <2>1, <2>2
<1>8. /\ Node.statics \subseteq Kids(Node)
      /\ Node.param # NoNode => Node.param \in Kids(Node)
      /\ Node.any # NoNode => Node.any \in Kids(Node)
      /\ \A k \in Kids(Node) : k \in Node.statics \/ k = Node.param \/ k = Node.any
  BY DEF Kids
<1>9. /\ Node.param # NoNode => tree[Node.param].prefix[1] = ":"
      /\ Node.any # NoNode => tree[Node.any].prefix[1] = "*"
  <2>1. /\ Node.param # NoNode => tree[Node.param].prefix = <<":">>
        /\ Node.any # NoNode => tree[Node.any].prefix = <<"*">>
    BY <1>4 DEF LinkInv
  <2> QED
    BY <2>1
<1> DEFINE cs == {k \in Node.statics : tree[k].prefix[1] = l}
           s == StaticChild(Node, l)
<1>10. /\ cs = {} => s = NoNode
       /\ cs # {} => s \in cs /\ s # NoNode
  <2>1. cs = {} => s = NoNode
    BY DEF StaticChild
  <2>2. cs # {} => s \in cs
    BY DEF StaticChild
  <2>3. \A k \in cs : k # NoNode
    BY <1>7, <1>8
  <2> QED
    BY <2>1, <2>2, <2>3
<1>11. Deeper = ChildWithLabel(Node, l)
  BY <1>2 DEF Deeper
<1>12. ASSUME Deeper = NoNode PROVE l \notin Labels(n)
  <2>1. s = NoNode /\ cs = {}
    BY <1>10, <1>11, <1>12 DEF ChildWithLabel
  <2>2. /\ l = ":" => Node.param = NoNode
        /\ l = "*" => Node.any = NoNode
    BY <1>11, <1>12, <2>1 DEF ChildWithLabel
  <2>3. \A k \in Kids(Node) : tree[k].prefix[1] # l
    BY <1>7, <1>8, <1>9, <2>1, <2>2
  <2> QED
    BY <1>4, <2>3 DEF Labels, LabelsIn
<1>13. ASSUME Deeper # NoNode PROVE Deeper \in Kids(Node) /\ tree[Deeper].prefix[1] = l
  <2>1. CASE s # NoNode
    <3>1. Deeper = s /\ s \in cs
      BY <1>10, <1>11, <2>1 DEF ChildWithLabel
    <3> QED
      BY <1>8, <3>1
  <2>2. CASE s = NoNode
    <3>1. \/ l = ":" /\ Deeper = Node.param
          \/ l = "*" /\ Deeper = Node.any
      BY <1>11, <1>13, <2>2 DEF ChildWithLabel
    <3> QED
      BY <1>8, <1>9, <1>13, <3>1
  <2> QED
    BY <2>1, <2>2
<1> QED
  BY <1>1, <1>2, <1>5, <1>6, <1>12, <1>13

\* There is no node on the path beyond the one that insert hangs a child on.
LEMMA ChildFree ==
  ASSUME NEW w, Inv(w), InsertChild, NEW k \in Reached(w) + 1 .. Len(Now.path)
  PROVE  ~NodeAt(w, Now.path, k)
<1> USE DEF Inv
<1>1. PICK n : n = cur.node
  OBVIOUS
<1>2. PICK P : P = Now.path
  OBVIOUS
<1>3. PICK m : m = Reached(w)
  OBVIOUS
<1>4. Below /\ Common > 0 /\ Deeper = NoNode /\ pc = "insert"
  BY DEF InsertChild, Below, Inserting
<1>5. m = Len(w[n]) /\ m \in Nat /\ m < Len(P) /\ P[m + 1] \notin Labels(n)
  BY <1>1, <1>2, <1>3, <1>4, DeeperFacts
<1>6. n \in DOMAIN tree /\ Agree(w[n], P, m) /\ P \in Seq(Characters)
  BY <1>1, <1>2, <1>3, <1>4, InsertFacts
<1>7. k \in Nat /\ m < k /\ k <= Len(P) /\ m + 1 \in 1 .. k /\ m <= k
  BY <1>2, <1>3, <1>5, <1>6
<1>8. SUFFICES ASSUME NodeAt(w, P, k) PROVE FALSE
  BY <1>2
<1>9. PICK j \in DOMAIN tree : Len(w[j]) = k /\ Agree(w[j], P, k)
  BY <1>8 DEF NodeAt
<1>10. Agree(w[n], w[j], m) /\ w[j][m + 1] = P[m + 1]
  <2>1. Agree(w[j], P, m)
    BY <1>5, <1>7, <1>9, AgreeLess
  <2>2. w[j][m + 1] = P[m + 1]
    BY <1>7, <1>9, AgreeAt
  <2> QED
    BY <1>6, <2>1, <2>2, AgreeSym, AgreeTrans
<1>11. w[j][m + 1] \in Labels(n)
  <2>1. Onward(DOMAIN tree, w, [i \in DOMAIN tree |-> LabelsIn(tree, i)])
    BY DEF TreeTrie, TrieOf, Trie
  <2> QED
    BY <1>5, <1>6, <1>7, <1>9, <1>10, <2>1 DEF Onward, Labels
<1> QED
  BY <1>5, <1>10, <1>11

\* The call for a parameter or a wildcard finds a node where it starts, so a new
\* child of that kind has the one character.
LEMMA ChildFacts ==
  ASSUME NEW w, Inv(w), InsertChild, Now.kind # "static"
  PROVE  /\ Now.kind = "param" => Drop(cur.search, Common) = <<":">> /\ Node.param = NoNode
         /\ Now.kind = "any" => Drop(cur.search, Common) = <<"*">> /\ Node.any = NoNode
<1> USE DEF Inv
<1>1. PICK n : n = cur.node
  OBVIOUS
<1>2. PICK P : P = Now.path
  OBVIOUS
<1>3. PICK m : m = Reached(w)
  OBVIOUS
<1>4. Below /\ Common > 0 /\ Deeper = NoNode /\ pc = "insert"
  BY DEF InsertChild, Below, Inserting
<1>5. /\ m = Len(w[n]) /\ m \in Nat /\ m < Len(P) /\ cur.search[Common + 1] = P[m + 1]
      /\ P[m + 1] \notin Labels(n)
  BY <1>1, <1>2, <1>3, <1>4, DeeperFacts
<1>6. /\ n \in DOMAIN tree /\ Node = tree[n] /\ Agree(w[n], P, m) /\ P \in Seq(Characters)
      /\ cur.search \in Seq(Characters) /\ Common \in Nat /\ Common <= Len(cur.search)
      /\ Len(P) = Start(w, n) + Len(cur.search) /\ m = Start(w, n) + Common /\ Start(w, n) \in Nat
  BY <1>1, <1>2, <1>3, <1>4, InsertFacts DEF Reached
<1>7. m = Len(P) - 1
  <2> SUFFICES ASSUME m # Len(P) - 1 PROVE FALSE
    OBVIOUS
  <2>1. NodeAt(w, P, Len(P) - 1)
    BY <1>2, <1>4 DEF WalkInv
  <2>2. Len(P) \in Nat /\ Len(P) - 1 \in m + 1 .. Len(P)
    <3>1. PICK l : l = Len(P)
      OBVIOUS
    <3>2. l \in Nat /\ m \in Nat /\ m < l /\ m # l - 1
      BY <1>5, <1>6, <3>1
    <3>3. l - 1 \in m + 1 .. l
      BY ONLY <3>2
    <3> QED
      BY <3>1, <3>2, <3>3
  <2> QED
    BY <1>2, <1>3, <2>1, <2>2, ChildFree
<1>8. Drop(cur.search, Common) = <<P[Len(P)]>>
  <2>1. /\ Common \in 0 .. Len(cur.search) /\ Len(cur.search) - Common = 1 /\ m + 1 = Len(P)
    BY <1>6, <1>7
  <2> DEFINE d == Drop(cur.search, Common)
  <2>2. d \in Seq(Characters) /\ Len(d) = 1 /\ d[1] = cur.search[Common + 1]
    <3>1. d \in Seq(Characters) /\ Len(d) = Len(cur.search) - Common
      BY <1>6, <2>1, DropFacts
    <3>2. \A k \in 1 .. Len(cur.search) - Common : d[k] = cur.search[Common + k]
      BY <1>6, <2>1, DropFacts
    <3> HIDE DEF d
    <3> QED
      BY <2>1, <3>1, <3>2
  <2>3. d[1] = P[Len(P)]
    BY <1>5, <2>1, <2>2
  <2> HIDE DEF d
  <2>4. d = <<d[1]>>
    BY <2>2
  <2> QED
    BY <2>3, <2>4 DEF d
<1>9. /\ Now.kind = "param" => P[Len(P)] = ":"
      /\ Now.kind = "any" => P[Len(P)] = "*"
  <2>1. Len(calls) = 1 /\ calls[1] = Now
    BY <1>4 DEF AddInv, Now
  <2> QED
    BY <1>2, <1>4, <2>1 DEF AddInv
<1>10. /\ Now.kind = "param" => Node.param = NoNode
       /\ Now.kind = "any" => Node.any = NoNode
  <2>1. P[m + 1] = P[Len(P)]
    BY <1>6, <1>7
  <2>2. /\ Node.param # NoNode => tree[Node.param].prefix = <<":">> /\ Node.param \in Kids(tree[n])
        /\ Node.any # NoNode => tree[Node.any].prefix = <<"*">> /\ Node.any \in Kids(tree[n])
    BY <1>6 DEF LinkInv, Kids
  <2>3. \A k \in Kids(tree[n]) : tree[k].prefix[1] # P[m + 1]
    BY <1>5 DEF Labels, LabelsIn
  <2> QED
    BY <1>9, <2>1, <2>2, <2>3
<1> QED
  BY <1>8, <1>9, <1>10

\* insert hangs node e below node n, and v are the words of the nodes.
Sprouting(w, v, n, e) ==
  /\ n = cur.node /\ n \in DOMAIN tree /\ Node = tree[n] /\ e = Len(tree) + 1
  /\ DOMAIN tree' = DOMAIN tree \cup {e} /\ tree' \in Seq(Nodes) /\ Len(tree') # 1
  /\ \A i \in DOMAIN tree : tree'[i].prefix = tree[i].prefix /\ tree'[i].parent = tree[i].parent
  /\ \A i \in DOMAIN tree \ {n} : tree'[i] = tree[i]
  /\ Kids(tree'[n]) = Kids(tree[n]) \cup {e} /\ tree'[n].isLeaf = FALSE
  /\ tree'[n].param # NoNode => tree'[tree'[n].param].prefix = <<":">>
  /\ tree'[n].any # NoNode => tree'[tree'[n].any].prefix = <<"*">>
  /\ Sprouted(e)
  /\ v \in [DOMAIN tree' -> Seq(Characters)] /\ v[e] = Now.path
  /\ \A i \in DOMAIN tree : v[i] = w[i]
  /\ Common = Len(Node.prefix) /\ Common > 0 /\ Common < Len(cur.search)
  /\ Now.path[Len(w[n]) + 1] \notin Labels(n)

\* InsertChild does so.
LEMMA ChildSprouts ==
  ASSUME NEW w, Inv(w), InsertChild, NEW v, v = ChildWords(w),
         NEW n, n = cur.node, NEW e, e = Len(tree) + 1
  PROVE  Sprouting(w, v, n, e) /\ Returns(tree')
<1> USE DEF Inv
<1>1. Below /\ Common > 0 /\ Deeper = NoNode /\ pc = "insert" /\ Common = Len(Node.prefix)
      /\ Common < Len(cur.search)
  BY DEF InsertChild, Below, Inserting
<1>2. /\ n \in DOMAIN tree /\ Node = tree[n] /\ Now.path \in Seq(Characters) /\ Now.kind \in Kinds
  <2>1. Now \in Caller
    BY <1>1, InsertFacts
  <2> QED
    BY <1>1, <2>1, InsertFacts, CallFacts
<1>3. Now.path[Len(w[n]) + 1] \notin Labels(n)
  BY <1>1, DeeperFacts
<1>4. tree \in Seq(Nodes) /\ Len(tree) \in Nat /\ DOMAIN tree = 1 .. Len(tree) /\ Len(tree) >= 1
  BY DEF TypeInv
<1>5. /\ Returns(tree') /\ tree' \in Seq(Nodes) /\ Len(tree') = Len(tree) + 1 /\ Sprouted(e)
      /\ \A i \in DOMAIN tree \ {n} : tree'[i] = tree[i]
      /\ tree'[n].prefix = tree[n].prefix /\ tree'[n].parent = tree[n].parent
      /\ tree'[n].isLeaf = FALSE
      /\ tree'[n].statics = tree[n].statics \cup (IF Now.kind = "static" THEN {e} ELSE {})
      /\ tree'[n].param = IF Now.kind = "param" THEN e ELSE tree[n].param
      /\ tree'[n].any = IF Now.kind = "any" THEN e ELSE tree[n].any
  BY <1>2, ChildShape
<1>6. /\ DOMAIN tree' = DOMAIN tree \cup {e} /\ Len(tree') # 1 /\ e \notin DOMAIN tree
      /\ e # NoNode /\ DOMAIN tree' = 1 .. Len(tree) + 1
  <2>1. DOMAIN tree' = 1 .. Len(tree')
    BY <1>5
  <2> QED
    BY <1>4, <1>5, <2>1 DEF NoNode
<1>7. \A i \in DOMAIN tree : tree'[i].prefix = tree[i].prefix /\ tree'[i].parent = tree[i].parent
  BY <1>5
<1>8. /\ Now.kind = "param" => tree'[e].prefix = <<":">> /\ tree[n].param = NoNode
      /\ Now.kind = "any" => tree'[e].prefix = <<"*">> /\ tree[n].any = NoNode
  BY <1>2, <1>5, ChildFacts DEF Sprouted
<1>9. Kids(tree'[n]) = Kids(tree[n]) \cup {e}
  <2>1. CASE Now.kind = "static"
    BY <1>5, <2>1 DEF Kids
  <2>2. CASE Now.kind = "param"
    BY <1>5, <1>6, <1>8, <2>2 DEF Kids
  <2>3. CASE Now.kind = "any"
    BY <1>5, <1>6, <1>8, <2>3 DEF Kids
  <2> QED
    BY <1>2, <2>1, <2>2, <2>3 DEF Kinds
<1>10. /\ tree'[n].param # NoNode => tree'[tree'[n].param].prefix = <<":">>
       /\ tree'[n].any # NoNode => tree'[tree'[n].any].prefix = <<"*">>
  <2>1. /\ tree[n].param # NoNode => tree[tree[n].param].prefix = <<":">> /\ tree[n].param \in Kids(tree[n])
        /\ tree[n].any # NoNode => tree[tree[n].any].prefix = <<"*">> /\ tree[n].any \in Kids(tree[n])
    BY <1>2 DEF LinkInv, Kids
  <2>2. \A k \in Kids(tree[n]) : k \in DOMAIN tree
    BY <1>2, KidFacts
  <2> QED
    BY <1>5, <1>7, <1>8, <2>1, <2>2
<1>11. /\ v \in [DOMAIN tree' -> Seq(Characters)] /\ v[e] = Now.path
       /\ \A i \in DOMAIN tree : v[i] = w[i]
  <2>1. w \in [DOMAIN tree -> Seq(Characters)]
    BY DEF WordInv, WordsOf
  <2>2. v = [i \in DOMAIN tree' |-> IF i = e THEN Now.path ELSE w[i]]
    BY <1>6 DEF ChildWords
  <2> QED
    BY <1>2, <1>6, <2>1, <2>2
<1> QED
  BY <1>1, <1>2, <1>3, <1>5, <1>6, <1>7, <1>9, <1>10, <1>11 DEF Sprouting

\* The tree with the new node.
LEMMA ChildStep ==
  ASSUME NEW w, Inv(w), InsertChild, NEW v, v = ChildWords(w)
  PROVE  /\ TypeInv' /\ AddInv' /\ LinkInv' /\ WordsOf(tree', v) /\ TrieOf(tree', v)
         /\ Len(tree) + 1 \in DOMAIN tree' /\ v[Len(tree) + 1] = Now.path
<1> USE DEF Inv
<1>1. PICK n : n = cur.node
  OBVIOUS
<1>2. PICK e : e = Len(tree) + 1
  OBVIOUS
<1>3. PICK P : P = Now.path
  OBVIOUS
<1>4. pc = "insert"
  BY DEF InsertChild, Below, Inserting
<1>5. Sprouting(w, v, n, e) /\ Returns(tree')
  BY <1>1, <1>2, ChildSprouts
<1>6. /\ n \in DOMAIN tree /\ Node = tree[n]
      /\ DOMAIN tree' = DOMAIN tree \cup {e} /\ tree' \in Seq(Nodes) /\ Len(tree') # 1
      /\ \A i \in DOMAIN tree : tree'[i].prefix = tree[i].prefix /\ tree'[i].parent = tree[i].parent
      /\ \A i \in DOMAIN tree \ {n} : tree'[i] = tree[i]
      /\ Kids(tree'[n]) = Kids(tree[n]) \cup {e} /\ tree'[n].isLeaf = FALSE
      /\ tree'[n].param # NoNode => tree'[tree'[n].param].prefix = <<":">>
      /\ tree'[n].any # NoNode => tree'[tree'[n].any].prefix = <<"*">>
      /\ Sprouted(e)
      /\ v \in [DOMAIN tree' -> Seq(Characters)] /\ v[e] = P
      /\ \A i \in DOMAIN tree : v[i] = w[i]
      /\ Common = Len(Node.prefix) /\ Common > 0 /\ Common < Len(cur.search)
      /\ P[Len(w[n]) + 1] \notin Labels(n)
  BY <1>3, <1>5 DEF Sprouting
<1>7. /\ tree \in Seq(Nodes) /\ Len(tree) \in Nat /\ Len(tree) >= 1 /\ DOMAIN tree = 1 .. Len(tree)
      /\ e \notin DOMAIN tree /\ e # Root /\ Root \in DOMAIN tree /\ e # NoNode /\ tree' # <<>>
      /\ NoNode \notin DOMAIN tree
  <2>1. /\ tree \in Seq(Nodes) /\ Len(tree) \in Nat /\ Len(tree) >= 1 /\ DOMAIN tree = 1 .. Len(tree)
    BY DEF TypeInv
  <2>2. /\ e \notin DOMAIN tree /\ e # Root /\ Root \in DOMAIN tree /\ e # NoNode
        /\ NoNode \notin DOMAIN tree
    BY <1>2, <2>1 DEF Root, NoNode
  <2>3. e \in DOMAIN tree'
    BY <1>6
  <2>4. tree' # <<>>
    BY <2>3
  <2> QED
    BY <2>1, <2>2, <2>4
<1>8. TypeInv' /\ AddInv'
  BY <1>4, <1>5, <1>6, <1>7, ReturnsStep
<1>9. \A i \in DOMAIN tree : \A k \in Kids(tree[i]) :
        k \in DOMAIN tree /\ k # Root /\ tree[k].parent = i /\ k # i
  BY KidFacts
<1>10. tree'[e].parent = n /\ Kids(tree'[e]) = {} /\ tree'[e].isLeaf = IsLeafNode(tree'[e])
       /\ tree'[e].param = NoNode /\ tree'[e].any = NoNode /\ tree'[e].prefix = Drop(cur.search, Common)
  <2>1. Sprouted(e)
    BY <1>6
  <2> QED
    BY <1>1, <2>1 DEF Sprouted, Kids, IsLeafNode
<1>11. LinkInv'
  <2>1. tree'[Root].parent = NoNode
    BY <1>6, <1>7 DEF LinkInv
  <2>2. ASSUME NEW i \in DOMAIN tree'
        PROVE  /\ \A k \in Kids(tree'[i]) : k \in DOMAIN tree' /\ k # Root /\ tree'[k].parent = i
               /\ tree'[i].param # NoNode => tree'[tree'[i].param].prefix = <<":">>
               /\ tree'[i].any # NoNode => tree'[tree'[i].any].prefix = <<"*">>
               /\ i # Root =>
                    /\ tree'[i].parent \in DOMAIN tree'
                    /\ i \in Kids(tree'[tree'[i].parent])
                    /\ tree'[i].isLeaf = IsLeafNode(tree'[i])
    <3>1. CASE i = e
      BY <1>6, <1>7, <1>10, <3>1
    <3>2. ASSUME i \in DOMAIN tree, i # Root
          PROVE  tree'[i].parent \in DOMAIN tree' /\ i \in Kids(tree'[tree'[i].parent])
      <4>1. tree[i].parent \in DOMAIN tree /\ i \in Kids(tree[tree[i].parent])
        BY <3>2 DEF LinkInv
      <4>2. CASE tree[i].parent = n
        BY <1>6, <3>2, <4>1, <4>2
      <4>3. CASE tree[i].parent # n
        BY <1>6, <3>2, <4>1, <4>3
      <4> QED
        BY <4>2, <4>3
    <3>3. CASE i = n
      <4>1. IsLeafNode(tree'[n]) = FALSE
        <5>1. e \in Kids(tree'[n])
          BY <1>6
        <5> QED
          BY <5>1 DEF IsLeafNode, Kids
      <4>2. \A k \in Kids(tree'[n]) : k \in DOMAIN tree' /\ k # Root /\ tree'[k].parent = n
        BY <1>6, <1>7, <1>10, <1>9
      <4> QED
        BY <1>6, <3>3, <3>2, <4>1, <4>2
    <3>4. CASE i \in DOMAIN tree \ {n}
      <4>1. tree'[i] = tree[i]
        BY <1>6, <3>4
      <4>2. /\ tree[i].param # NoNode => tree[tree[i].param].prefix = <<":">> /\ tree[i].param \in Kids(tree[i])
            /\ tree[i].any # NoNode => tree[tree[i].any].prefix = <<"*">> /\ tree[i].any \in Kids(tree[i])
            /\ i # Root => tree[i].isLeaf = IsLeafNode(tree[i])
        BY <3>4 DEF LinkInv, Kids
      <4>3. \A k \in Kids(tree[i]) : k \in DOMAIN tree' /\ k # Root /\ tree'[k].parent = i
        BY <1>6, <1>9, <3>4
      <4>4. \A k \in Kids(tree[i]) : tree'[k].prefix = tree[k].prefix
        BY <1>6, <1>9, <3>4
      <4> QED
        BY <3>4, <3>2, <4>1, <4>2, <4>3, <4>4
    <3> QED
      BY <1>6, <3>1, <3>3, <3>4
  <2> QED
    BY <2>1, <2>2 DEF LinkInv
<1> DEFINE m == Reached(w)
           s == cur.search
           x == Common
           S == Start(w, n)
<1>12. /\ m = Len(w[n]) /\ m \in Nat /\ m < Len(P) /\ P \in Seq(Characters) /\ Agree(w[n], P, m)
       /\ s \in Seq(Characters) /\ Len(s) \in Nat /\ x \in Nat /\ x < Len(s) /\ S \in Nat /\ m = S + x
       /\ Len(P) = S + Len(s) /\ \A k \in 1 .. Len(s) : s[k] = P[S + k]
  <2>1. Below /\ Common > 0
    BY DEF InsertChild
  <2>2. \A k \in 1 .. Len(s) : s[k] = P[S + k]
    BY <1>1, <1>3, <1>4 DEF WalkInv
  <2>3. s \in Seq(Characters)
    BY <1>4, InsertFacts
  <2>4. Len(s) \in Nat
    BY <2>3
  <2> QED
    BY <1>1, <1>3, <1>4, <1>6, <2>1, <2>2, <2>3, <2>4, DeeperFacts, InsertFacts DEF Reached
<1>13. \A i \in DOMAIN tree : StartIn(tree', v, i) = StartIn(tree, w, i)
  BY <1>6 DEF StartIn
<1> HIDE DEF m, s, x, S
<1>14. /\ Len(tree'[e].prefix) = Len(s) - x /\ \A k \in 1 .. Len(s) - x : tree'[e].prefix[k] = s[x + k]
       /\ StartIn(tree', v, e) = m
  <2>1. x \in 0 .. Len(s) /\ Len(P) - (Len(s) - x) = m
    BY <1>12
  <2>2. Len(Drop(s, x)) = Len(s) - x /\ \A k \in 1 .. Len(s) - x : Drop(s, x)[k] = s[x + k]
    BY <1>12, <2>1, DropFacts
  <2>3. Len(v[e]) - Len(tree'[e].prefix) = m
    BY <1>6, <1>10, <2>1, <2>2 DEF s, x
  <2> QED
    BY <1>10, <2>2, <2>3 DEF StartIn, s, x
<1>15. WordsOf(tree', v)
  <2>1. StartIn(tree', v, Root) = 0 /\ (v[Root] # <<>> => v[Root][1] = "/")
    BY <1>6, <1>7, <1>13 DEF WordInv, WordsOf
  <2>2. ASSUME NEW i \in DOMAIN tree
        PROVE  /\ tree'[i].prefix # <<>>
               /\ StartIn(tree', v, i) >= 0
               /\ \A k \in 1 .. Len(tree'[i].prefix) : tree'[i].prefix[k] = v[i][StartIn(tree', v, i) + k]
               /\ i # Root => /\ StartIn(tree', v, i) = Len(v[tree'[i].parent])
                              /\ Agree(v[tree'[i].parent], v[i], StartIn(tree', v, i))
    <3>1. tree[i].prefix # <<>>
      <4> SUFFICES ASSUME tree[i].prefix = <<>> PROVE FALSE
        OBVIOUS
      <4>1. Len(tree) = 1
        BY DEF WordInv, WordsOf
      <4>2. i = n
        BY <1>6, <1>7, <4>1
      <4> QED
        BY <1>6, <4>2
    <3>2. i # Root => tree[i].parent \in DOMAIN tree
      BY DEF LinkInv
    <3>3. /\ StartIn(tree, w, i) >= 0
          /\ \A k \in 1 .. Len(tree[i].prefix) : tree[i].prefix[k] = w[i][StartIn(tree, w, i) + k]
          /\ i # Root => /\ StartIn(tree, w, i) = Len(w[tree[i].parent])
                         /\ Agree(w[tree[i].parent], w[i], StartIn(tree, w, i))
      BY DEF WordInv, WordsOf
    <3>4. /\ tree'[i].prefix = tree[i].prefix /\ tree'[i].parent = tree[i].parent /\ v[i] = w[i]
          /\ StartIn(tree', v, i) = StartIn(tree, w, i)
          /\ i # Root => v[tree[i].parent] = w[tree[i].parent]
      BY <1>6, <1>13, <3>2
    <3> QED
      BY <3>1, <3>3, <3>4
  <2>3. /\ tree'[e].prefix # <<>>
        /\ StartIn(tree', v, e) >= 0
        /\ \A k \in 1 .. Len(tree'[e].prefix) : tree'[e].prefix[k] = v[e][StartIn(tree', v, e) + k]
        /\ StartIn(tree', v, e) = Len(v[tree'[e].parent])
        /\ Agree(v[tree'[e].parent], v[e], StartIn(tree', v, e))
    <3>1. tree'[e].prefix # <<>>
      <4>1. Len(tree'[e].prefix) # 0
        BY <1>12, <1>14
      <4> QED
        BY <4>1
    <3>2. ASSUME NEW k \in 1 .. Len(s) - x PROVE tree'[e].prefix[k] = P[m + k]
      <4>1. x + k \in 1 .. Len(s) /\ S + (x + k) = m + k
        BY <1>12
      <4>2. s[x + k] = P[S + (x + k)]
        BY <1>12, <4>1
      <4> QED
        BY <1>14, <4>1, <4>2
    <3>3. v[n] = w[n]
      BY <1>6
    <3>4. m >= 0 /\ StartIn(tree', v, e) = m /\ Len(tree'[e].prefix) = Len(s) - x /\ v[e] = P
      BY <1>6, <1>12, <1>14
    <3>5. m = Len(v[tree'[e].parent]) /\ Agree(v[tree'[e].parent], P, m)
      BY <1>12, <1>10, <3>3
    <3> QED
      BY <3>1, <3>2, <3>4, <3>5
  <2>4. \A i \in DOMAIN tree' :
          /\ tree'[i].prefix # <<>>
          /\ StartIn(tree', v, i) >= 0
          /\ \A k \in 1 .. Len(tree'[i].prefix) : tree'[i].prefix[k] = v[i][StartIn(tree', v, i) + k]
          /\ i # Root => /\ StartIn(tree', v, i) = Len(v[tree'[i].parent])
                         /\ Agree(v[tree'[i].parent], v[i], StartIn(tree', v, i))
    BY <1>6, <2>2, <2>3
  <2>5. v \in [DOMAIN tree' -> Seq(Characters)]
    BY <1>6
  <2> QED
    BY <2>1, <2>4, <2>5 DEF WordsOf
<1>16. /\ \A i \in DOMAIN tree : Labels(i) \subseteq LabelsIn(tree', i)
       /\ P[m + 1] \in LabelsIn(tree', n)
  <2>1. ASSUME NEW i \in DOMAIN tree, NEW l \in Labels(i) PROVE l \in LabelsIn(tree', i)
    <3>1. PICK k \in Kids(tree[i]) : l = tree[k].prefix[1]
      BY <2>1 DEF Labels, LabelsIn
    <3>2. k \in Kids(tree'[i])
      BY <1>6, <2>1, <3>1
    <3>3. tree'[k].prefix = tree[k].prefix
      BY <1>6, <1>9, <2>1, <3>1
    <3> QED
      BY <3>1, <3>2, <3>3 DEF LabelsIn
  <2>2. tree'[e].prefix[1] = P[m + 1]
    <3>1. 1 \in 1 .. Len(tree'[e].prefix)
      BY <1>12, <1>14
    <3> QED
      BY <1>6, <1>14, <1>15, <3>1 DEF WordsOf
  <2>3. e \in Kids(tree'[n])
    BY <1>6
  <2> QED
    BY <2>1, <2>2, <2>3 DEF LabelsIn
<1>17. TrieOf(tree', v)
  <2> DEFINE D == DOMAIN tree
             st == [i \in DOMAIN tree |-> StartIn(tree, w, i)]
             L == [i \in DOMAIN tree |-> LabelsIn(tree, i)]
             st2 == [i \in DOMAIN tree' |-> StartIn(tree', v, i)]
             L2 == [i \in DOMAIN tree' |-> LabelsIn(tree', i)]
  <2>1. Trie(D, w, st, L)
    BY DEF TreeTrie, TrieOf
  <2>2. w \in [D -> Seq(Characters)] /\ st \in [D -> Nat] /\ \A i \in D : st[i] <= Len(w[i])
    BY StartFacts DEF WordInv, WordsOf, Start
  <2>3. n \in D /\ e \notin D /\ P[m + 1] \notin L[n]
    BY <1>6, <1>7, <1>12 DEF Labels
  <2>4. /\ \A i \in D : v[i] = w[i] /\ st2[i] = st[i] /\ L[i] \subseteq L2[i]
        /\ v[e] = P /\ st2[e] = m /\ P[m + 1] \in L2[n]
    BY <1>6, <1>13, <1>14, <1>16 DEF Labels
  <2> HIDE DEF D, st, L, st2, L2
  <2>5. Grows(D, w, st, L, n, e, P, v, st2, L2)
    BY <1>12, <2>1, <2>2, <2>3, <2>4 DEF Grows
  <2>6. Trie(D \cup {e}, v, st2, L2)
    BY <2>5, TrieGrow
  <2> QED
    BY <1>6, <2>6 DEF TrieOf, D, st2, L2
<1> QED
  BY <1>2, <1>3, <1>6, <1>8, <1>11, <1>15, <1>17

\* A node of the tree has the word.
HasNode(D, v, P) == \E j \in D : Len(v[j]) = Len(P) /\ Agree(v[j], P, Len(P))

\* The paths that insert is called with start with a slash.
LEMMA CallPaths ==
  ASSUME TypeInv, AddInv, pc = "insert", NEW q \in DOMAIN calls
  PROVE  /\ calls[q].path \in Seq(Characters) /\ Len(calls[q].path) \in Nat
         /\ Len(calls[q].path) >= 1 /\ calls[q].path[1] = "/"
         /\ Len(calls[q].path) <= Len(add.path) /\ Agree(calls[q].path, add.path, Len(calls[q].path))
<1>1. calls \in Seq(Caller) /\ add.path \in Seq(Characters)
  BY DEF TypeInv, Adds
<1>2. PICK p : p = calls[q].path
  OBVIOUS
<1>3. p \in Seq(Characters)
  BY <1>1, <1>2, MemberFacts, CallFacts
<1>4. p = Take(add.path, Len(p)) /\ 1 <= Len(p) /\ Len(p) <= Len(add.path) /\ add.path[1] = "/"
  BY <1>2 DEF AddInv
<1>5. PICK k : k = Len(p)
  OBVIOUS
<1>6. k \in Nat /\ k >= 1 /\ k \in 0 .. Len(add.path)
  BY <1>1, <1>3, <1>4, <1>5
<1>7. \A j \in 1 .. k : Take(add.path, k)[j] = add.path[j]
  BY <1>1, <1>6, TakeFacts
<1>8. \A j \in 1 .. k : p[j] = add.path[j]
  BY <1>4, <1>5, <1>7
<1>9. p[1] = "/"
  BY <1>4, <1>6, <1>8
<1> QED
  BY <1>2, <1>3, <1>4, <1>5, <1>6, <1>8, <1>9 DEF Agree

\* The tree gets its first node.
LEMMA RootStep ==
  ASSUME NEW w, Inv(w), InsertAtRoot, NEW v, v = RootWords
  PROVE  /\ TypeInv' /\ AddInv' /\ LinkInv' /\ WordsOf(tree', v) /\ TrieOf(tree', v)
         /\ HasNode(DOMAIN tree', v, Now.path) /\ Returns(tree')
<1> USE DEF Inv
<1>1. PICK P : P = Now.path
  OBVIOUS
<1>2. pc = "insert" /\ Common = 0
  BY DEF InsertAtRoot, Inserting
<1>3. cur.node \in DOMAIN tree /\ Node = tree[cur.node] /\ P \in Seq(Characters)
      /\ cur.search \in Seq(Characters)
  BY <1>1, <1>2, InsertFacts
<1>4. Node.prefix = <<>> /\ Returns(tree') /\ tree' \in Seq(Nodes) /\ Len(tree') = Len(tree)
  BY RootShape
<1>5. Len(tree) = 1 /\ IsLeafNode(Node)
  BY <1>3, <1>4 DEF WordInv, WordsOf
<1>6. /\ DOMAIN tree = {Root} /\ DOMAIN tree' = {Root} /\ cur.node = Root /\ tree' # <<>>
  BY <1>3, <1>4, <1>5 DEF TypeInv, Root
<1>7. TypeInv' /\ AddInv'
  BY <1>2, <1>4, <1>6, ReturnsStep
<1>8. /\ tree'[Root].prefix = cur.search /\ tree'[Root].parent = NoNode /\ Kids(tree'[Root]) = {}
      /\ tree'[Root].param = NoNode /\ tree'[Root].any = NoNode
  <2>1. /\ tree'[Root].prefix = cur.search /\ tree'[Root].parent = Node.parent
        /\ tree'[Root].statics = Node.statics /\ tree'[Root].param = Node.param
        /\ tree'[Root].any = Node.any
    BY <1>6, RootShape
  <2>2. Node.parent = NoNode
    BY <1>3, <1>6 DEF LinkInv
  <2> QED
    BY <1>5, <2>1, <2>2 DEF IsLeafNode, Kids
<1>9. LinkInv'
  BY <1>6, <1>8 DEF LinkInv
<1>10. Len(cur.search) = Len(P) /\ \A k \in 1 .. Len(P) : cur.search[k] = P[k]
  <2>1. Start(w, Root) = 0
    BY DEF WordInv, WordsOf, Start
  <2>2. Len(P) = 0 + Len(cur.search) /\ \A k \in 1 .. Len(cur.search) : cur.search[k] = P[0 + k]
    BY <1>1, <1>2, <1>6, <2>1 DEF WalkInv
  <2> QED
    BY <1>3, <2>2
<1>11. P[1] = "/" /\ Len(P) >= 1 /\ Len(P) \in Nat
  <2>1. 1 \in DOMAIN calls /\ Now = calls[1]
    BY <1>2 DEF AddInv, Now, TypeInv
  <2> QED
    BY <1>1, <1>2, <2>1, CallPaths
<1>12. v[Root] = P /\ v \in [{Root} -> Seq(Characters)]
  BY <1>1, <1>3 DEF RootWords
<1>13. StartIn(tree', v, Root) = 0
  BY <1>8, <1>10, <1>11, <1>12 DEF StartIn
<1>14. WordsOf(tree', v)
  <2>1. cur.search # <<>>
    BY <1>2, InsertFacts
  <2>2. \A k \in 1 .. Len(tree'[Root].prefix) : tree'[Root].prefix[k] = v[Root][0 + k]
    BY <1>8, <1>10, <1>12
  <2> QED
    BY <1>6, <1>8, <1>11, <1>12, <1>13, <2>1, <2>2 DEF WordsOf
<1>15. TrieOf(tree', v)
  <2> DEFINE st == [i \in DOMAIN tree' |-> StartIn(tree', v, i)]
             L == [i \in DOMAIN tree' |-> LabelsIn(tree', i)]
  <2> HIDE DEF st, L
  <2>1. Trie({Root}, v, st, L)
    BY <1>11, <1>12 DEF Trie, Distinct, Through, Onward, Agree
  <2> QED
    BY <1>6, <2>1 DEF TrieOf, st, L
<1>16. HasNode(DOMAIN tree', v, Now.path)
  BY <1>1, <1>6, <1>12, AgreeSelf DEF HasNode
<1> QED
  BY <1>4, <1>7, <1>9, <1>14, <1>15, <1>16

\* A node that is there gets a handler.
LEMMA ExistsStep ==
  ASSUME NEW w, Inv(w), InsertExists
  PROVE  /\ TypeInv' /\ AddInv' /\ LinkInv' /\ WordsOf(tree', w) /\ TrieOf(tree', w)
         /\ HasNode(DOMAIN tree', w, Now.path) /\ Returns(tree')
<1> USE DEF Inv
<1>1. pc = "insert" /\ Common = Len(Node.prefix) /\ Common = Len(cur.search)
  BY DEF InsertExists, Inserting
<1>2. /\ Returns(tree') /\ tree' \in Seq(Nodes) /\ Len(tree') = Len(tree)
      /\ \A i \in DOMAIN tree : SamePlace(tree[i], tree'[i])
  BY ExistsShape
<1>3. DOMAIN tree' = DOMAIN tree /\ tree' # <<>> /\ DOMAIN tree = 1 .. Len(tree) /\ Root \in DOMAIN tree
  BY <1>2 DEF TypeInv, Root
<1>4. TypeInv' /\ AddInv'
  BY <1>1, <1>2, <1>3, ReturnsStep
<1>5. \A i \in DOMAIN tree :
        /\ tree'[i].prefix = tree[i].prefix /\ tree'[i].parent = tree[i].parent
        /\ tree'[i].isLeaf = tree[i].isLeaf /\ Kids(tree'[i]) = Kids(tree[i])
        /\ IsLeafNode(tree'[i]) = IsLeafNode(tree[i])
        /\ tree'[i].param = tree[i].param /\ tree'[i].any = tree[i].any
  BY <1>2 DEF SamePlace, SameBelow, Kids, IsLeafNode
<1>6. \A i \in DOMAIN tree : \A k \in Kids(tree[i]) : k \in DOMAIN tree
  BY KidFacts
<1>7. LinkInv'
  <2>1. \A i \in DOMAIN tree : /\ tree[i].param # NoNode => tree[i].param \in DOMAIN tree
                               /\ tree[i].any # NoNode => tree[i].any \in DOMAIN tree
    BY <1>6 DEF Kids
  <2> QED
    BY <1>3, <1>5, <1>6, <2>1 DEF LinkInv
<1>8. \A i \in DOMAIN tree : StartIn(tree', w, i) = StartIn(tree, w, i)
  BY <1>5 DEF StartIn
<1>9. WordsOf(tree', w)
  <2>1. /\ w \in [DOMAIN tree -> Seq(Characters)] /\ StartIn(tree, w, Root) = 0
        /\ w[Root] # <<>> => w[Root][1] = "/"
    BY DEF WordInv, WordsOf
  <2>2. ASSUME NEW i \in DOMAIN tree
        PROVE  /\ tree[i].prefix = <<>> => Len(tree) = 1 /\ IsLeafNode(tree[i])
               /\ StartIn(tree, w, i) >= 0
               /\ \A k \in 1 .. Len(tree[i].prefix) : tree[i].prefix[k] = w[i][StartIn(tree, w, i) + k]
               /\ i # Root => /\ StartIn(tree, w, i) = Len(w[tree[i].parent])
                              /\ Agree(w[tree[i].parent], w[i], StartIn(tree, w, i))
    BY DEF WordInv, WordsOf
  <2>3. ASSUME NEW i \in DOMAIN tree
        PROVE  /\ tree'[i].prefix = <<>> => Len(tree') = 1 /\ IsLeafNode(tree'[i])
               /\ StartIn(tree', w, i) >= 0
               /\ \A k \in 1 .. Len(tree'[i].prefix) : tree'[i].prefix[k] = w[i][StartIn(tree', w, i) + k]
               /\ i # Root => /\ StartIn(tree', w, i) = Len(w[tree'[i].parent])
                              /\ Agree(w[tree'[i].parent], w[i], StartIn(tree', w, i))
    <3>1. /\ tree'[i].prefix = tree[i].prefix /\ tree'[i].parent = tree[i].parent
          /\ IsLeafNode(tree'[i]) = IsLeafNode(tree[i]) /\ Len(tree') = Len(tree)
          /\ StartIn(tree', w, i) = StartIn(tree, w, i)
      BY <1>2, <1>5, <1>8
    <3> QED
      BY <2>2, <3>1
  <2>4. StartIn(tree', w, Root) = 0
    BY <1>3, <1>8, <2>1
  <2> QED
    BY <1>3, <2>1, <2>3, <2>4 DEF WordsOf
<1>10. \A i \in DOMAIN tree : LabelsIn(tree', i) = LabelsIn(tree, i)
  <2> SUFFICES ASSUME NEW i \in DOMAIN tree PROVE LabelsIn(tree', i) = LabelsIn(tree, i)
    OBVIOUS
  <2>1. \A k \in Kids(tree[i]) : tree'[k].prefix[1] = tree[k].prefix[1]
    BY <1>5, <1>6
  <2>2. {tree'[k].prefix[1] : k \in Kids(tree[i])} = {tree[k].prefix[1] : k \in Kids(tree[i])}
    BY ONLY <2>1, SameLabels
  <2> QED
    BY <1>5, <2>2 DEF LabelsIn
<1>11. TrieOf(tree', w)
  <2>1. /\ [i \in DOMAIN tree' |-> StartIn(tree', w, i)] = [i \in DOMAIN tree |-> StartIn(tree, w, i)]
        /\ [i \in DOMAIN tree' |-> LabelsIn(tree', i)] = [i \in DOMAIN tree |-> LabelsIn(tree, i)]
    BY <1>3, <1>8, <1>10
  <2> QED
    BY <1>3, <2>1 DEF TreeTrie, TrieOf
<1>12. HasNode(DOMAIN tree', w, Now.path)
  <2>1. /\ cur.node \in DOMAIN tree /\ Reached(w) = Len(w[cur.node]) /\ Reached(w) = Len(Now.path)
        /\ Agree(w[cur.node], Now.path, Reached(w))
    BY <1>1, InsertFacts DEF Reached
  <2> QED
    BY <1>3, <2>1 DEF HasNode
<1> QED
  BY <1>2, <1>4, <1>7, <1>9, <1>11, <1>12

SlashPaths ==
  TypeInv /\ AddInv /\ pc = "insert" =>
    \A q \in DOMAIN calls : /\ calls[q].path \in Seq(Characters) /\ Len(calls[q].path) \in Nat
                            /\ Len(calls[q].path) >= 1 /\ calls[q].path[1] = "/"

\* The same in the next state.
LEMMA CallPathsNext == SlashPaths'
<1>1. SlashPaths
  BY CallPaths DEF SlashPaths
<1> QED
  BY <1>1, PTL

\* insert starts at the root.
LEMMA StartWalk ==
  ASSUME NEW v, TypeInv', AddInv', pc' = "insert", WordsOf(tree', v),
         cur' = [node |-> Root, search |-> calls'[1].path],
         calls'[1].kind # "static" =>
           \E j \in DOMAIN tree' : /\ Len(v[j]) = Len(calls'[1].path) - 1
                                   /\ Agree(v[j], calls'[1].path, Len(calls'[1].path) - 1)
  PROVE  WalkInv(v)'
<1>1. PICK P : P = calls'[1].path
  OBVIOUS
<1>2. /\ cur'.node = Root /\ cur'.search = P
  BY <1>1
<1>3. P \in Seq(Characters) /\ Len(P) \in Nat /\ Len(P) >= 1 /\ P[1] = "/"
  <2>1. 1 \in DOMAIN calls'
    BY DEF AddInv, TypeInv
  <2>2. \A q \in DOMAIN calls' : /\ calls'[q].path \in Seq(Characters) /\ Len(calls'[q].path) \in Nat
                                 /\ Len(calls'[q].path) >= 1 /\ calls'[q].path[1] = "/"
    BY CallPathsNext DEF SlashPaths
  <2> QED
    BY <1>1, <2>1, <2>2
<1>4. Root \in DOMAIN tree' /\ tree' \in Seq(Nodes)
  BY DEF TypeInv, Root
<1>5. StartIn(tree', v, Root) = 0 /\ (v[Root] # <<>> => v[Root][1] = "/")
  BY DEF WordsOf
<1>6. Agree(v[Root], P, 0)
  BY DEF Agree
<1>7. tree'[Root].prefix # <<>> => tree'[Root].prefix[1] = "/"
  <2> SUFFICES ASSUME tree'[Root].prefix # <<>> PROVE tree'[Root].prefix[1] = "/"
    OBVIOUS
  <2>1. tree'[Root] \in Nodes
    BY <1>4, MemberFacts
  <2>2. tree'[Root].prefix \in Seq(Characters)
    BY <2>1 DEF Nodes
  <2> DEFINE p == tree'[Root].prefix
  <2>3. p # <<>> /\ p \in Seq(Characters)
    BY <2>2
  <2>4. \A k \in 1 .. Len(p) : p[k] = v[Root][0 + k]
    BY <1>4, <1>5 DEF WordsOf
  <2>5. Len(v[Root]) - Len(p) = 0 /\ v[Root] \in Seq(Characters)
    BY <1>4, <1>5 DEF WordsOf, StartIn
  <2> HIDE DEF p
  <2>6. Len(p) \in Nat /\ Len(p) >= 1
    BY <2>3
  <2>7. p[1] = v[Root][1]
    BY <2>4, <2>6
  <2>8. v[Root] # <<>>
    BY <2>5, <2>6
  <2> QED
    BY <1>5, <2>7, <2>8 DEF p
<1>8. \A k \in 1 .. Len(P) : P[k] = P[0 + k]
  OBVIOUS
<1>9. Len(P) = 0 + Len(P) /\ P # <<>>
  BY <1>3
<1> QED
  BY <1>1, <1>2, <1>3, <1>4, <1>5, <1>6, <1>7, <1>8, <1>9 DEF WalkInv, Now, Node, Start, NodeAt

\* The call for a parameter or a wildcard comes after the one for what is before.
LEMMA ReturnWalk ==
  ASSUME TypeInv, AddInv, pc = "insert", Returns(tree'), TypeInv', AddInv',
         NEW v, WordsOf(tree', v), HasNode(DOMAIN tree', v, Now.path)
  PROVE  WalkInv(v)'
<1>1. tree' \in Seq(Nodes) /\ tree' # <<>>
  BY DEF TypeInv
<1>2. CASE pc' # "insert"
  BY <1>2 DEF WalkInv
<1>3. CASE pc' = "insert"
  <2>1. Len(calls) = 2 /\ calls'[1] = calls[2] /\ cur' = [node |-> Root, search |-> calls'[1].path]
    BY <1>1, <1>3, ReturnsStep
  <2>2. PICK p, q : p = calls[1].path /\ q = calls[2].path
    OBVIOUS
  <2>3. /\ Len(q) = Len(p) + 1 /\ Len(p) \in Nat /\ 1 \in DOMAIN calls /\ 2 \in DOMAIN calls
    <3>1. 1 \in DOMAIN calls /\ 2 \in DOMAIN calls
      BY <2>1 DEF TypeInv
    <3> QED
      BY <2>1, <2>2, <3>1, CallPaths DEF AddInv
  <2>4. Agree(p, add.path, Len(p)) /\ Agree(q, add.path, Len(q))
    BY <2>2, <2>3, CallPaths
  <2>5. Agree(p, q, Len(p))
    <3>1. Len(q) \in Int /\ Len(p) \in Int /\ Len(p) <= Len(q)
      BY <2>3
    <3>2. Agree(q, add.path, Len(p))
      BY <2>4, <3>1, AgreeLess
    <3> QED
      BY <2>4, <3>2, AgreeSym, AgreeTrans
  <2>6. PICK j \in DOMAIN tree' : Len(v[j]) = Len(p) /\ Agree(v[j], p, Len(p))
    BY <2>2 DEF HasNode, Now
  <2>7. Len(v[j]) = Len(q) - 1 /\ Agree(v[j], q, Len(q) - 1)
    <3>1. Len(q) - 1 = Len(p)
      BY <2>3
    <3> QED
      BY <2>5, <2>6, <3>1, AgreeTrans
  <2> QED
    BY <1>3, <2>1, <2>2, <2>7, StartWalk
<1> QED
  BY <1>2, <1>3

\* insert goes on to a child.
LEMMA DeeperStep ==
  ASSUME NEW w, Inv(w), InsertDeeper
  PROVE  TypeInv' /\ AddInv' /\ UNCHANGED tree /\ WalkInv(w)'
<1> USE DEF Inv
<1>1. PICK n : n = cur.node
  OBVIOUS
<1>2. PICK k : k = Deeper
  OBVIOUS
<1>3. PICK P : P = Now.path
  OBVIOUS
<1>4. PICK s : s = cur.search
  OBVIOUS
<1>5. PICK x : x = Common
  OBVIOUS
<1>6. PICK m : m = Reached(w)
  OBVIOUS
<1>7. /\ Below /\ x > 0 /\ k # NoNode /\ pc = "insert" /\ x < Len(s)
      /\ cur' = [node |-> k, search |-> Drop(s, x)]
      /\ UNCHANGED <<tree, maxParam, routes, pc, add, calls, find>>
  BY <1>2, <1>4, <1>5 DEF InsertDeeper, Below, Inserting
<1>8. /\ m = Len(w[n]) /\ m \in Nat /\ m < Len(P) /\ k \in Kids(Node) /\ tree[k].prefix[1] = P[m + 1]
  BY <1>1, <1>2, <1>3, <1>5, <1>6, <1>7, DeeperFacts
<1>9. /\ n \in DOMAIN tree /\ Node = tree[n] /\ s \in Seq(Characters) /\ x \in Nat
      /\ Start(w, n) \in Nat /\ m = Start(w, n) + x /\ Agree(w[n], P, m) /\ Len(P) = Start(w, n) + Len(s)
      /\ \A j \in 1 .. Len(s) : s[j] = P[Start(w, n) + j]
      /\ Now.kind # "static" => NodeAt(w, P, Len(P) - 1)
  BY <1>1, <1>3, <1>4, <1>5, <1>6, <1>7, InsertFacts DEF Reached, WalkInv
<1>10. /\ k \in DOMAIN tree /\ Start(w, k) = m /\ Agree(w[n], w[k], m)
  <2>1. k \in Kids(tree[n])
    BY <1>8, <1>9
  <2>2. n \in DOMAIN tree
    BY <1>9
  <2>3. k \in DOMAIN tree /\ Start(w, k) = Len(w[n]) /\ Agree(w[n], w[k], Len(w[n]))
    BY <2>1, <2>2, KidFacts
  <2>4. m = Len(w[n])
    BY <1>8
  <2> QED
    BY ONLY <2>3, <2>4
<1>11. PICK d : d = Drop(s, x)
  OBVIOUS
<1>12. Len(s) \in Nat
  BY <1>9
<1>13. /\ d \in Seq(Characters) /\ Len(d) = Len(s) - x /\ \A j \in 1 .. Len(s) - x : d[j] = s[x + j]
  <2>1. x \in 0 .. Len(s)
    BY <1>7, <1>9, <1>12
  <2> QED
    BY <1>9, <1>11, <2>1, DropFacts
<1>14. Len(P) = m + Len(d) /\ Len(d) > 0
  BY <1>7, <1>9, <1>12, <1>13
<1>15. \A j \in 1 .. Len(d) : d[j] = P[m + j]
  <2> SUFFICES ASSUME NEW j \in 1 .. Len(d) PROVE d[j] = P[m + j]
    OBVIOUS
  <2>1. j \in 1 .. Len(s) - x /\ x + j \in 1 .. Len(s) /\ Start(w, n) + (x + j) = m + j
    BY <1>9, <1>12, <1>13
  <2>2. s[x + j] = P[Start(w, n) + (x + j)]
    BY <1>9, <2>1
  <2> QED
    BY <1>13, <2>1, <2>2
<1>16. d # <<>> /\ d[1] = P[m + 1]
  BY <1>14, <1>15, <1>12, <1>13, <1>7, <1>9
<1>17. Agree(w[k], P, m)
  BY <1>9, <1>10, AgreeSym, AgreeTrans
<1>18. TypeInv'
  <2>1. k \in Nat
    BY <1>10 DEF TypeInv
  <2> QED
    BY <1>7, <1>11, <1>13, <2>1 DEF TypeInv
<1>19. AddInv'
  BY <1>7 DEF AddInv, Full
<1>20. WalkInv(w)'
  <2>1. cur'.node = k /\ cur'.search = d /\ Now' = Now /\ tree' = tree
    BY <1>7, <1>11 DEF Now
  <2>2. Start(w, cur'.node) = m
    BY <1>10, <2>1
  <2> QED
    BY <1>3, <1>8, <1>9, <1>10, <1>14, <1>15, <1>16, <1>17, <2>1 DEF WalkInv, Start, StartIn, Node, NodeAt
<1> QED
  BY <1>7, <1>18, <1>19, <1>20

-----------------------------------------------------------------------------
(* Find *)

\* Find's variables when it goes on at l
FindOK(l, f) ==
  /\ f \in Finds /\ f.node \in 0 .. Len(tree) /\ f.best \in 0 .. Len(tree)
  /\ l \in {"loop", "param", "any"} =>
       f.node \in DOMAIN tree /\ f.searchIndex + Len(f.search) = Len(f.path)
  /\ l \in {"loop", "param", "any", "out"} => f.method \in Methods

FindLabels == {"idle", "loop", "param", "any", "out", "done", "panic"}

\* What a step of Find leaves as it is.
LEMMA GoesStep ==
  ASSUME TypeInv, NEW l \in FindLabels, NEW f, FindOK(l, f), Goes(l, f)
  PROVE  /\ TypeInv' /\ AddInv' /\ FindOK(pc, find)' /\ pc' \in FindLabels
         /\ UNCHANGED <<tree, maxParam, routes, add, calls, cur>>
<1>1. /\ pc' = l /\ find' = f /\ UNCHANGED <<tree, maxParam, routes, add, calls, cur>>
  BY DEF Goes
<1>2. TypeInv'
  BY <1>1 DEF TypeInv, FindOK, FindLabels
<1>3. AddInv'
  BY <1>1 DEF AddInv, FindLabels
<1>4. FindOK(pc, find)'
  BY <1>1 DEF FindOK
<1> QED
  BY <1>1, <1>2, <1>3, <1>4

\* The fields of Find's variables.
LEMMA FindFacts ==
  ASSUME TypeInv
  PROVE  /\ find.path \in Seq(Characters) /\ find.search \in Seq(Characters)
         /\ Len(find.search) \in Nat /\ Len(find.path) \in Nat
         /\ find.searchIndex \in Nat /\ find.paramIndex \in Nat
         /\ find.pvalues \in Seq(Seq(Characters)) /\ find.matched \in RouteMethods
         /\ find.node \in Nat /\ find.best \in Nat /\ find.method \in Methods \cup {"none"}
<1>1. find \in Finds
  BY DEF TypeInv
<1>2. find.path \in Seq(Characters) /\ find.search \in Seq(Characters)
  BY <1>1 DEF Finds
<1> QED
  BY <1>1, <1>2 DEF Finds

\* The nodes that a node is linked to are in the tree.
LEMMA LinkFacts ==
  ASSUME TypeInv, LinkInv, NEW i \in DOMAIN tree
  PROVE  /\ tree[i] \in Nodes /\ DOMAIN tree = 1 .. Len(tree) /\ Len(tree) \in Nat
         /\ tree[i].parent \in 0 .. Len(tree) /\ tree[i].param \in 0 .. Len(tree)
         /\ tree[i].any \in 0 .. Len(tree) /\ tree[i].statics \subseteq DOMAIN tree
         /\ tree[i].parent # NoNode => tree[i].parent \in DOMAIN tree
         /\ tree[i].param # NoNode => tree[i].param \in DOMAIN tree
         /\ tree[i].any # NoNode => tree[i].any \in DOMAIN tree
<1>1. tree \in Seq(Nodes) /\ DOMAIN tree = 1 .. Len(tree) /\ Len(tree) \in Nat
  BY DEF TypeInv
<1>2. tree[i] \in Nodes
  BY <1>1, MemberFacts
<1>3. \A c \in Kids(tree[i]) : c \in DOMAIN tree
  BY DEF LinkInv
<1>4. tree[i].parent # NoNode => tree[i].parent \in DOMAIN tree
  BY DEF LinkInv
<1>5. /\ tree[i].param # NoNode => tree[i].param \in DOMAIN tree
      /\ tree[i].any # NoNode => tree[i].any \in DOMAIN tree
      /\ tree[i].statics \subseteq DOMAIN tree
  BY <1>3 DEF Kids
<1>6. NoNode \in 0 .. Len(tree) /\ \A j \in DOMAIN tree : j \in 0 .. Len(tree)
  BY <1>1 DEF NoNode
<1> QED
  BY <1>1, <1>2, <1>4, <1>5, <1>6

\* The fields of a node.
LEMMA NodeFacts ==
  ASSUME NEW n \in Nodes
  PROVE  /\ n.prefix \in Seq(Characters) /\ Len(n.prefix) \in Nat /\ n.kind \in Kinds
         /\ n.originalPath \in Seq(Characters) /\ n.notFound \in RouteMethods
         /\ n.methods \in [Methods -> RouteMethods] /\ n.paramsCount \in Nat
<1>1. n.prefix \in Seq(Characters)
  BY DEF Nodes
<1> QED
  BY <1>1 DEF Nodes

\* What is left after a node has matched.
LEMMA MatchFacts ==
  ASSUME TypeInv, LinkInv, FindOK(pc, find), pc = "loop"
  PROVE  /\ find.node \in DOMAIN tree /\ Here = tree[find.node] /\ Here \in Nodes
         /\ Matched \in Seq(Characters) /\ Len(Matched) \in Nat
         /\ IsPrefix(Matched, find.search) =>
              /\ Len(Matched) <= Len(find.search)
              /\ Rest \in Seq(Characters) /\ Len(Rest) = Len(find.search) - Len(Matched)
              /\ Advanced \in Finds /\ Advanced.searchIndex + Len(Advanced.search) = Len(Advanced.path)
              /\ Advanced.node = find.node /\ Advanced.best = find.best
              /\ Advanced.method = find.method /\ Advanced.path = find.path
<1>1. find.node \in DOMAIN tree /\ Here = tree[find.node]
  BY DEF FindOK, Here
<1>2. Here \in Nodes
  BY <1>1, LinkFacts
<1>3. Matched \in Seq(Characters)
  BY <1>2, NodeFacts DEF Matched
<1>4. Len(Matched) \in Nat
  BY <1>3
<1>5. ASSUME IsPrefix(Matched, find.search)
      PROVE  /\ Len(Matched) <= Len(find.search)
             /\ Rest \in Seq(Characters) /\ Len(Rest) = Len(find.search) - Len(Matched)
  <2>1. Len(Matched) <= Len(find.search) /\ find.search \in Seq(Characters) /\ Len(find.search) \in Nat
    BY <1>5, FindFacts DEF IsPrefix
  <2>2. Len(Matched) \in 0 .. Len(find.search)
    BY <1>4, <2>1
  <2> QED
    BY <2>1, <2>2, DropFacts DEF Rest
<1>6. ASSUME IsPrefix(Matched, find.search)
      PROVE  /\ Advanced \in Finds /\ Advanced.searchIndex + Len(Advanced.search) = Len(Advanced.path)
             /\ Advanced.node = find.node /\ Advanced.best = find.best
             /\ Advanced.method = find.method /\ Advanced.path = find.path
  <2>1. find \in Finds /\ find.searchIndex + Len(find.search) = Len(find.path)
    BY DEF TypeInv, FindOK
  <2>2. find.searchIndex + Len(Matched) \in Nat
    BY <1>4, FindFacts
  <2>3. /\ Advanced.search = Rest /\ Advanced.searchIndex = find.searchIndex + Len(Matched)
        /\ Advanced.node = find.node /\ Advanced.best = find.best
        /\ Advanced.method = find.method /\ Advanced.path = find.path
    BY <2>1 DEF Advanced, Finds
  <2>4. Advanced \in Finds
    BY <1>5, <1>6, <2>1, <2>2 DEF Advanced, Finds
  <2>5. find.searchIndex + Len(Matched) + Len(Rest) = Len(find.path)
    <3>1. find.searchIndex \in Nat /\ Len(find.search) \in Nat /\ Len(find.path) \in Nat
      BY FindFacts
    <3> QED
      BY <1>4, <1>5, <1>6, <2>1, <3>1
  <2> QED
    BY <2>3, <2>4, <2>5
<1> QED
  BY <1>1, <1>2, <1>3, <1>4, <1>5, <1>6

\* The steps of the loop.
LEMMA LoopStep ==
  ASSUME TypeInv, LinkInv, FindOK(pc, find),
         LoopBacktracks \/ LoopMatches \/ LoopPasses \/ LoopDescends
  PROVE  \E l \in FindLabels : \E f : FindOK(l, f) /\ Goes(l, f)
<1>1. pc = "loop"
  BY DEF LoopBacktracks, LoopMatches, LoopPasses, LoopDescends, AtEnd
<1>2. /\ find \in Finds /\ find.searchIndex + Len(find.search) = Len(find.path)
      /\ find.method \in Methods /\ find.node \in DOMAIN tree
      /\ find.node \in 0 .. Len(tree) /\ find.best \in 0 .. Len(tree)
  BY <1>1 DEF FindOK
<1>3. /\ Here = tree[find.node] /\ Here \in Nodes
      /\ Here.parent \in 0 .. Len(tree) /\ Here.statics \subseteq DOMAIN tree
      /\ Here.parent # NoNode => Here.parent \in DOMAIN tree
      /\ \A i \in DOMAIN tree : i \in 0 .. Len(tree)
  BY <1>2, LinkFacts DEF Here
<1>4. CASE LoopBacktracks
  <2> DEFINE l == IF Here.parent = NoNode THEN "done" ELSE "param"
             f == [find EXCEPT !.node = Here.parent]
  <2>1. l \in FindLabels
    BY DEF FindLabels
  <2>2. /\ f \in Finds /\ f.node = Here.parent /\ f.best = find.best /\ f.method = find.method
        /\ f.searchIndex = find.searchIndex /\ f.search = find.search /\ f.path = find.path
    <3>1. Here.parent \in Nat
      BY <1>3 DEF Nodes
    <3> QED
      BY <1>2, <3>1 DEF Finds
  <2>3. FindOK(l, f)
    <3> HIDE DEF f
    <3> QED
      BY <1>2, <1>3, <2>2 DEF FindOK
  <2>4. Goes(l, f)
    BY <1>4 DEF LoopBacktracks
  <2> QED
    BY <2>1, <2>3, <2>4
<1>5. CASE IsPrefix(Matched, find.search) /\ ~LoopBacktracks
  <2>1. /\ Advanced \in Finds /\ Advanced.searchIndex + Len(Advanced.search) = Len(Advanced.path)
        /\ Advanced.node = find.node /\ Advanced.best = find.best /\ Advanced.method = find.method
    BY <1>1, <1>5, MatchFacts
  <2>2. FirstBest(find) \in 0 .. Len(tree) /\ FirstBest(find) \in Nat
    <3>1. find.best \in Nat /\ find.node \in Nat
      BY <1>2 DEF Finds
    <3> QED
      BY <1>2, <3>1 DEF FirstBest
  <2>3. ASSUME NEW b \in {find.best, FirstBest(find)}, NEW rm \in RouteMethods, NEW n \in DOMAIN tree,
               NEW l \in {"loop", "param", "out"}
        PROVE  FindOK(l, [Advanced EXCEPT !.best = b, !.matched = rm, !.node = n])
    <3> DEFINE f == [Advanced EXCEPT !.best = b, !.matched = rm, !.node = n]
    <3>1. b \in Nat /\ n \in Nat /\ b \in 0 .. Len(tree) /\ n \in 0 .. Len(tree)
      <4>1. find.best \in Nat
        BY <1>2 DEF Finds
      <4>2. n \in Nat
        BY <1>3 DEF TypeInv
      <4> QED
        BY <1>2, <1>3, <2>2, <4>1, <4>2
    <3>2. /\ f \in Finds /\ f.node = n /\ f.best = b /\ f.method = find.method
          /\ f.searchIndex = Advanced.searchIndex /\ f.search = Advanced.search /\ f.path = Advanced.path
      BY <2>1, <3>1 DEF Finds
    <3> HIDE DEF f
    <3>3. FindOK(l, f)
      BY <1>2, <2>1, <3>1, <3>2 DEF FindOK
    <3> QED
      BY <3>3 DEF f
  <2>4. /\ Advanced.matched = find.matched /\ find.matched \in RouteMethods
        /\ Here.notFound \in RouteMethods /\ Here.methods[find.method] \in RouteMethods
    <3>1. Advanced.matched = find.matched
      BY <1>2 DEF Advanced, Finds
    <3> QED
      BY <1>2, <1>3, <3>1, FindFacts, NodeFacts
  <2>5. \A l : l \in {"loop", "param", "out"} => l \in FindLabels
    BY DEF FindLabels
  <2>6. CASE LoopMatches
    <3>1. CASE Goes("out", [Advanced EXCEPT !.best = FirstBest(find),
                                            !.matched = Here.methods[find.method]])
      <4> DEFINE f == [Advanced EXCEPT !.best = FirstBest(find), !.matched = Here.methods[find.method]]
      <4>1. f = [Advanced EXCEPT !.best = FirstBest(find), !.matched = Here.methods[find.method],
                                 !.node = find.node]
        BY <2>1 DEF Finds
      <4>2. FindOK("out", f)
        BY <1>2, <2>3, <2>4, <4>1
      <4> QED
        BY <2>5, <3>1, <4>2
    <3>2. CASE Goes("out", [Advanced EXCEPT !.matched = Here.notFound])
      <4> DEFINE f == [Advanced EXCEPT !.matched = Here.notFound]
      <4>1. f = [Advanced EXCEPT !.best = find.best, !.matched = Here.notFound, !.node = find.node]
        BY <2>1 DEF Finds
      <4>2. FindOK("out", f)
        BY <1>2, <2>3, <2>4, <4>1
      <4> QED
        BY <2>5, <3>2, <4>2
    <3> QED
      BY <2>6, <3>1, <3>2 DEF LoopMatches
  <2>7. CASE LoopPasses
    <3> DEFINE b == IF Here.isHandler THEN FirstBest(find) ELSE find.best
               f == [Advanced EXCEPT !.best = b]
    <3>1. f = [Advanced EXCEPT !.best = b, !.matched = find.matched, !.node = find.node]
      BY <2>1, <2>4 DEF Finds
    <3>2. FindOK("param", f)
      BY <1>2, <2>3, <2>4, <3>1
    <3>3. Goes("param", f)
      BY <2>1, <2>7 DEF LoopPasses
    <3> QED
      BY <2>5, <3>2, <3>3
  <2>8. CASE LoopDescends
    <3>1. PICK c : c = StaticChild(Here, Rest[1])
      OBVIOUS
    <3>2. CASE c # NoNode
      <4>1. c \in DOMAIN tree
        BY <1>3, <3>1, <3>2 DEF StaticChild
      <4> DEFINE f == [Advanced EXCEPT !.node = c]
      <4>2. f = [Advanced EXCEPT !.best = find.best, !.matched = find.matched, !.node = c]
        BY <2>1, <2>4 DEF Finds
      <4>3. FindOK("loop", f)
        BY <1>2, <2>3, <2>4, <4>1, <4>2
      <4>4. Goes("loop", f)
        BY <2>8, <3>1, <3>2 DEF LoopDescends
      <4> QED
        BY <2>5, <4>3, <4>4
    <3>3. CASE c = NoNode
      <4>1. Advanced = [Advanced EXCEPT !.best = find.best, !.matched = find.matched, !.node = find.node]
        BY <2>1, <2>4 DEF Finds
      <4>2. FindOK("param", Advanced)
        BY <1>2, <2>3, <2>4, <4>1
      <4>3. Goes("param", Advanced)
        BY <2>8, <3>1, <3>3 DEF LoopDescends
      <4> QED
        BY <2>5, <4>2, <4>3
    <3> QED
      BY <3>2, <3>3
  <2> QED
    BY <1>5, <2>6, <2>7, <2>8
<1> QED
  BY <1>4, <1>5 DEF LoopMatches, LoopPasses, LoopDescends, AtEnd

\* A parameter takes a part of what is left.
LEMMA ParamStep ==
  ASSUME TypeInv, LinkInv, FindOK(pc, find), ParamTakes \/ ParamPasses
  PROVE  \E l \in FindLabels : \E f : FindOK(l, f) /\ Goes(l, f)
<1>1. pc = "param"
  BY DEF ParamTakes, ParamPasses
<1>2. /\ find \in Finds /\ find.searchIndex + Len(find.search) = Len(find.path)
      /\ find.method \in Methods /\ find.node \in DOMAIN tree
      /\ find.node \in 0 .. Len(tree) /\ find.best \in 0 .. Len(tree)
  BY <1>1 DEF FindOK
<1>3. CASE ParamPasses
  <2>1. FindOK("any", find) /\ Goes("any", find) /\ "any" \in FindLabels
    BY <1>2, <1>3 DEF FindOK, ParamPasses, FindLabels
  <2> QED
    BY <2>1
<1>4. CASE ParamTakes
  <2>1. PICK c : c = Here.param
    OBVIOUS
  <2>2. PICK i : i = IF tree[c].isLeaf THEN Len(find.search) ELSE Next1(find.search, 1, {"/"}) - 1
    OBVIOUS
  <2>3. PICK p : p = find.paramIndex + 1
    OBVIOUS
  <2>4. c \in DOMAIN tree /\ c \in 0 .. Len(tree) /\ c \in Nat
    BY <1>2, <1>4, <2>1, LinkFacts DEF Here, ParamTakes
  <2>5. find.search \in Seq(Characters) /\ Len(find.search) \in Nat /\ find.searchIndex \in Nat
        /\ Len(find.path) \in Nat /\ find.pvalues \in Seq(Seq(Characters)) /\ find.paramIndex \in Nat
    BY FindFacts
  <2>6. i \in 0 .. Len(find.search)
    <3>1. 1 \in Nat \ {0}
      OBVIOUS
    <3>2. Next1(find.search, 1, {"/"}) \in 1 .. Len(find.search) + 1
      BY <2>5, <3>1, Next1Facts
    <3> QED
      BY <2>2, <2>5, <3>2
  <2>7. CASE p > Len(find.pvalues)
    <3>1. Goes("panic", find) /\ FindOK("panic", find) /\ "panic" \in FindLabels
      BY <1>2, <1>4, <2>3, <2>7 DEF ParamTakes, FindOK, FindLabels
    <3> QED
      BY <3>1
  <2>8. CASE ~(p > Len(find.pvalues))
    <3> DEFINE f == [find EXCEPT !.node = c, !.pvalues[p] = Take(find.search, i),
                                 !.paramIndex = p, !.searchIndex = @ + i,
                                 !.search = Drop(find.search, i)]
    <3>1. Goes("loop", f)
      BY <1>4, <2>1, <2>2, <2>3, <2>8 DEF ParamTakes
    <3>2. p \in DOMAIN find.pvalues /\ p \in Nat
      BY <2>3, <2>5, <2>8
    <3>3. /\ Take(find.search, i) \in Seq(Characters)
          /\ Drop(find.search, i) \in Seq(Characters) /\ Len(Drop(find.search, i)) = Len(find.search) - i
      BY <2>5, <2>6, TakeFacts, DropFacts
    <3>4. [find.pvalues EXCEPT ![p] = Take(find.search, i)] \in Seq(Seq(Characters))
      BY <2>5, <3>2, <3>3
    <3>5. find.searchIndex + i \in Nat
          /\ find.searchIndex + i + (Len(find.search) - i) = Len(find.path)
      <4>1. PICK x, l, q : x = find.searchIndex /\ l = Len(find.search) /\ q = Len(find.path)
        OBVIOUS
      <4>2. x \in Nat /\ l \in Nat /\ i \in 0 .. l /\ x + l = q
        BY <1>2, <2>5, <2>6, <4>1
      <4>3. x + i \in Nat /\ x + i + (l - i) = q
        BY ONLY <4>2
      <4> QED
        BY <4>1, <4>3
    <3>6. /\ f \in Finds /\ f.node = c /\ f.best = find.best /\ f.method = find.method
          /\ f.searchIndex = find.searchIndex + i /\ f.search = Drop(find.search, i) /\ f.path = find.path
      BY <1>2, <2>4, <3>2, <3>3, <3>4, <3>5 DEF Finds
    <3> HIDE DEF f
    <3>7. FindOK("loop", f) /\ "loop" \in FindLabels
      BY <1>2, <2>4, <3>3, <3>5, <3>6 DEF FindOK, FindLabels
    <3> QED
      BY <3>1, <3>7
  <2> QED
    BY <2>7, <2>8
<1> QED
  BY <1>3, <1>4

\* Backtracking gives up a node.
LEMMA BacktrackStep ==
  ASSUME TypeInv, LinkInv, NEW f, FindOK("any", f), Backtrack(f)
  PROVE  \E l \in FindLabels : \E g : FindOK(l, g) /\ Goes(l, g)
<1>1. /\ f \in Finds /\ f.searchIndex + Len(f.search) = Len(f.path)
      /\ f.method \in Methods /\ f.node \in DOMAIN tree
      /\ f.node \in 0 .. Len(tree) /\ f.best \in 0 .. Len(tree)
  BY DEF FindOK
<1>2. PICK n : n = tree[f.node]
  OBVIOUS
<1>3. /\ n \in Nodes /\ n.kind \in Kinds /\ Len(n.prefix) \in Nat /\ n.parent \in 0 .. Len(tree)
      /\ n.parent \in Nat /\ (n.parent # NoNode => n.parent \in DOMAIN tree)
  <2>1. n \in Nodes /\ n.parent \in 0 .. Len(tree) /\ (n.parent # NoNode => n.parent \in DOMAIN tree)
    BY <1>1, <1>2, LinkFacts
  <2>2. n.parent \in Nat
    BY <2>1 DEF Nodes
  <2> QED
    BY <2>1, <2>2, NodeFacts
<1>4. /\ f.search \in Seq(Characters) /\ f.path \in Seq(Characters) /\ f.searchIndex \in Nat
      /\ f.paramIndex \in Nat /\ f.pvalues \in Seq(Seq(Characters))
  BY <1>1 DEF Finds
<1>5. Len(f.search) \in Nat /\ Len(f.path) \in Nat
  BY <1>4
<1> DEFINE wrong == \/ n.kind # "static" /\ f.paramIndex \notin DOMAIN f.pvalues
                    \/ f.searchIndex < Taken(f, n)
<1>6. CASE wrong
  <2>1. Goes("panic", f)
    BY <1>2, <1>6 DEF Backtrack
  <2>2. FindOK("panic", f) /\ "panic" \in FindLabels
    BY <1>1 DEF FindOK, FindLabels
  <2> QED
    BY <2>1, <2>2
<1>7. CASE ~wrong
  <2>1. PICK l : l = IF n.parent = NoNode \/ NextKind(n) = "static" THEN "out" ELSE NextKind(n)
    OBVIOUS
  <2>2. Goes(l, Restored(f, n))
    BY <1>2, <1>7, <2>1 DEF Backtrack
  <2>3. l \in {"out", "param", "any"} /\ (l # "out" => n.parent # NoNode)
    BY <1>3, <2>1 DEF NextKind, Kinds
  <2>4. n.kind # "static" => f.paramIndex \in DOMAIN f.pvalues
    BY <1>7
  <2>5. PICK x : x = Taken(f, n)
    OBVIOUS
  <2>6. x \in Nat
    <3>1. CASE n.kind = "static"
      BY <1>3, <2>5, <3>1 DEF Taken
    <3>2. CASE n.kind # "static"
      <4>1. f.pvalues[f.paramIndex] \in Seq(Characters)
        BY <1>4, <2>4, <3>2
      <4> QED
        BY <2>5, <3>2, <4>1 DEF Taken
    <3> QED
      BY <3>1, <3>2
  <2>7. PICK start : start = f.searchIndex - x
    OBVIOUS
  <2>8. start \in Nat /\ start \in 0 .. Len(f.path)
    BY <1>1, <1>4, <1>5, <1>7, <2>5, <2>6, <2>7
  <2>9. Drop(f.path, start) \in Seq(Characters) /\ start + Len(Drop(f.path, start)) = Len(f.path)
    <3>1. Drop(f.path, start) \in Seq(Characters) /\ Len(Drop(f.path, start)) = Len(f.path) - start
      BY <1>4, <2>8, DropFacts
    <3> QED
      BY <1>5, <2>8, <3>1
  <2> DEFINE g == [f EXCEPT !.node = n.parent, !.searchIndex = start, !.search = Drop(f.path, start)]
             h == [g EXCEPT !.paramIndex = f.paramIndex - 1,
                            !.pvalues = [f.pvalues EXCEPT ![f.paramIndex] = <<>>]]
  <2>10. /\ g \in Finds /\ g.node = n.parent /\ g.best = f.best /\ g.method = f.method
         /\ g.searchIndex = start /\ g.search = Drop(f.path, start) /\ g.path = f.path
         /\ g.paramIndex = f.paramIndex /\ g.pvalues = f.pvalues
    BY <1>1, <1>3, <2>8, <2>9 DEF Finds
  <2>11. Restored(f, n) = IF n.kind = "static" THEN g ELSE h
    BY <2>5, <2>7, <2>10 DEF Restored, Finds
  <2>12. n.kind # "static" =>
           /\ h \in Finds /\ h.node = g.node /\ h.best = g.best /\ h.method = g.method
           /\ h.searchIndex = g.searchIndex /\ h.search = g.search /\ h.path = g.path
    <3> HIDE DEF g
    <3> SUFFICES ASSUME n.kind # "static"
                 PROVE  /\ h \in Finds /\ h.node = g.node /\ h.best = g.best /\ h.method = g.method
                        /\ h.searchIndex = g.searchIndex /\ h.search = g.search /\ h.path = g.path
      OBVIOUS
    <3>1. f.paramIndex - 1 \in Nat
      BY <1>4, <2>4
    <3>2. [f.pvalues EXCEPT ![f.paramIndex] = <<>>] \in Seq(Seq(Characters))
      <4>1. <<>> \in Seq(Characters)
        OBVIOUS
      <4> QED
        BY <1>4, <2>4, <4>1
    <3> QED
      BY <2>10, <3>1, <3>2 DEF Finds
  <2> HIDE DEF g, h
  <2>13. FindOK(l, Restored(f, n))
    BY <1>1, <1>3, <2>3, <2>9, <2>10, <2>11, <2>12 DEF FindOK
  <2>14. l \in FindLabels
    BY <2>3 DEF FindLabels
  <2> QED
    BY <2>2, <2>13, <2>14
<1> QED
  BY <1>6, <1>7

\* A wildcard takes all that is left, or Find goes back.
LEMMA AnyStep ==
  ASSUME TypeInv, LinkInv, FindOK(pc, find), AnyTakes \/ AnyBacktracks
  PROVE  \E l \in FindLabels : \E f : FindOK(l, f) /\ Goes(l, f)
<1>1. pc = "any"
  BY DEF AnyTakes, AnyBacktracks
<1>2. /\ find \in Finds /\ find.searchIndex + Len(find.search) = Len(find.path)
      /\ find.method \in Methods /\ find.node \in DOMAIN tree
      /\ find.node \in 0 .. Len(tree) /\ find.best \in 0 .. Len(tree)
  BY <1>1 DEF FindOK
<1>3. CASE AnyBacktracks
  BY <1>1, <1>3, BacktrackStep DEF AnyBacktracks
<1>4. CASE AnyTakes
  <2>1. PICK c : c = Here.any
    OBVIOUS
  <2>2. PICK n : n = tree[c]
    OBVIOUS
  <2>3. c \in DOMAIN tree /\ c \in 0 .. Len(tree) /\ c \in Nat
    <3>1. c = tree[find.node].any /\ c # NoNode
      BY <1>4, <2>1 DEF Here, AnyTakes
    <3>2. c \in DOMAIN tree /\ c \in 0 .. Len(tree)
      BY <1>2, <3>1, LinkFacts
    <3>3. DOMAIN tree \subseteq Nat
      BY DEF TypeInv
    <3> QED
      BY <3>2, <3>3
  <2>4. n \in Nodes
    BY <2>2, <2>3, LinkFacts
  <2>5. n.methods[find.method] \in RouteMethods /\ n.notFound \in RouteMethods
    BY <1>2, <2>4, NodeFacts
  <2>6. find.search \in Seq(Characters) /\ Len(find.search) \in Nat /\ find.searchIndex \in Nat
        /\ Len(find.path) \in Nat /\ find.pvalues \in Seq(Seq(Characters)) /\ find.paramIndex \in Nat
    BY FindFacts
  <2> DEFINE f == [find EXCEPT !.node = c, !.pvalues[n.paramsCount] = find.search,
                           !.paramIndex = @ + 1, !.search = <<>>,
                           !.searchIndex = @ + Len(find.search)]
             b == [f EXCEPT !.best = FirstBest(f)]
  <2>7. CASE n.paramsCount \notin DOMAIN find.pvalues
    <3>1. Goes("panic", find)
      BY <1>4, <2>1, <2>2, <2>7 DEF AnyTakes
    <3>2. FindOK("panic", find) /\ "panic" \in FindLabels
      BY <1>2 DEF FindOK, FindLabels
    <3> QED
      BY <3>1, <3>2
  <2>8. CASE n.paramsCount \in DOMAIN find.pvalues
    <3>1. \/ Goes("out", [f EXCEPT !.matched = n.methods[find.method]])
          \/ Goes("out", [b EXCEPT !.matched = n.notFound])
          \/ Backtrack(b)
      <4>1. n.methods[find.method] # NoRoute => Goes("out", [f EXCEPT !.matched = n.methods[find.method]])
        BY <1>4, <2>1, <2>2, <2>8 DEF AnyTakes
      <4>2. n.methods[find.method] = NoRoute /\ n.notFound # NoRoute =>
              Goes("out", [b EXCEPT !.matched = n.notFound])
        BY <1>4, <2>1, <2>2, <2>8 DEF AnyTakes
      <4>3. n.methods[find.method] = NoRoute /\ n.notFound = NoRoute => Backtrack(b)
        BY <1>4, <2>1, <2>2, <2>8 DEF AnyTakes
      <4> QED
        BY <4>1, <4>2, <4>3
    <3>2. [find.pvalues EXCEPT ![n.paramsCount] = find.search] \in Seq(Seq(Characters))
      BY <2>6, <2>8
    <3>3. find.searchIndex + Len(find.search) \in Nat /\ find.paramIndex + 1 \in Nat
          /\ <<>> \in Seq(Characters)
          /\ find.searchIndex + Len(find.search) + 0 = Len(find.path)
      <4>1. PICK x, l, q, k : /\ x = find.searchIndex /\ l = Len(find.search) /\ q = Len(find.path)
                              /\ k = find.paramIndex
        OBVIOUS
      <4>2. x \in Nat /\ l \in Nat /\ k \in Nat /\ x + l = q
        BY <1>2, <2>6, <4>1
      <4>3. x + l \in Nat /\ k + 1 \in Nat /\ x + l + 0 = q
        BY ONLY <4>2
      <4>4. <<>> \in Seq(Characters)
        OBVIOUS
      <4> QED
        BY <4>1, <4>3, <4>4
    <3>4. /\ f \in Finds /\ f.node = c /\ f.best = find.best /\ f.method = find.method
          /\ f.searchIndex = find.searchIndex + Len(find.search) /\ f.search = <<>> /\ f.path = find.path
      BY <1>2, <2>3, <3>2, <3>3 DEF Finds
    <3>5. f.searchIndex + Len(f.search) = Len(f.path) /\ f.best \in Nat
      <4>1. Len(<<>>) = 0 /\ find.best \in Nat
        BY FindFacts
      <4> QED
        BY <3>3, <3>4, <4>1
    <3> HIDE DEF f
    <3>6. /\ b \in Finds /\ b.node = c /\ b.method = find.method /\ b.best \in 0 .. Len(tree)
          /\ b.searchIndex = f.searchIndex /\ b.search = f.search /\ b.path = f.path
      <4>1. FirstBest(f) \in 0 .. Len(tree) /\ FirstBest(f) \in Nat
        BY <1>2, <2>3, <3>4, <3>5 DEF FirstBest
      <4> QED
        BY <3>4, <4>1 DEF Finds
    <3> HIDE DEF b
    <3>7. \A g, rm : g \in Finds /\ rm \in RouteMethods =>
            /\ [g EXCEPT !.matched = rm] \in Finds /\ [g EXCEPT !.matched = rm].node = g.node
            /\ [g EXCEPT !.matched = rm].best = g.best /\ [g EXCEPT !.matched = rm].method = g.method
      BY DEF Finds
    <3>8. CASE Goes("out", [f EXCEPT !.matched = n.methods[find.method]])
      <4>1. FindOK("out", [f EXCEPT !.matched = n.methods[find.method]]) /\ "out" \in FindLabels
        BY <1>2, <2>3, <2>5, <3>4, <3>7 DEF FindOK, FindLabels
      <4> QED
        BY <3>8, <4>1
    <3>9. CASE Goes("out", [b EXCEPT !.matched = n.notFound])
      <4>1. FindOK("out", [b EXCEPT !.matched = n.notFound]) /\ "out" \in FindLabels
        BY <1>2, <2>3, <2>5, <3>6, <3>7 DEF FindOK, FindLabels
      <4> QED
        BY <3>9, <4>1
    <3>10. CASE Backtrack(b)
      <4>1. FindOK("any", b)
        BY <1>2, <2>3, <3>5, <3>6 DEF FindOK
      <4> QED
        BY <3>10, <4>1, BacktrackStep
    <3> QED
      BY <3>1, <3>8, <3>9, <3>10
  <2> QED
    BY <2>7, <2>8
<1> QED
  BY <1>3, <1>4

\* Find begins.
LEMMA NewFindFacts ==
  ASSUME TypeInv, NEW m \in Methods \cup {"none"}, NEW t \in Seq(Characters)
  PROVE  /\ NewFind(m, t) \in Finds /\ NewFind(m, t).node = Root /\ NewFind(m, t).best = NoNode
         /\ NewFind(m, t).method = m
         /\ NewFind(m, t).searchIndex + Len(NewFind(m, t).search) = Len(NewFind(m, t).path)
         /\ NoFind \in Finds /\ NoFind.node = Root /\ NoFind.best = NoNode
<1>1. maxParam \in Nat /\ <<>> \in Seq(Characters)
  BY DEF TypeInv
<1>2. [i \in 1 .. maxParam |-> <<>>] \in Seq(Seq(Characters)) /\ <<>> \in Seq(Seq(Characters))
  BY <1>1
<1>3. NoRoute \in RouteMethods
  BY DEF RouteMethods
<1>4. ASSUME NEW k \in Methods \cup {"none"}, NEW s \in Seq(Characters)
      PROVE  /\ NewFind(k, s) \in Finds /\ NewFind(k, s).node = Root /\ NewFind(k, s).best = NoNode
             /\ NewFind(k, s).method = k /\ NewFind(k, s).searchIndex = 0
             /\ NewFind(k, s).search = s /\ NewFind(k, s).path = s
  BY <1>2, <1>3, <1>4 DEF NewFind, Finds, Root, NoNode
<1>5. NoFind \in Finds /\ NoFind.node = Root /\ NoFind.best = NoNode
  <2>1. PICK f : f = NewFind("none", <<>>)
    OBVIOUS
  <2>2. f \in Finds /\ f.node = Root /\ f.best = NoNode
    <3>1. PICK k, s : k = "none" /\ s = <<>>
      OBVIOUS
    <3>2. k \in Methods \cup {"none"} /\ s \in Seq(Characters) /\ f = NewFind(k, s)
      BY <1>1, <2>1, <3>1
    <3> QED
      BY <1>4, <3>2
  <2> QED
    BY <1>2, <2>1, <2>2 DEF NoFind, Finds
<1>6. 0 + Len(t) = Len(t)
  <2>1. Len(t) \in Nat
    OBVIOUS
  <2> QED
    BY <2>1
<1> QED
  BY <1>4, <1>5, <1>6

\* Find ends, and the context is used.
LEMMA EndStep ==
  ASSUME TypeInv, LinkInv, FindOK(pc, find), Out \/ Use
  PROVE  \E l \in FindLabels : \E f : FindOK(l, f) /\ Goes(l, f)
<1>1. find \in Finds /\ find.node \in 0 .. Len(tree) /\ find.best \in 0 .. Len(tree)
  BY DEF FindOK
<1>2. CASE Use
  <2>1. NoFind \in Finds /\ NoFind.node = Root /\ NoFind.best = NoNode
    BY NewFindFacts, "none" \in Methods \cup {"none"}, <<>> \in Seq(Characters)
  <2>2. Root \in 0 .. Len(tree) /\ NoNode \in 0 .. Len(tree)
    BY DEF TypeInv, Root, NoNode
  <2>3. FindOK("idle", NoFind) /\ Goes("idle", NoFind) /\ "idle" \in FindLabels
    BY <1>2, <2>1, <2>2 DEF FindOK, Use, FindLabels
  <2> QED
    BY <2>3
<1>3. CASE Out
  <2>1. ASSUME NEW rm \in RouteMethods PROVE FindOK("done", Found(rm))
    <3>1. /\ Found(rm) \in Finds /\ Found(rm).node = find.node /\ Found(rm).best = find.best
      BY <1>1, <2>1, RouteFacts DEF Found, Finds
    <3> QED
      BY <1>1, <3>1 DEF FindOK
  <2>2. "done" \in FindLabels /\ "panic" \in FindLabels
    BY DEF FindLabels
  <2>3. CASE find.matched # NoRoute
    <3>1. Goes("done", Found(find.matched))
      BY <1>3, <2>3 DEF Out
    <3> QED
      BY <2>1, <2>2, <3>1, FindFacts
  <2>4. CASE find.matched = NoRoute /\ find.best = NoNode
    <3>1. Goes(IF find.node = NoNode THEN "done" ELSE "panic", find)
      BY <1>3, <2>4 DEF Out
    <3>2. FindOK("done", find) /\ FindOK("panic", find)
      BY <1>1 DEF FindOK
    <3> QED
      BY <2>2, <3>1, <3>2
  <2>5. CASE find.matched = NoRoute /\ find.best # NoNode
    <3>1. PICK b : b = tree[find.best]
      OBVIOUS
    <3>2. b \in Nodes
      <4>1. find.best \in DOMAIN tree
        BY <1>1, <2>5 DEF TypeInv, NoNode
      <4> QED
        BY <3>1, <4>1, LinkFacts
    <3> DEFINE f == [find EXCEPT !.handler = IF b.isHandler THEN "MethodNotAllowed" ELSE "NotFound",
                                 !.rpath = b.originalPath, !.pnames = <<>>]
    <3>3. Goes("done", IF b.notFound # NoRoute THEN Found(b.notFound) ELSE f)
      BY <1>3, <2>5, <3>1 DEF Out
    <3>4. f \in Finds /\ f.node = find.node /\ f.best = find.best
      <4>1. b.originalPath \in Seq(Characters) /\ <<>> \in Seq(Seq(Characters))
        BY <3>2, NodeFacts
      <4> QED
        BY <1>1, <4>1 DEF Finds
    <3>5. FindOK("done", f)
      <4> HIDE DEF f
      <4> QED
        BY <1>1, <3>4 DEF FindOK
    <3>6. FindOK("done", Found(b.notFound))
      BY <2>1, <3>2, NodeFacts
    <3> QED
      BY <2>2, <3>3, <3>5, <3>6
  <2> QED
    BY <2>3, <2>4, <2>5
<1> QED
  BY <1>2, <1>3

-----------------------------------------------------------------------------
(* The inductive invariant *)

RouterInv == FindOK(pc, find) /\ \E w : Inv(w)

\* The router starts with an empty root.
LEMMA InitInv == Init => RouterInv
<1> SUFFICES ASSUME Init PROVE RouterInv
  OBVIOUS
<1>1. PICK n : n = NewNode("static", <<>>, NoNode, <<>>)
  OBVIOUS
<1>2. /\ n \in Nodes /\ n.prefix = <<>> /\ n.parent = NoNode /\ IsLeafNode(n)
  <2>1. "static" \in Kinds /\ <<>> \in Seq(Characters) /\ NoNode \in Nat
    BY DEF Kinds, NoNode
  <2>2. PICK k, s : k = "static" /\ s = <<>>
    OBVIOUS
  <2>3. k \in Kinds /\ s \in Seq(Characters) /\ n = NewNode(k, s, NoNode, s)
    BY <1>1, <2>1, <2>2
  <2>4. n \in Nodes /\ n.prefix = s /\ n.parent = NoNode /\ IsLeafNode(n)
    BY ONLY <2>1, <2>3, NewNodeFacts
  <2> QED
    BY <2>2, <2>4
<1>3. PICK r : r = [n EXCEPT !.isLeaf = FALSE]
  OBVIOUS
<1>4. /\ r \in Nodes /\ r.prefix = <<>> /\ r.parent = NoNode /\ IsLeafNode(r)
      /\ Kids(r) = {} /\ r.param = NoNode /\ r.any = NoNode
  BY <1>2, <1>3 DEF Nodes, IsLeafNode, Kids
<1>5. tree = <<r>>
  BY <1>1, <1>3 DEF Init
<1>6. /\ tree \in Seq(Nodes) /\ tree # <<>> /\ Len(tree) = 1 /\ DOMAIN tree = {Root} /\ tree[Root] = r
  BY <1>4, <1>5 DEF Root
<1>7. NoAdd \in Adds /\ NoCur \in [node : Nat, search : Seq(Characters)]
  BY DEF NoAdd, Adds, NoCur, Root
<1>8. NoFind \in Finds /\ NoFind.node = Root /\ NoFind.best = NoNode
  <2>1. NewFind("none", <<>>) \in Finds /\ NewFind("none", <<>>).node = Root
        /\ NewFind("none", <<>>).best = NoNode
    <3>1. NoRoute \in RouteMethods /\ <<>> \in Seq(Characters)
      BY DEF RouteMethods
    <3>2. [i \in 1 .. maxParam |-> <<>>] \in Seq(Seq(Characters))
      BY DEF Init
    <3> QED
      BY <3>1, <3>2 DEF NewFind, Finds, Root, NoNode
  <2>2. PICK f : f = NewFind("none", <<>>)
    OBVIOUS
  <2>3. <<>> \in Seq(Seq(Characters))
    OBVIOUS
  <2> QED
    BY <2>1, <2>2, <2>3 DEF NoFind, Finds
<1>9. TypeInv
  BY <1>6, <1>7, <1>8 DEF TypeInv, Init
<1>10. AddInv /\ pc # "insert"
  BY DEF AddInv, Init
<1>11. LinkInv
  BY <1>4, <1>6 DEF LinkInv
<1>12. PICK w : w = [i \in {Root} |-> <<>>]
  OBVIOUS
<1>13. w \in [{Root} -> Seq(Characters)] /\ w[Root] = <<>>
  BY <1>12
<1>14. StartIn(tree, w, Root) = 0
  BY <1>4, <1>6, <1>13 DEF StartIn
<1>15. WordInv(w)
  BY <1>4, <1>6, <1>13, <1>14 DEF WordInv, WordsOf
<1>16. TreeTrie(w)
  <2> DEFINE st == [i \in DOMAIN tree |-> StartIn(tree, w, i)]
             L == [i \in DOMAIN tree |-> LabelsIn(tree, i)]
  <2> HIDE DEF st, L
  <2>1. Len(w[Root]) = 0
    BY <1>13
  <2>2. Trie({Root}, w, st, L)
    BY <2>1 DEF Trie, Distinct, Through, Onward, Agree
  <2> QED
    BY <1>6, <2>2 DEF TreeTrie, TrieOf, st, L
<1>17. WalkInv(w)
  BY <1>10 DEF WalkInv
<1>18. FindOK(pc, find)
  BY <1>6, <1>8 DEF FindOK, Init, Root, NoNode
<1> QED
  BY <1>9, <1>10, <1>11, <1>15, <1>16, <1>17, <1>18 DEF RouterInv, Inv

\* A step that leaves the tree alone keeps its invariant.
LEMMA SameTree ==
  ASSUME NEW w, Inv(w), UNCHANGED tree, TypeInv', AddInv', WalkInv(w)'
  PROVE  Inv(w)'
<1>1. LinkInv'
  BY DEF Inv, LinkInv
<1>2. WordInv(w)'
  BY DEF Inv, WordInv
<1>3. TreeTrie(w)'
  BY DEF Inv, TreeTrie
<1> QED
  BY <1>1, <1>2, <1>3 DEF Inv

\* Find's variables while Add runs.
LEMMA FindIdle ==
  ASSUME TypeInv, FindOK(pc, find), tree' \in Seq(Nodes), Len(tree') >= Len(tree), UNCHANGED find,
         pc' \in {"idle", "scan", "insert", "register"}
  PROVE  FindOK(pc, find)'
<1>1. Len(tree) \in Nat /\ Len(tree') \in Nat
  BY DEF TypeInv
<1>2. find \in Finds /\ find.node \in 0 .. Len(tree) /\ find.best \in 0 .. Len(tree)
  BY DEF FindOK
<1>3. find.node \in 0 .. Len(tree') /\ find.best \in 0 .. Len(tree')
  BY <1>1, <1>2
<1> QED
  BY <1>2, <1>3 DEF FindOK

\* A step of Find.
LEMMA FindStep ==
  ASSUME NEW w, Inv(w), NEW l \in FindLabels, NEW f, FindOK(l, f), Goes(l, f)
  PROVE  Inv(w)' /\ FindOK(pc, find)'
<1>1. /\ TypeInv' /\ AddInv' /\ FindOK(pc, find)' /\ pc' \in FindLabels
      /\ UNCHANGED <<tree, maxParam, routes, add, calls, cur>>
  BY GoesStep DEF Inv
<1>2. WalkInv(w)'
  BY <1>1 DEF WalkInv, FindLabels
<1>3. Inv(w)'
  BY <1>1, <1>2, SameTree
<1> QED
  BY <1>1, <1>3

\* Add begins.
LEMMA AddStep ==
  ASSUME NEW w, Inv(w), FindOK(pc, find), NEW r \in Routes, Add(r[1], r[2])
  PROVE  Inv(w)' /\ FindOK(pc, find)'
<1> USE DEF Inv
<1>1. r = <<r[1], r[2]>> /\ r[1] \in AnyMethod /\ r[2] \in Seq(Characters)
  BY PathsAssumption DEF AnyMethod
<1>2. PICK p : p = Rooted(r[2])
  OBVIOUS
<1>3. p \in Seq(Characters) /\ p # <<>> /\ p[1] = "/"
  BY <1>1, <1>2, RootedFacts
<1>4. /\ pc' = "scan" /\ UNCHANGED <<tree, maxParam, routes, calls, cur, find>>
      /\ add' = [method |-> r[1], topic |-> r[2], ppath |-> p, path |-> p, i |-> 1, pnames |-> <<>>]
  BY <1>2 DEF Add
<1>5. add' \in Adds
  BY <1>1, <1>3, <1>4 DEF Adds
<1>6. TypeInv'
  BY <1>4, <1>5 DEF TypeInv
<1>7. AddInv'
  BY <1>1, <1>2, <1>3, <1>4 DEF AddInv
<1>8. WalkInv(w)'
  BY <1>4 DEF WalkInv
<1>9. Inv(w)'
  BY <1>4, <1>6, <1>7, <1>8, SameTree
<1>10. FindOK(pc, find)'
  BY <1>4, FindIdle DEF TypeInv
<1> QED
  BY <1>9, <1>10

\* The route is recorded.
LEMMA RegisteredStep ==
  ASSUME NEW w, Inv(w), FindOK(pc, find), Registered
  PROVE  Inv(w)' /\ FindOK(pc, find)'
<1> USE DEF Inv
<1>1. /\ pc' = "idle" /\ add' = NoAdd /\ UNCHANGED <<tree, maxParam, calls, cur, find>>
      /\ routes' = routes \cup {<<add.method, add.topic>>} /\ pc = "register"
  BY DEF Registered
<1>2. routes' \in SUBSET Routes
  BY <1>1 DEF TypeInv, AddInv
<1>3. NoAdd \in Adds
  BY DEF NoAdd, Adds
<1>4. TypeInv'
  BY <1>1, <1>2, <1>3 DEF TypeInv
<1>5. AddInv' /\ WalkInv(w)'
  BY <1>1 DEF AddInv, WalkInv
<1>6. Inv(w)'
  BY <1>1, <1>4, <1>5, SameTree
<1>7. FindOK(pc, find)'
  BY <1>1, FindIdle DEF TypeInv
<1> QED
  BY <1>6, <1>7

\* Add calls insert.
LEMMA ScanStep ==
  ASSUME NEW w, Inv(w), FindOK(pc, find), ScanEscape \/ ScanParam \/ ScanAny \/ ScanEnd
  PROVE  Inv(w)' /\ FindOK(pc, find)'
<1> USE DEF Inv
<1>1. CASE ScanEscape
  <2>1. TypeInv' /\ AddInv'
    BY <1>1, ScanEscapeStep
  <2>2. UNCHANGED <<tree, find>> /\ pc' = "scan"
    BY <1>1 DEF ScanEscape, Scanning
  <2>3. WalkInv(w)'
    BY <2>2 DEF WalkInv
  <2>4. Inv(w)'
    BY <2>1, <2>2, <2>3, SameTree
  <2>5. FindOK(pc, find)'
    BY <2>2, FindIdle DEF TypeInv
  <2> QED
    BY <2>4, <2>5
<1>2. CASE ScanParam \/ ScanAny \/ ScanEnd
  <2>1. /\ TypeInv' /\ AddInv' /\ pc' = "insert" /\ calls'[1].kind = "static"
        /\ cur' = [node |-> Root, search |-> calls'[1].path]
        /\ UNCHANGED <<tree, find>>
    BY <1>2, ScanParamStep, ScanAnyStep, ScanEndStep
  <2>2. WordsOf(tree', w)
    BY <2>1 DEF WordInv
  <2>3. WalkInv(w)'
    BY <2>1, <2>2, StartWalk
  <2>4. Inv(w)'
    BY <2>1, <2>3, SameTree
  <2>5. FindOK(pc, find)'
    BY <2>1, FindIdle DEF TypeInv
  <2> QED
    BY <2>4, <2>5
<1> QED
  BY <1>1, <1>2

\* insert has left a tree whose words are v, and returns.
LEMMA ReturnStep ==
  ASSUME NEW w, Inv(w), FindOK(pc, find), pc = "insert",
         NEW v, Returns(tree'), Len(tree') >= Len(tree), TypeInv', AddInv', LinkInv',
         WordsOf(tree', v), TrieOf(tree', v), HasNode(DOMAIN tree', v, Now.path)
  PROVE  Inv(v)' /\ FindOK(pc, find)'
<1>1. WalkInv(v)'
  BY ReturnWalk DEF Inv
<1>2. WordInv(v)' /\ TreeTrie(v)'
  BY DEF WordInv, TreeTrie
<1>3. Inv(v)'
  BY <1>1, <1>2 DEF Inv
<1>4. UNCHANGED find /\ pc' \in {"insert", "scan", "register"}
  BY ReturnsStep DEF Inv, TypeInv
<1>5. FindOK(pc, find)'
  BY <1>4, FindIdle DEF Inv, TypeInv
<1> QED
  BY <1>3, <1>5

\* insert changes the tree and returns.
LEMMA InsertStep ==
  ASSUME NEW w, Inv(w), FindOK(pc, find),
         InsertAtRoot \/ InsertSplit \/ InsertFork \/ InsertDeeper \/ InsertChild \/ InsertExists
  PROVE  RouterInv'
<1>1. pc = "insert"
  BY DEF InsertAtRoot, InsertSplit, InsertFork, InsertDeeper, InsertChild, InsertExists, Below, Inserting
<1>2. CASE InsertDeeper
  <2>1. TypeInv' /\ AddInv' /\ UNCHANGED tree /\ WalkInv(w)'
    BY <1>2, DeeperStep
  <2>2. Inv(w)'
    BY <2>1, SameTree
  <2>3. UNCHANGED <<tree, find, pc>>
    BY <1>2 DEF InsertDeeper
  <2>4. FindOK(pc, find)'
    BY <1>1, <2>3, FindIdle DEF Inv, TypeInv
  <2> QED
    BY <2>2, <2>4 DEF RouterInv
<1>3. ASSUME NEW v, Returns(tree'), Len(tree') >= Len(tree), TypeInv', AddInv', LinkInv',
             WordsOf(tree', v), TrieOf(tree', v), HasNode(DOMAIN tree', v, Now.path)
      PROVE  RouterInv'
  BY <1>1, <1>3, ReturnStep DEF RouterInv
<1>4. Now.path \in Seq(Characters) /\ cur.node \in DOMAIN tree /\ Len(tree) \in Nat /\ DOMAIN tree = 1 .. Len(tree)
  BY <1>1, InsertFacts DEF Inv, TypeInv
<1>5. CASE InsertAtRoot
  <2>1. PICK v : v = RootWords
    OBVIOUS
  <2>2. Len(tree') = Len(tree)
    BY <1>5, RootShape DEF Inv
  <2> QED
    BY <1>3, <1>5, <1>4, <2>1, <2>2, RootStep
<1>6. CASE InsertSplit
  <2>1. PICK v : v = SplitWords(w)
    OBVIOUS
  <2>2. Len(tree') = Len(tree) + 1 /\ Returns(tree') /\ tree' \in Seq(Nodes)
    BY <1>6, SplitShape DEF Inv
  <2>3. /\ TypeInv' /\ AddInv' /\ LinkInv' /\ WordsOf(tree', v) /\ TrieOf(tree', v)
        /\ v[cur.node] = Now.path
    BY <1>6, <2>1, SplitStep
  <2>4. cur.node \in DOMAIN tree' /\ Len(tree') >= Len(tree)
    BY <1>4, <2>2
  <2>5. HasNode(DOMAIN tree', v, Now.path)
    BY <2>3, <2>4, AgreeSelf DEF HasNode
  <2> QED
    BY <1>3, <2>2, <2>3, <2>4, <2>5
<1>7. CASE InsertFork
  <2>1. PICK v : v = ForkWords(w)
    OBVIOUS
  <2>2. Len(tree') = Len(tree) + 2 /\ Returns(tree')
    BY <1>7, ForkShape DEF Inv
  <2>3. /\ TypeInv' /\ AddInv' /\ LinkInv' /\ WordsOf(tree', v) /\ TrieOf(tree', v)
        /\ Len(tree) + 2 \in DOMAIN tree' /\ v[Len(tree) + 2] = Now.path
    BY <1>7, <2>1, ForkStep
  <2>4. HasNode(DOMAIN tree', v, Now.path)
    BY <2>3, AgreeSelf DEF HasNode
  <2>5. Len(tree') >= Len(tree)
    BY <1>4, <2>2
  <2> QED
    BY <1>3, <2>2, <2>3, <2>4, <2>5
<1>8. CASE InsertChild
  <2>1. PICK v : v = ChildWords(w)
    OBVIOUS
  <2>2. Len(tree') = Len(tree) + 1 /\ Returns(tree')
    BY <1>8, ChildShape DEF Inv
  <2>3. /\ TypeInv' /\ AddInv' /\ LinkInv' /\ WordsOf(tree', v) /\ TrieOf(tree', v)
        /\ Len(tree) + 1 \in DOMAIN tree' /\ v[Len(tree) + 1] = Now.path
    BY <1>8, <2>1, ChildStep
  <2>4. HasNode(DOMAIN tree', v, Now.path)
    BY <2>3, AgreeSelf DEF HasNode
  <2>5. Len(tree') >= Len(tree)
    BY <1>4, <2>2
  <2> QED
    BY <1>3, <2>2, <2>3, <2>4, <2>5
<1>9. CASE InsertExists
  <2>1. Len(tree') = Len(tree)
    BY <1>9, ExistsShape DEF Inv
  <2> QED
    BY <1>3, <1>9, <1>4, <2>1, ExistsStep
<1> QED
  BY <1>2, <1>5, <1>6, <1>7, <1>8, <1>9

\* Every step keeps the invariant.
LEMMA NextInv == RouterInv /\ [Next]_vars => RouterInv'
<1> SUFFICES ASSUME RouterInv, [Next]_vars PROVE RouterInv'
  OBVIOUS
<1>1. PICK w : Inv(w)
  BY DEF RouterInv
<1>2. FindOK(pc, find) /\ TypeInv /\ LinkInv
  BY <1>1 DEF RouterInv, Inv
<1>3. ASSUME NEW r \in Routes, Add(r[1], r[2]) PROVE RouterInv'
  BY <1>1, <1>2, <1>3, AddStep DEF RouterInv
<1>4. CASE ScanEscape \/ ScanParam \/ ScanAny \/ ScanEnd
  BY <1>1, <1>2, <1>4, ScanStep DEF RouterInv
<1>5. CASE Registered
  BY <1>1, <1>2, <1>5, RegisteredStep DEF RouterInv
<1>6. CASE InsertAtRoot \/ InsertSplit \/ InsertFork \/ InsertDeeper \/ InsertChild \/ InsertExists
  BY <1>1, <1>2, <1>6, InsertStep
<1>7. ASSUME NEW m \in Methods, NEW t \in Topics, Find(m, t) PROVE RouterInv'
  <2>1. t \in Seq(Characters)
    BY PathsAssumption
  <2>2. PICK f : f = NewFind(m, t)
    OBVIOUS
  <2>3. /\ f \in Finds /\ f.node = Root /\ f.best = NoNode /\ f.method = m
        /\ f.searchIndex + Len(f.search) = Len(f.path)
    BY <1>2, <2>1, <2>2, NewFindFacts
  <2>4. Root \in DOMAIN tree /\ Root \in 0 .. Len(tree) /\ NoNode \in 0 .. Len(tree)
    BY <1>2 DEF TypeInv, Root, NoNode
  <2>5. FindOK("loop", f) /\ "loop" \in FindLabels
    BY <2>3, <2>4 DEF FindOK, FindLabels
  <2>6. Goes("loop", f)
    BY <1>7, <2>2 DEF Find, Goes
  <2> QED
    BY <1>1, <2>5, <2>6, FindStep DEF RouterInv
<1>8. CASE LoopBacktracks \/ LoopMatches \/ LoopPasses \/ LoopDescends
  BY <1>1, <1>2, <1>8, LoopStep, FindStep DEF RouterInv
<1>9. CASE ParamTakes \/ ParamPasses
  BY <1>1, <1>2, <1>9, ParamStep, FindStep DEF RouterInv
<1>10. CASE AnyTakes \/ AnyBacktracks
  BY <1>1, <1>2, <1>10, AnyStep, FindStep DEF RouterInv
<1>11. CASE Out \/ Use
  BY <1>1, <1>2, <1>11, EndStep, FindStep DEF RouterInv
<1>12. CASE UNCHANGED vars
  <2>1. UNCHANGED <<tree, maxParam, routes, pc, add, calls, cur, find>>
    BY <1>12 DEF vars
  <2>2. TypeInv' /\ AddInv' /\ WalkInv(w)'
    BY <1>1, <2>1 DEF Inv, TypeInv, AddInv, WalkInv, Full, Now, Node, Start, NodeAt
  <2>3. Inv(w)'
    BY <1>1, <2>1, <2>2, SameTree
  <2>4. FindOK(pc, find)'
    BY <1>2, <2>1 DEF FindOK
  <2> QED
    BY <2>3, <2>4 DEF RouterInv
<1> QED
  BY <1>3, <1>4, <1>5, <1>6, <1>7, <1>8, <1>9, <1>10, <1>11, <1>12 DEF Next

\* The invariant of the router: its nodes spell different words, and every word
\* leads from the root to its node along the links of the tree.
THEOREM RouterInvariant == Spec => []RouterInv
BY InitInv, NextInv, PTL DEF Spec

\* The router's tree and the variables of its methods have their types
\* (pubsub/broker-router.go: Add, insert, Find).
THEOREM RouterTypeCorrect == Spec => []RouterTypeOK
<1>1. RouterInv => RouterTypeOK
  <2> SUFFICES ASSUME RouterInv PROVE RouterTypeOK
    OBVIOUS
  <2>1. TypeInv /\ LinkInv /\ FindOK(pc, find)
    BY DEF RouterInv, Inv
  <2>2. ASSUME NEW i \in DOMAIN tree
        PROVE  /\ tree[i].kind \in Kinds
               /\ {tree[i].parent, tree[i].param, tree[i].any} \subseteq 0 .. Len(tree)
               /\ tree[i].statics \subseteq DOMAIN tree
               /\ \A m \in Methods : tree[i].methods[m] \in RouteMethods
               /\ tree[i].notFound \in RouteMethods
    BY <2>1, LinkFacts, NodeFacts
  <2> QED
    BY <2>1, <2>2 DEF RouterTypeOK, TypeInv, FindOK
<1> QED
  BY <1>1, RouterInvariant, PTL

\* Whatever routes are registered, in whatever order, and however insert splits
\* its nodes: a child knows its parent, the children of a node start with
\* different characters, and a node is a leaf exactly if it has no children
\* (pubsub/broker-router.go: insert).
THEOREM LinksAlwaysAgree == Spec => []LinksAgree
<1>1. RouterInv => LinksAgree
  <2> SUFFICES ASSUME RouterInv PROVE LinksAgree
    OBVIOUS
  <2>1. PICK w : Inv(w)
    BY DEF RouterInv
  <2>2. TypeInv /\ LinkInv /\ WordInv(w) /\ TreeTrie(w)
    BY <2>1 DEF Inv
  <2>3. ASSUME NEW i \in DOMAIN tree, NEW c \in tree[i].statics, NEW d \in tree[i].statics,
               tree[c].prefix[1] = tree[d].prefix[1]
        PROVE  c = d
    <3>1. c \in Kids(tree[i]) /\ d \in Kids(tree[i])
      BY DEF Kids
    <3>2. PICK m : m = Len(w[i])
      OBVIOUS
    <3>3. /\ c \in DOMAIN tree /\ Start(w, c) = m /\ Len(w[c]) > m /\ Agree(w[i], w[c], m)
          /\ tree[c].prefix[1] = w[c][m + 1] /\ w[c] \in Seq(Characters) /\ w[i] \in Seq(Characters)
      BY <2>2, <3>1, <3>2, KidFacts
    <3>4. /\ d \in DOMAIN tree /\ Start(w, d) = m /\ Len(w[d]) > m /\ Agree(w[i], w[d], m)
          /\ tree[d].prefix[1] = w[d][m + 1] /\ w[d] \in Seq(Characters)
      BY <2>2, <3>1, <3>2, KidFacts
    <3>5. m \in Nat /\ Len(w[c]) \in Nat /\ Len(w[d]) \in Nat
      BY <3>2, <3>3, <3>4
    <3>6. Agree(w[c], w[d], m + 1) /\ Agree(w[d], w[c], m + 1)
      <4>1. Agree(w[c], w[d], m)
        BY <3>3, <3>4, AgreeSym, AgreeTrans
      <4>2. w[c][m + 1] = w[d][m + 1]
        BY <2>3, <3>3, <3>4
      <4> QED
        BY <3>5, <4>1, <4>2, AgreeNext, AgreeSym
    <3>7. Through(DOMAIN tree, w, [k \in DOMAIN tree |-> StartIn(tree, w, k)])
          /\ Distinct(DOMAIN tree, w)
      BY <2>2 DEF TreeTrie, TrieOf, Trie
    <3>8. Len(w[c]) <= Len(w[d]) /\ Agree(w[c], w[d], Len(w[c]))
      BY <3>3, <3>4, <3>6, <3>7 DEF Through, Start
    <3>9. Len(w[d]) <= Len(w[c])
      BY <3>3, <3>4, <3>6, <3>7 DEF Through, Start
    <3> QED
      BY <3>3, <3>4, <3>5, <3>7, <3>8, <3>9 DEF Distinct
  <2>4. ASSUME NEW i \in DOMAIN tree
        PROVE  /\ \A c \in tree[i].statics \cup ({tree[i].param, tree[i].any} \ {NoNode}) :
                    tree[c].parent = i
               /\ tree[i].parent # NoNode =>
                    i \in tree[tree[i].parent].statics
                            \cup {tree[tree[i].parent].param, tree[tree[i].parent].any}
               /\ i # Root => tree[i].isLeaf = IsLeafNode(tree[i])
    BY <2>2 DEF LinkInv, Kids
  <2> QED
    BY <2>3, <2>4 DEF LinksAgree
<1> QED
  BY <1>1, RouterInvariant, PTL
=============================================================================
