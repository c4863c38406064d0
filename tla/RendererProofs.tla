--------------------------- MODULE RendererProofs ---------------------------
(***************************************************************************)
(* Proofs about Renderer for any templates, directories, clients and       *)
(* histories of the files.                                                 *)
(***************************************************************************)
EXTENDS Renderer, SequenceTheorems, TLAPS

(***************************************************************************)
(* What a 304 confirms rests on an order that spans three requests' steps: *)
(* the ETag of a copy was computed before its body was rendered, and the   *)
(* body before the ETag that the copy's is compared with.  The numbers of  *)
(* edits only grow, so for a file that both depend on                      *)
(*     etag of the copy <= body of the copy <= what is read now.           *)
(* When the ends have the same text, the body has it as well, unless it is *)
(* strictly between them, and then an edit was undone.  The parts below    *)
(* carry these bounds from step to step.                                   *)
(***************************************************************************)
Tied(p) == Uses[p] \cap Covered(p)

\* A copy lies between its ETag and the files
CopyInv ==
  \A c \in Clients, p \in Pages : copy[c][p].held =>
    \A f \in Tied(p) : /\ copy[c][p].etag[f] <= copy[c][p].body[f]
                       /\ copy[c][p].body[f] <= files[f]

\* What a request has read is not newer than the files, and while it computes
\* fingerprints not older than the client's copy
ReadInv ==
  \A c \in Clients : \A f \in read[c] :
    /\ seen[c][f] <= files[f]
    /\ at[c] = "fingerprints" /\ copy[c][page[c]].held /\ f \in Tied(page[c])
         => copy[c][page[c]].body[f] <= seen[c][f]

\* The ETag in a response is not newer than what is rendered under it
TagInv ==
  \A c \in Clients : response[c].tagged => \A f \in Tied(page[c]) :
    /\ at[c] = "templates" =>
         /\ response[c].etag[f] <= files[f]
         /\ f \in read[c] => response[c].etag[f] <= seen[c][f]
    /\ at[c] = "sent" /\ response[c].status = 200 =>
         /\ response[c].etag[f] <= response[c].body[f]
         /\ response[c].body[f] <= files[f]

\* The course of a request
StepInv ==
  \A c \in Clients :
    /\ conditional[c] => copy[c][page[c]].held
    /\ at[c] = "idle" => read[c] = {}
    /\ at[c] # "sent" => response[c].status = 0
    /\ at[c] \in {"idle", "fingerprints"} => ~response[c].tagged

\* A lazy renderer keeps no fingerprints; a preloaded one has empty ones, and
\* so never sends an ETag
ModeInv ==
  /\ mode = "lazy" => ~fingerprints.set
  /\ mode # "lazy" => /\ fingerprints.set /\ fingerprints.pages = {}
                      /\ \A c \in Clients : ~response[c].tagged /\ response[c].status # 304

Inv ==
  /\ RendererTypeOK /\ CopyInv /\ ReadInv /\ TagInv /\ StepInv /\ ModeInv
  /\ NotModifiedIsTrue

\* What a 304 to a copy k with data d means, when the renderer read content v
Confirms(p, k, d, v) ==
  /\ k.data = d
  /\ \/ RunTogether(p, k.etag, v)
     \/ \A f \in Uses[p] : \/ TextOf(f, k.body) = TextOf(f, v)
                          \/ Undone(f, k.etag, k.body, v)

-----------------------------------------------------------------------------
(* Operators *)

\* A directory is the longest of its own prefixes.
LEMMA WholeSubSeq ==
  ASSUME NEW S, NEW s \in Seq(S)
  PROVE  SubSeq(s, 1, Len(s)) = s
OBVIOUS

\* The ETag of a page covers all that a confined page executes
\* (computePageFingerprints with identifyModuleNonpageFiles).
LEMMA ConfinedIsCovered ==
  ASSUME NEW p \in Pages, Confined(p)
  PROVE  Uses[p] \subseteq Covered(p)
<1>1. Dir[p] \in Seq(STRING) /\ p \in Templates
  BY FilesAssumption DEF Templates
<1>2. SubSeq(Dir[p], 1, Len(Dir[p])) = Dir[p] /\ Len(Dir[p]) \in Nat
  BY <1>1, WholeSubSeq
<1>3. Dir[p] \in UNION {{SubSeq(Dir[t], 1, n) : n \in 0 .. Len(Dir[t])} : t \in Templates}
  <2> DEFINE Prefixes(t) == {SubSeq(Dir[t], 1, n) : n \in 0 .. Len(Dir[t])}
  <2>1. Dir[p] \in Prefixes(p)
    BY <1>2
  <2> HIDE DEF Prefixes
  <2>2. Dir[p] \in UNION {Prefixes(t) : t \in Templates}
    BY <1>1, <2>1, Zenon
  <2> QED
    BY <2>2 DEF Prefixes
<1>4. CASE Dir[p] = <<"shared">>
  BY <1>4 DEF Confined, Covered, AppFiles, PageFiles
<1>5. CASE Dir[p] # <<"shared">>
  <2>1. Dir[p] \in Modules
    BY <1>3, <1>5 DEF Modules
  <2>2. ModuleOf(p) = Dir[p]
    BY DEF Confined, ModuleOf
  <2> QED
    BY <2>1, <2>2 DEF Confined, Covered, AppFiles, PageFiles, ModuleNonpageFiles
<1> QED
  BY <1>4, <1>5

\* The content of files that were never edited is a content.
LEMMA ZeroType == Zero \in Contents
<1>1. ASSUME NEW f \in Files PROVE 0 < Len(History[f])
  BY FilesAssumption
<1> QED
  BY <1>1 DEF Zero, Contents

\* An edit gives a file a text of its history.
LEMMA EditType ==
  ASSUME files \in Contents, NEW f \in Files, Edit(f)
  PROVE  files' \in Contents
<1>1. files \in [Files -> Nat] /\ files' = [files EXCEPT ![f] = @ + 1]
  BY DEF Contents, Edit
<1>2. files' \in [Files -> Nat]
  BY <1>1
<1>3. ASSUME NEW g \in Files PROVE files'[g] < Len(History[g])
  BY <1>1 DEF Contents, Edit
<1> QED
  BY <1>2, <1>3 DEF Contents

\* What was read of a file is of the files' types.
LEMMA SeenType ==
  ASSUME files \in Contents, NEW v \in Contents, NEW f \in Files
  PROVE  [v EXCEPT ![f] = files[f]] \in Contents
BY DEF Contents

\* What the server's variables hold after a start.
LEMMA NewFingerprintsFacts ==
  ASSUME NEW m \in {"lazy", "preloaded"}, NEW v \in Contents
  PROVE  /\ NewFingerprints(m, v) \in [set : BOOLEAN, pages : SUBSET Pages, content : Contents]
         /\ m = "lazy" => ~NewFingerprints(m, v).set
         /\ m # "lazy" => NewFingerprints(m, v).set /\ NewFingerprints(m, v).pages = {}
BY ZeroType DEF NewFingerprints, NoFingerprints, GetFingerprints

-----------------------------------------------------------------------------
(* Types *)

\* Fingerprints and ETags of a request are of their types.
LEMMA RequestTypes ==
  ASSUME RendererTypeOK, NEW c \in Clients
  PROVE  /\ Content(c) \in Contents
         /\ Fingerprints(c) \in [set : BOOLEAN, pages : SUBSET Pages, content : Contents]
         /\ Etag(c) \in Contents
<1>1. Content(c) \in Contents
  BY DEF RendererTypeOK, Content
<1>2. Fingerprints(c) \in [set : BOOLEAN, pages : SUBSET Pages, content : Contents]
  BY <1>1 DEF RendererTypeOK, Fingerprints, GetFingerprints
<1> QED
  BY <1>1, <1>2 DEF Etag

\* A response keeps its type as it fails.
LEMMA FailedType ==
  ASSUME NEW r \in Responses
  PROVE  [r EXCEPT !.status = 500] \in Responses
BY DEF Responses

\* A response keeps its type as its ETag is set.
LEMMA TaggedType ==
  ASSUME NEW r \in Responses, NEW e \in Contents
  PROVE  [r EXCEPT !.tagged = TRUE, !.etag = e] \in Responses
BY ZenonT(40) DEF Responses

\* A response keeps its type as it gets a body.
LEMMA RenderedType ==
  ASSUME NEW r \in Responses, NEW e \in Contents
  PROVE  [r EXCEPT !.status = 200, !.body = e] \in Responses
BY ZenonT(40) DEF Responses

\* A 304 is a response.
LEMMA NotModifiedType ==
  ASSUME NEW e \in Contents
  PROVE  [status |-> 304, tagged |-> TRUE, etag |-> e, body |-> Zero] \in Responses
BY ZeroType DEF Responses

\* An unset response is of its type.
LEMMA NoResponseType == NoResponse \in Responses
BY ZeroType DEF NoResponse, Responses

\* Every step keeps the types.
LEMMA TypeStep == RendererTypeOK /\ [Next]_vars => RendererTypeOK'
<1> SUFFICES ASSUME RendererTypeOK, [Next]_vars PROVE RendererTypeOK'
  OBVIOUS
<1>1. ASSUME NEW f \in Files, Edit(f) PROVE RendererTypeOK'
  BY <1>1, EditType DEF Edit, serverVars, reqVars, RendererTypeOK
<1>2. CASE Restart
  <2>1. mode \in {"lazy", "preloaded"}
    BY FilesAssumption DEF RendererTypeOK
  <2>2. fingerprints' \in [set : BOOLEAN, pages : SUBSET Pages, content : Contents]
    BY <1>2, <2>1, NewFingerprintsFacts DEF Restart, RendererTypeOK
  <2> QED
    BY <1>2, <2>2, ZeroType, NoResponseType DEF Restart, RendererTypeOK
<1>3. ASSUME NEW c \in Clients, NEW p \in Pages, NEW d \in Data, NEW cond \in BOOLEAN,
             NEW step \in {"fingerprints", "templates"}, Calls(c, p, d, step, cond)
      PROVE  RendererTypeOK'
  BY <1>3 DEF Calls, serverVars, RendererTypeOK
<1>4. ASSUME NEW c \in Clients, NEW f \in Files, Read(c, f) PROVE RendererTypeOK'
  BY <1>4, SeenType DEF Read, serverVars, RendererTypeOK
<1>5. ASSUME NEW c \in Clients, NEW r \in Responses, Sends(c, r) PROVE RendererTypeOK'
  BY <1>5 DEF Sends, serverVars, RendererTypeOK
<1>6. ASSUME NEW c \in Clients PROVE response[c] \in Responses
  BY DEF RendererTypeOK
<1>7. ASSUME NEW c \in Clients, NoEtagSegments(c) PROVE RendererTypeOK'
  <2>1. [NoResponse EXCEPT !.status = 500] \in Responses
    BY NoResponseType, FailedType
  <2> QED
    BY <1>5, <1>7, <2>1, Zenon DEF NoEtagSegments
<1>8. ASSUME NEW c \in Clients, NotModified(c) PROVE RendererTypeOK'
  <2>1. [status |-> 304, tagged |-> TRUE, etag |-> Etag(c), body |-> Zero] \in Responses
    BY RequestTypes, NotModifiedType
  <2> QED
    BY <1>5, <1>8, <2>1, Zenon DEF NotModified
<1>9. ASSUME NEW c \in Clients, Modified(c) PROVE RendererTypeOK'
  <2>1. [response[c] EXCEPT !.tagged = TRUE, !.etag = Etag(c)] \in Responses
    BY <1>6, RequestTypes, TaggedType
  <2> QED
    BY <1>9, <2>1, ZeroType DEF Modified, serverVars, RendererTypeOK
<1>10. ASSUME NEW c \in Clients, Rendered(c) PROVE RendererTypeOK'
  <2>1. Content(c) \in Contents
    BY RequestTypes
  <2>2. [response[c] EXCEPT !.status = 200, !.body = Content(c)] \in Responses
    BY <1>6, <2>1, RenderedType
  <2> QED
    BY <1>5, <1>10, <2>2, Zenon DEF Rendered
<1>11. ASSUME NEW c \in Clients, Fails(c) PROVE RendererTypeOK'
  <2>1. [response[c] EXCEPT !.status = 500] \in Responses
    BY <1>6, FailedType
  <2> QED
    BY <1>5, <1>11, <2>1, Zenon DEF Fails
<1>12. ASSUME NEW c \in Clients, Receive(c) PROVE RendererTypeOK'
  <2>1. CASE UNCHANGED copy
    BY <1>12, <2>1, ZeroType, NoResponseType DEF Receive, serverVars, RendererTypeOK
  <2>2. CASE copy' = [copy EXCEPT ![c][page[c]] =
                        [held |-> TRUE, etag |-> response[c].etag, body |-> response[c].body,
                         data |-> data[c]]]
    <3>1. copy' \in [Clients -> [Pages -> [held : BOOLEAN, etag : Contents, body : Contents,
                                          data : Data]]]
      BY <2>2, <1>6 DEF RendererTypeOK, Responses
    <3> QED
      BY <1>12, <3>1, ZeroType, NoResponseType DEF Receive, serverVars, RendererTypeOK
  <2> QED
    BY <1>12, <2>1, <2>2 DEF Receive
<1>13. CASE UNCHANGED vars
  BY <1>13 DEF vars, serverVars, reqVars, RendererTypeOK
<1> QED
  BY <1>1, <1>2, <1>3, <1>4, <1>7, <1>8, <1>9, <1>10, <1>11, <1>12, <1>13
     DEF Next, CacheablePage, Page

\* The types hold at the start.
LEMMA TypeInit == Init => RendererTypeOK
<1> SUFFICES ASSUME Init PROVE RendererTypeOK
  OBVIOUS
<1>1. mode \in {"lazy", "preloaded"}
  BY FilesAssumption DEF Init
<1> QED
  BY <1>1, ZeroType, NewFingerprintsFacts, NoResponseType DEF Init, RendererTypeOK

\* The state of every renderer and its clients is of its types, for any files
\* and clients.
THEOREM RendererTypeCorrect == Spec => []RendererTypeOK
BY TypeInit, TypeStep, PTL DEF Spec

-----------------------------------------------------------------------------
(* 304 *)

\* Templates are files, and so is what a page and its ETag share.
LEMMA TiedAreFiles ==
  ASSUME NEW p \in Pages
  PROVE  Uses[p] \subseteq Files /\ Tied(p) \subseteq Files
BY FilesAssumption DEF Tied, Files, Templates

\* The invariant holds at the start.
LEMMA InvInit == Init => Inv
<1> SUFFICES ASSUME Init PROVE Inv
  OBVIOUS
<1>1. mode \in {"lazy", "preloaded"}
  BY FilesAssumption DEF Init
<1>2. ModeInv
  BY <1>1, ZeroType, NewFingerprintsFacts DEF Init, ModeInv, NoResponse
<1>3. CopyInv /\ ReadInv /\ TagInv /\ StepInv /\ NotModifiedIsTrue
  BY DEF Init, CopyInv, ReadInv, TagInv, StepInv, NotModifiedIsTrue, NoResponse
<1> QED
  BY <1>2, <1>3, TypeInit DEF Inv

\* An edit only raises the files' contents.
LEMMA EditStep ==
  ASSUME Inv, NEW f \in Files, Edit(f)
  PROVE  CopyInv' /\ ReadInv' /\ TagInv' /\ StepInv' /\ ModeInv' /\ NotModifiedIsTrue'
<1>1. \A g \in Files : files[g] \in Nat /\ files'[g] \in Nat /\ files[g] <= files'[g]
  BY DEF Inv, RendererTypeOK, Edit, Contents
<1>2. ASSUME NEW d \in Clients, NEW g \in Files
      PROVE  /\ page[d] \in Pages /\ read[d] \subseteq Files /\ seen[d][g] \in Nat
             /\ \A p \in Pages : copy[d][p].body[g] \in Nat
  BY DEF Inv, RendererTypeOK, Contents
<1>3. ASSUME NEW d \in Clients, NEW g \in Files
      PROVE  response[d].etag[g] \in Nat /\ response[d].body[g] \in Nat
  <2>1. response[d].etag \in Contents /\ response[d].body \in Contents
    BY DEF Inv, RendererTypeOK, Responses
  <2> QED
    BY <2>1 DEF Contents
<1>4. /\ at' = at /\ page' = page /\ data' = data /\ conditional' = conditional
      /\ read' = read /\ seen' = seen /\ response' = response /\ copy' = copy
      /\ mode' = mode /\ templates' = templates /\ fingerprints' = fingerprints
  BY DEF Edit, serverVars, reqVars
<1>5. CopyInv'
  BY <1>1, <1>2, <1>4, TiedAreFiles DEF Inv, CopyInv
<1>6. ReadInv'
  BY <1>1, <1>2, <1>4 DEF Inv, ReadInv
<1>7. TagInv'
  <2> SUFFICES ASSUME NEW d \in Clients, response[d].tagged, NEW g \in Tied(page[d])
               PROVE  /\ at[d] = "templates" =>
                           /\ response[d].etag[g] <= files'[g]
                           /\ g \in read[d] => response[d].etag[g] <= seen[d][g]
                      /\ at[d] = "sent" /\ response[d].status = 200 =>
                           /\ response[d].etag[g] <= response[d].body[g]
                           /\ response[d].body[g] <= files'[g]
    BY <1>4 DEF TagInv
  <2>1. page[d] \in Pages
    BY DEF Inv, RendererTypeOK
  <2>2. g \in Files
    BY <2>1, TiedAreFiles
  <2>3. /\ files[g] \in Nat /\ files'[g] \in Nat /\ files[g] <= files'[g]
        /\ response[d].etag[g] \in Nat /\ response[d].body[g] \in Nat
    BY <1>1, <1>3, <2>2
  <2> QED
    BY <2>3 DEF Inv, TagInv
<1>8. StepInv' /\ ModeInv' /\ NotModifiedIsTrue'
  BY <1>4 DEF Inv, StepInv, ModeInv, NotModifiedIsTrue, Content
<1> QED
  BY <1>5, <1>6, <1>7, <1>8

\* A restart forgets the requests and keeps the copies.
LEMMA RestartStep ==
  ASSUME Inv, Restart
  PROVE  CopyInv' /\ ReadInv' /\ TagInv' /\ StepInv' /\ ModeInv' /\ NotModifiedIsTrue'
<1> USE DEF Inv, RendererTypeOK, Restart
<1>1. mode \in {"lazy", "preloaded"}
  BY FilesAssumption
<1>2. ModeInv'
  BY <1>1, NewFingerprintsFacts DEF ModeInv, NoResponse
<1>3. CopyInv' /\ ReadInv'
  BY DEF CopyInv, ReadInv
<1>4. TagInv' /\ StepInv' /\ NotModifiedIsTrue'
  BY DEF TagInv, StepInv, NotModifiedIsTrue, NoResponse
<1> QED
  BY <1>2, <1>3, <1>4

\* A new request has read nothing and has no ETag yet.
LEMMA CallStep ==
  ASSUME Inv, NEW c \in Clients, NEW p \in Pages, NEW d \in Data, NEW cond \in BOOLEAN,
         NEW step \in {"fingerprints", "templates"}, Calls(c, p, d, step, cond),
         cond => copy[c][p].held
  PROVE  CopyInv' /\ ReadInv' /\ TagInv' /\ StepInv' /\ ModeInv' /\ NotModifiedIsTrue'
<1> USE DEF Inv, RendererTypeOK, Calls, serverVars
<1>1. CopyInv' /\ ModeInv'
  BY DEF CopyInv, ModeInv
<1>2. ReadInv'
  BY DEF ReadInv, StepInv
<1>3. TagInv'
  BY DEF TagInv, StepInv
<1>4. StepInv'
  BY DEF StepInv
<1>5. NotModifiedIsTrue'
  <2> SUFFICES ASSUME NEW e \in Clients, at'[e] = "sent", response'[e].status = 304,
                      Confined(page'[e])
               PROVE  Confirms(page'[e], copy'[e][page'[e]], data'[e], Content(e)')
    BY DEF NotModifiedIsTrue, Confirms
  <2>1. e # c
    OBVIOUS
  <2>2. /\ page'[e] = page[e] /\ data'[e] = data[e] /\ copy' = copy
        /\ Content(e)' = Content(e)
    BY <2>1 DEF Content
  <2>3. Confirms(page[e], copy[e][page[e]], data[e], Content(e))
    BY <2>1, <2>2 DEF NotModifiedIsTrue, Confirms
  <2> QED
    BY ONLY <2>2, <2>3
<1> QED
  BY <1>1, <1>2, <1>3, <1>4, <1>5

\* What is read is as new as the files, and so as any copy and any ETag.
LEMMA ReadStep ==
  ASSUME Inv, NEW c \in Clients, NEW f \in Files, Read(c, f)
  PROVE  CopyInv' /\ ReadInv' /\ TagInv' /\ StepInv' /\ ModeInv' /\ NotModifiedIsTrue'
<1> USE DEF Inv, RendererTypeOK, Read, serverVars
<1>0. files \in [Files -> Nat] /\ seen \in [Clients -> [Files -> Nat]]
  BY DEF Contents
<1>1. at[c] \in {"fingerprints", "templates"}
  BY DEF Wanted
<1>2. CopyInv' /\ ModeInv'
  BY DEF CopyInv, ModeInv
<1>3. ReadInv'
  BY <1>0, TiedAreFiles DEF ReadInv, CopyInv
<1>4. TagInv'
  BY <1>0, TiedAreFiles DEF TagInv
<1>5. StepInv'
  BY <1>1 DEF StepInv
<1>6. NotModifiedIsTrue'
  BY <1>1 DEF NotModifiedIsTrue, Content
<1> QED
  BY <1>2, <1>3, <1>4, <1>5, <1>6

\* An answer without an ETag, or that is an error, promises nothing.
LEMMA ErrorStep ==
  ASSUME Inv, NEW c \in Clients, NEW r \in Responses, Sends(c, r), r.status = 500,
         r.tagged => response[c].tagged
  PROVE  CopyInv' /\ ReadInv' /\ TagInv' /\ StepInv' /\ ModeInv' /\ NotModifiedIsTrue'
<1> USE DEF Inv, RendererTypeOK, Sends, serverVars
<1>1. CopyInv' /\ ReadInv'
  BY DEF CopyInv, ReadInv
<1>2. TagInv' /\ ModeInv'
  BY DEF TagInv, ModeInv
<1>3. StepInv'
  BY DEF StepInv
<1>4. NotModifiedIsTrue'
  BY DEF NotModifiedIsTrue, Content
<1> QED
  BY <1>1, <1>2, <1>3, <1>4

\* Only a lazy renderer finds fingerprints, and those are of what it just read.
LEMMA LazyFingerprints ==
  ASSUME Inv, NEW c \in Clients, AtFingerprints(c), page[c] \in Fingerprints(c).pages
  PROVE  /\ mode = "lazy" /\ at[c] = "fingerprints"
         /\ read[c] = Covered(page[c])
         /\ Etag(c) = seen[c]
<1>1. mode = "lazy"
  BY DEF Inv, ModeInv, Fingerprints, GetFingerprints
<1>2. at[c] = "fingerprints" /\ read[c] = Covered(page[c])
  BY <1>1 DEF AtFingerprints, Ready, Wanted
<1>3. Fingerprints(c).content = seen[c]
  BY <1>1 DEF Inv, ModeInv, Fingerprints, GetFingerprints, Content
<1> QED
  BY <1>1, <1>2, <1>3 DEF Etag

\* A copy whose ETag matches is what would be rendered now, but for texts that
\* run together and undone edits: it lies between its ETag and what was read.
LEMMA MatchIsTrue ==
  ASSUME Inv, NEW c \in Clients, AtFingerprints(c), page[c] \in Fingerprints(c).pages,
         EtagMatches(c), Confined(page[c])
  PROVE  Confirms(page[c], copy[c][page[c]], data[c], seen[c])
<1> DEFINE p == page[c]
           k == copy[c][p]
           v == seen[c]
<1>1. p \in Pages /\ k.body \in [Files -> Nat] /\ k.etag \in [Files -> Nat]
      /\ v \in [Files -> Nat]
  BY DEF Inv, RendererTypeOK, Contents
<1>2. k.held /\ SameFingerprints(p, k.etag, v) /\ read[c] = Covered(p)
      /\ at[c] = "fingerprints" /\ k.data = data[c]
  BY LazyFingerprints DEF EtagMatches, Inv, StepInv
<1>3. Uses[p] \subseteq Covered(p) /\ Uses[p] \subseteq Files
  BY <1>1, ConfinedIsCovered, TiedAreFiles
<1>4. ASSUME ~RunTogether(p, k.etag, v), NEW f \in Uses[p]
      PROVE  TextOf(f, k.body) = TextOf(f, v) \/ Undone(f, k.etag, k.body, v)
  <2>1. f \in Tied(p) /\ f \in read[c] /\ f \in Files
    BY <1>2, <1>3 DEF Tied
  <2>2. k.etag[f] <= k.body[f] /\ k.body[f] <= v[f]
    BY <1>1, <1>2, <2>1 DEF Inv, CopyInv, ReadInv
  <2>3. TextOf(f, k.etag) = TextOf(f, v)
    BY <1>2, <1>3, <1>4 DEF RunTogether
  <2>4. CASE k.body[f] = k.etag[f] \/ k.body[f] = v[f]
    BY <2>3, <2>4 DEF TextOf
  <2>5. CASE k.etag[f] < k.body[f] /\ k.body[f] < v[f]
    BY <2>3, <2>5 DEF Undone
  <2>6. k.etag[f] \in Nat /\ k.body[f] \in Nat /\ v[f] \in Nat
    BY <1>1, <2>1
  <2> QED
    BY <2>2, <2>4, <2>5, <2>6
<1> QED
  BY <1>2, <1>4 DEF Confirms

\* The step that answers 304.
LEMMA NotModifiedStep ==
  ASSUME Inv, NEW c \in Clients, NotModified(c)
  PROVE  CopyInv' /\ ReadInv' /\ TagInv' /\ StepInv' /\ ModeInv' /\ NotModifiedIsTrue'
<1>1. mode = "lazy" /\ at[c] = "fingerprints"
  BY LazyFingerprints DEF NotModified
<1>2. Confined(page[c]) => Confirms(page[c], copy[c][page[c]], data[c], seen[c])
  BY MatchIsTrue DEF NotModified
<1> USE DEF Inv, RendererTypeOK, NotModified, Sends, serverVars
<1>4. CopyInv' /\ ReadInv'
  BY DEF CopyInv, ReadInv
<1>5. TagInv' /\ ModeInv'
  BY <1>1 DEF TagInv, ModeInv
<1>6. StepInv'
  BY DEF StepInv
<1>7. NotModifiedIsTrue'
  <2> SUFFICES ASSUME NEW d \in Clients, at'[d] = "sent", response'[d].status = 304,
                      Confined(page'[d])
               PROVE  Confirms(page[d], copy[d][page[d]], data[d], Content(d)')
    BY DEF NotModifiedIsTrue, Confirms
  <2>1. CASE d = c
    BY <1>1, <1>2, <2>1 DEF Content
  <2>2. CASE d # c
    BY <2>2 DEF NotModifiedIsTrue, Confirms, Content
  <2> QED
    BY <2>1, <2>2
<1> QED
  BY <1>4, <1>5, <1>6, <1>7

\* The step from the fingerprints to the templates: the ETag is not newer than
\* the files.
LEMMA ModifiedStep ==
  ASSUME Inv, NEW c \in Clients, Modified(c)
  PROVE  CopyInv' /\ ReadInv' /\ TagInv' /\ StepInv' /\ ModeInv' /\ NotModifiedIsTrue'
<1>1. mode = "lazy" /\ at[c] = "fingerprints" /\ read[c] = Covered(page[c])
      /\ Etag(c) = seen[c]
  BY LazyFingerprints DEF Modified
<1>2. \A f \in Tied(page[c]) : Etag(c)[f] <= files[f]
  BY <1>1, TiedAreFiles DEF Inv, RendererTypeOK, ReadInv, Tied
<1> USE DEF Inv, RendererTypeOK, Modified, serverVars
<1>3. CopyInv' /\ ReadInv'
  BY DEF CopyInv, ReadInv
<1>4. response' = [response EXCEPT ![c] = [@ EXCEPT !.tagged = TRUE, !.etag = Etag(c)]]
      /\ response[c] \in Responses /\ at' = [at EXCEPT ![c] = "templates"]
      /\ read'[c] = {}
  OBVIOUS
<1>5. response'[c].etag = Etag(c) /\ response'[c].status = response[c].status
  BY <1>4 DEF Responses
<1>6. TagInv'
  BY <1>2, <1>4, <1>5 DEF TagInv
<1>7. ModeInv'
  BY <1>1 DEF ModeInv
<1>8. StepInv'
  BY <1>1, <1>4, <1>5 DEF StepInv
<1>9. NotModifiedIsTrue'
  BY <1>4 DEF NotModifiedIsTrue, Content
<1> QED
  BY <1>3, <1>6, <1>7, <1>8, <1>9

\* The step that answers 200: what is rendered was read after the ETag was
\* computed.
LEMMA RenderedStep ==
  ASSUME Inv, NEW c \in Clients, Rendered(c)
  PROVE  CopyInv' /\ ReadInv' /\ TagInv' /\ StepInv' /\ ModeInv' /\ NotModifiedIsTrue'
<1> DEFINE body == Content(c)
           r == [response[c] EXCEPT !.status = 200, !.body = body]
<1>1. page[c] \in Pages /\ response[c] \in Responses /\ at[c] = "templates"
  BY DEF Inv, RendererTypeOK, Rendered
<1>2. body \in Contents
  BY RequestTypes DEF Inv
<1>3. r.status = 200 /\ r.body = body /\ r.etag = response[c].etag
      /\ r.tagged = response[c].tagged
  BY <1>1 DEF Responses
<1>4. response' = [response EXCEPT ![c] = r] /\ at' = [at EXCEPT ![c] = "sent"]
      /\ UNCHANGED <<files, mode, fingerprints, templates, page, data, conditional, read, seen, copy>>
  BY DEF Rendered, Sends, serverVars
<1>6. ASSUME response[c].tagged, NEW f \in Tied(page[c])
      PROVE  response[c].etag[f] <= body[f] /\ body[f] <= files[f]
  <2>1. mode = "lazy"
    BY <1>6 DEF Inv, ModeInv
  <2>2. f \in Files /\ f \in Uses[page[c]]
    BY <1>1, TiedAreFiles DEF Tied
  <2>3. f \in read[c] /\ body[f] = seen[c][f]
    BY <1>1, <2>1, <2>2 DEF Rendered, Ready, Wanted, Content
  <2> QED
    BY <1>1, <1>6, <2>3 DEF Inv, ReadInv, TagInv
<1> HIDE DEF r, body
<1> USE DEF Inv, RendererTypeOK
<1>7. CopyInv' /\ ReadInv'
  BY <1>4 DEF CopyInv, ReadInv
<1>8. TagInv'
  BY <1>3, <1>4, <1>6 DEF TagInv
<1>9. StepInv'
  BY <1>3, <1>4 DEF StepInv
<1>10. ModeInv'
  BY <1>3, <1>4 DEF ModeInv
<1>11. NotModifiedIsTrue'
  BY <1>3, <1>4 DEF NotModifiedIsTrue, Content
<1> QED
  BY <1>7, <1>8, <1>9, <1>10, <1>11

\* A client keeps a page with the bounds it was sent with.
LEMMA ReceiveStep ==
  ASSUME Inv, NEW c \in Clients, Receive(c)
  PROVE  CopyInv' /\ ReadInv' /\ TagInv' /\ StepInv' /\ ModeInv' /\ NotModifiedIsTrue'
<1> DEFINE k == [held |-> TRUE, etag |-> response[c].etag, body |-> response[c].body,
                 data |-> data[c]]
<1> USE DEF Inv, RendererTypeOK, Receive, serverVars
<1>1. ModeInv'
  BY DEF ModeInv, NoResponse
<1>2. ReadInv' /\ TagInv'
  BY DEF ReadInv, TagInv, NoResponse
<1>3. CASE UNCHANGED copy
  <2>1. CopyInv'
    BY <1>3 DEF CopyInv
  <2>2. StepInv'
    BY <1>3 DEF StepInv, NoResponse
  <2>3. NotModifiedIsTrue'
    BY <1>3 DEF NotModifiedIsTrue, Content
  <2> QED
    BY <1>1, <1>2, <2>1, <2>2, <2>3
<1>4. CASE Keeps(c) /\ copy' = [copy EXCEPT ![c][page[c]] = k]
  <2>1. copy'[c][page[c]] = k /\ page[c] \in Pages
    BY <1>4
  <2>2. \A d \in Clients, p \in Pages : d # c \/ p # page[c] => copy'[d][p] = copy[d][p]
    BY <1>4
  <2>3. \A f \in Tied(page[c]) : k.etag[f] <= k.body[f] /\ k.body[f] <= files[f]
    BY <1>4 DEF Keeps, TagInv
  <2>4. k.held
    OBVIOUS
  <2> HIDE DEF k
  <2>5. CopyInv'
    <3> SUFFICES ASSUME NEW d \in Clients, NEW p \in Pages, copy'[d][p].held
                 PROVE  \A f \in Tied(p) : /\ copy'[d][p].etag[f] <= copy'[d][p].body[f]
                                           /\ copy'[d][p].body[f] <= files'[f]
      BY DEF CopyInv
    <3>1. CASE d = c /\ p = page[c]
      BY <2>1, <2>3, <2>4, <3>1
    <3>2. CASE d # c \/ p # page[c]
      BY <2>2, <3>2 DEF CopyInv
    <3> QED
      BY <3>1, <3>2
  <2>6. StepInv'
    BY <2>1, <2>2, <2>4 DEF StepInv, NoResponse
  <2>7. NotModifiedIsTrue'
    <3> SUFFICES ASSUME NEW e \in Clients, at'[e] = "sent", response'[e].status = 304,
                        Confined(page'[e])
                 PROVE  Confirms(page[e], copy'[e][page[e]], data[e], Content(e)')
      BY DEF NotModifiedIsTrue, Confirms
    <3>1. e # c
      BY DEF NoResponse
    <3>2. copy'[e][page[e]] = copy[e][page[e]] /\ Content(e)' = Content(e)
      BY <2>2, <3>1 DEF Content
    <3> QED
      BY <3>1, <3>2 DEF NotModifiedIsTrue, Confirms
  <2> QED
    BY <1>1, <1>2, <2>5, <2>6, <2>7
<1> QED
  BY <1>3, <1>4

\* Every step keeps the invariant.
LEMMA InvStep == Inv /\ [Next]_vars => Inv'
<1> SUFFICES ASSUME Inv, [Next]_vars PROVE Inv'
  OBVIOUS
<1> DEFINE Rest == CopyInv /\ ReadInv /\ TagInv /\ StepInv /\ ModeInv /\ NotModifiedIsTrue
<1>1. RendererTypeOK'
  BY TypeStep DEF Inv
<1>2. ASSUME NEW f \in Files, Edit(f) PROVE Rest'
  BY <1>2, EditStep
<1>3. ASSUME Restart PROVE Rest'
  BY <1>3, RestartStep
<1>4. ASSUME NEW c \in Clients, NEW p \in Pages, NEW d \in Data, NEW cond \in BOOLEAN,
             CacheablePage(c, p, d, cond)
      PROVE  Rest'
  BY <1>4, CallStep DEF CacheablePage
<1>5. ASSUME NEW c \in Clients, NEW p \in Pages, NEW d \in Data, Page(c, p, d) PROVE Rest'
  BY <1>5, CallStep DEF Page
<1>6. ASSUME NEW c \in Clients, NEW f \in Files, Read(c, f) PROVE Rest'
  BY <1>6, ReadStep
<1>7. ASSUME NEW c \in Clients, NoEtagSegments(c) PROVE Rest'
  <2>1. [NoResponse EXCEPT !.status = 500] \in Responses
    BY NoResponseType, FailedType
  <2>2. ~[NoResponse EXCEPT !.status = 500].tagged /\ [NoResponse EXCEPT !.status = 500].status = 500
    BY NoResponseType DEF Responses, NoResponse
  <2> QED
    BY <1>7, <2>1, <2>2, ErrorStep DEF NoEtagSegments
<1>8. ASSUME NEW c \in Clients, NotModified(c) PROVE Rest'
  BY <1>8, NotModifiedStep
<1>9. ASSUME NEW c \in Clients, Modified(c) PROVE Rest'
  BY <1>9, ModifiedStep
<1>10. ASSUME NEW c \in Clients, Rendered(c) PROVE Rest'
  BY <1>10, RenderedStep
<1>11. ASSUME NEW c \in Clients, Fails(c) PROVE Rest'
  <2>1. response[c] \in Responses
    BY DEF Inv, RendererTypeOK
  <2>2. [response[c] EXCEPT !.status = 500] \in Responses
    BY <2>1, FailedType
  <2>3. [response[c] EXCEPT !.status = 500].status = 500
        /\ [response[c] EXCEPT !.status = 500].tagged = response[c].tagged
    BY <2>1 DEF Responses
  <2> QED
    BY <1>11, <2>2, <2>3, ErrorStep DEF Fails
<1>12. ASSUME NEW c \in Clients, Receive(c) PROVE Rest'
  BY <1>12, ReceiveStep
<1>13. ASSUME UNCHANGED vars PROVE Rest'
  BY <1>13 DEF vars, serverVars, reqVars, Inv, CopyInv, ReadInv, TagInv, StepInv, ModeInv,
               NotModifiedIsTrue, Content
<1>14. Rest'
  BY <1>2, <1>3, <1>4, <1>5, <1>6, <1>7, <1>8, <1>9, <1>10, <1>11, <1>12, <1>13 DEF Next
<1> QED
  BY <1>1, <1>14 DEF Inv

\* The inductive invariant of a renderer and its clients, for any files,
\* directories, clients and histories.
THEOREM RendererInvariant == Spec => []Inv
BY InvInit, InvStep, PTL DEF Spec

\* A client that CacheablePage answers with 304 has what would be rendered
\* from the files as this request read them, but for texts that run together
\* and undone edits.
THEOREM NotModifiedIsRight == Spec => []NotModifiedIsTrue
<1>1. Inv => NotModifiedIsTrue
  BY DEF Inv
<1> QED
  BY <1>1, RendererInvariant, PTL

\* A 304 confirms nothing but the texts as the renderer read them.
NotModifiedIsFresh ==
  \A c \in Clients : at[c] = "sent" /\ response[c].status = 304 /\ Confined(page[c]) =>
    \A f \in Uses[page[c]] : TextOf(f, copy[c][page[c]].body) = TextOf(f, Content(c))

\* Where no two contents of the files run together and no file gets a text back,
\* a 304 confirms nothing but what would be rendered.
THEOREM FreshWhereTextsDiffer ==
  ASSUME \A p \in Pages, v \in Contents, w \in Contents : ~RunTogether(p, v, w),
         \A f \in Templates, v \in Contents, w \in Contents :
           v[f] < w[f] => TextOf(f, v) # TextOf(f, w)
  PROVE  Spec => []NotModifiedIsFresh
<1>1. Inv => NotModifiedIsFresh
  <2> SUFFICES ASSUME Inv, NEW c \in Clients, at[c] = "sent", response[c].status = 304,
                      Confined(page[c]), NEW f \in Uses[page[c]]
               PROVE  TextOf(f, copy[c][page[c]].body) = TextOf(f, Content(c))
    BY DEF NotModifiedIsFresh
  <2> DEFINE k == copy[c][page[c]]
  <2>1. page[c] \in Pages /\ k.etag \in Contents /\ k.body \in Contents
        /\ Content(c) \in Contents
    BY RequestTypes DEF Inv, RendererTypeOK
  <2>2. f \in Templates /\ f \in Files
    BY <2>1, FilesAssumption DEF Files
  <2>3. ~RunTogether(page[c], k.etag, Content(c))
    BY <2>1
  <2>4. TextOf(f, k.body) = TextOf(f, Content(c)) \/ Undone(f, k.etag, k.body, Content(c))
    BY <2>3 DEF Inv, NotModifiedIsTrue
  <2>5. ~Undone(f, k.etag, k.body, Content(c))
    <3>1. k.etag[f] \in Nat /\ k.body[f] \in Nat /\ Content(c)[f] \in Nat
      BY <2>1, <2>2 DEF Contents
    <3> HIDE DEF k
    <3>2. ASSUME k.etag[f] < Content(c)[f]
          PROVE  TextOf(f, k.etag) # TextOf(f, Content(c))
      BY <2>1, <2>2, <3>2
    <3> QED
      BY <3>1, <3>2 DEF Undone
  <2> QED
    BY <2>4, <2>5
<1> QED
  BY <1>1, RendererInvariant, PTL

\* No copy has an ETag that is newer than its body.
THEOREM EtagsNeverNewer == Spec => []EtagNeverNewer
<1>1. Inv => EtagNeverNewer
  BY DEF Inv, CopyInv, EtagNeverNewer, Tied
<1> QED
  BY <1>1, RendererInvariant, PTL
=============================================================================
