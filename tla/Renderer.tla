------------------------------ MODULE Renderer ------------------------------
(***************************************************************************)
(* template-rendering.go, embeds.go, template-fingerprints.go, etags.go:   *)
(* a TemplateRenderer, the files it renders pages from, and clients that   *)
(* keep copies of pages and revalidate them with If-None-Match.            *)
(*                                                                         *)
(* The content of a file is the number of times it was edited, which says  *)
(* which text of its history it has: an edit that is undone gives it a     *)
(* text that it had before.  A partial, a layout or an asset that does not *)
(* exist has an empty text, so that adding, removing and renaming one are  *)
(* edits.                                                                  *)
(*                                                                         *)
(* Hashes and encodings are taken to be injective on what they are given,  *)
(* which is the texts of several files one after the other, with nothing   *)
(* between them.  A lazy renderer reads the files for every request, one   *)
(* after the other; a preloaded one when the process starts.               *)
(***************************************************************************)
EXTENDS Naturals, Sequences, FiniteSets
LOCAL INSTANCE SequencesExt

CONSTANTS Pages, Nonpages, Assets, \* page templates; partials and layouts;
                                   \* the scripts and styles of the app
          Dir,       \* the directory of a template, as a sequence of names
          Uses,      \* the templates that rendering a page executes
          History,   \* the texts that a file has in turn, each a sequence of
                     \* pieces; bounds the edits of a file
          Walk,      \* all files, in the order in which listFiles finds them
          Data,      \* what handlers render: template and auth data
          Clients,
          Modes      \* of "lazy" and "preloaded"

Templates == Pages \cup Nonpages
Files == Templates \cup Assets

ASSUME FilesAssumption ==
  /\ Dir \in [Templates -> Seq(STRING)]
  /\ Uses \in [Pages -> SUBSET Templates]
  /\ Modes \subseteq {"lazy", "preloaded"}
  /\ History \in [Files -> Seq(Seq(STRING)) \ {<<>>}]
  /\ Walk \in [1 .. Cardinality(Files) -> Files]
  /\ \A f \in Files : \E i \in DOMAIN Walk : Walk[i] = f

VARIABLES
  files,         \* the content of the files
  mode,
  templates,     \* the content that a preloaded renderer parsed
  fingerprints,  \* tr.fingerprints: whether it is set, the pages in its map,
                 \* and the content it was computed from
  at,            \* a client's request: "idle", in CacheablePage
                 \* "fingerprints", in Page "templates", "sent" when answered
  page, data,    \* what it is for
  conditional,   \* it has the Etag of the client's copy in If-None-Match
  read, seen,    \* the files a lazy renderer has read in this step, and
                 \* their content
  response,      \* status, whether and which Etag, and body
  copy           \* client, page -> the last cacheable page it got

serverVars == <<mode, templates, fingerprints>>
reqVars == <<at, page, data, conditional, read, seen, response>>
vars == <<files, serverVars, reqVars, copy>>

-----------------------------------------------------------------------------
(* Fingerprints *)

Contents == {v \in [Files -> Nat] : \A f \in Files : v[f] < Len(History[f])}
Zero == [f \in Files |-> 0]

TextOf(f, content) == History[f][content[f] + 1]

\* readConcatenated
Concatenated(S, content) ==
  FlattenSeq([i \in DOMAIN Walk |-> IF Walk[i] \in S THEN TextOf(Walk[i], content) ELSE <<>>])

Under(dir) == {t \in Templates : Len(dir) <= Len(Dir[t]) /\ SubSeq(Dir[t], 1, Len(dir)) = dir}

\* computeAppFingerprint: the assets and all templates in shared/
AppFiles == Assets \cup Under(<<"shared">>)

\* identifyModuleNonpageFiles: every directory but shared is a module, the
\* root under the empty name
Modules ==
  (UNION {{SubSeq(Dir[t], 1, n) : n \in 0 .. Len(Dir[t])} : t \in Templates}) \ {<<"shared">>}
ModuleNonpageFiles(m) == IF m \in Modules THEN Nonpages \cap Under(m) ELSE {}

\* path.Dir, which calls the root "."
ModuleOf(p) == IF Dir[p] = <<>> THEN <<".">> ELSE Dir[p]

\* A mutant: partials and layouts do not count.
PageFilesMutant(p) == {p}

\* computePageFingerprints
PageFiles(p) == {p} \cup ModuleNonpageFiles(ModuleOf(p))

\* What the ETag of a page is computed from
Covered(p) == AppFiles \cup PageFiles(p)

\* What is hashed for the app and for a page
AppText(content) == Concatenated(Assets, content) \o Concatenated(Under(<<"shared">>), content)
PageText(p, content) == TextOf(p, content) \o Concatenated(PageFiles(p) \ {p}, content)

\* The fingerprints of a page are the same for two contents of the files.
SameFingerprints(p, v, w) == AppText(v) = AppText(w) /\ PageText(p, v) = PageText(p, w)

NoFingerprints == [set |-> FALSE, pages |-> {}, content |-> Zero]

\* getFingerprints, when the files have this content
GetFingerprints(f, content) ==
  IF f.set THEN f ELSE [set |-> TRUE, pages |-> Pages, content |-> content]

\* A mutant: every template gets a fingerprint.
NewFingerprintsMutant(m, content) ==
  IF m = "lazy" THEN NoFingerprints
  ELSE [NoFingerprints EXCEPT !.set = TRUE, !.pages = Templates]

\* NewTemplateRenderer and NewLazyTemplateRenderer
NewFingerprints(m, content) ==
  IF m = "lazy" THEN NoFingerprints
  ELSE GetFingerprints([NoFingerprints EXCEPT !.set = TRUE], content)

NoResponse == [status |-> 0, tagged |-> FALSE, etag |-> Zero, body |-> Zero]

Init ==
  /\ files = Zero
  /\ mode \in Modes
  /\ templates = Zero
  /\ fingerprints = NewFingerprints(mode, Zero)
  /\ at = [c \in Clients |-> "idle"]
  /\ page \in [Clients -> Pages]
  /\ data \in [Clients -> Data]
  /\ conditional = [c \in Clients |-> FALSE]
  /\ read = [c \in Clients |-> {}]
  /\ seen = [c \in Clients |-> Zero]
  /\ response = [c \in Clients |-> NoResponse]
  /\ copy = [c \in Clients |->
               [p \in Pages |-> [held |-> FALSE, etag |-> Zero, body |-> Zero, data |-> data[c]]]]

-----------------------------------------------------------------------------
(* The world *)

\* A file gets its next text
Edit(f) ==
  /\ files[f] + 1 < Len(History[f])
  /\ files' = [files EXCEPT ![f] = @ + 1]
  /\ UNCHANGED <<serverVars, reqVars, copy>>

\* The process is started again; requests are lost, copies are not
Restart ==
  /\ templates' = files
  /\ fingerprints' = NewFingerprints(mode, files)
  /\ at' = [c \in Clients |-> "idle"]
  /\ conditional' = [c \in Clients |-> FALSE]
  /\ read' = [c \in Clients |-> {}]
  /\ seen' = [c \in Clients |-> Zero]
  /\ response' = [c \in Clients |-> NoResponse]
  /\ UNCHANGED <<files, mode, page, data, copy>>

\* A handler calls CacheablePage or Page for a request
Calls(c, p, d, step, cond) ==
  /\ at[c] = "idle"
  /\ at' = [at EXCEPT ![c] = step]
  /\ page' = [page EXCEPT ![c] = p]
  /\ data' = [data EXCEPT ![c] = d]
  /\ conditional' = [conditional EXCEPT ![c] = cond]
  /\ UNCHANGED <<files, serverVars, read, seen, response, copy>>

CacheablePage(c, p, d, cond) ==
  /\ cond => copy[c][p].held
  /\ Calls(c, p, d, "fingerprints", cond)

Page(c, p, d) == Calls(c, p, d, "templates", FALSE)

\* The client keeps a page that has an Etag; an answer may get lost
Keeps(c) == response[c].status = 200 /\ response[c].tagged

Receive(c) ==
  /\ at[c] = "sent"
  /\ at' = [at EXCEPT ![c] = "idle"]
  /\ conditional' = [conditional EXCEPT ![c] = FALSE]
  /\ read' = [read EXCEPT ![c] = {}]
  /\ seen' = [seen EXCEPT ![c] = Zero]
  /\ response' = [response EXCEPT ![c] = NoResponse]
  /\ \/ /\ Keeps(c)
        /\ copy' = [copy EXCEPT ![c][page[c]] =
                      [held |-> TRUE, etag |-> response[c].etag, body |-> response[c].body,
                       data |-> data[c]]]
     \/ UNCHANGED copy
  /\ UNCHANGED <<files, serverVars, page, data>>

-----------------------------------------------------------------------------
(* Requests *)

\* The files a lazy renderer reads in this step
Wanted(c) ==
  CASE at[c] = "fingerprints" -> Covered(page[c])
    [] at[c] = "templates" -> Uses[page[c]]
    [] OTHER -> {}

Read(c, f) ==
  /\ mode = "lazy"
  /\ f \in Wanted(c) \ read[c]
  /\ read' = [read EXCEPT ![c] = @ \cup {f}]
  /\ seen' = [seen EXCEPT ![c][f] = files[f]]
  /\ UNCHANGED <<files, serverVars, at, page, data, conditional, response, copy>>

\* A mutant: the templates that were parsed first are used for good.
ContentMutant(c) == IF at[c] = "templates" THEN templates ELSE seen[c]

\* What a step works on, once it has read its files
Content(c) == IF mode = "lazy" THEN seen[c] ELSE templates
Ready(c) == mode = "lazy" => read[c] = Wanted(c)

Sends(c, r) ==
  /\ at' = [at EXCEPT ![c] = "sent"]
  /\ response' = [response EXCEPT ![c] = r]
  /\ UNCHANGED <<files, serverVars, page, data, conditional, read, seen, copy>>

Fingerprints(c) == GetFingerprints(fingerprints, Content(c))

\* An ETag stands for the content that it was computed from.
Etag(c) == Fingerprints(c).content

AtFingerprints(c) == at[c] = "fingerprints" /\ Ready(c)

\* getEtagSegments finds no fingerprint of the page.  Without a name of a page it
\* gives that of the app alone, which is left out: no page is rendered then.
NoEtagSegments(c) ==
  /\ AtFingerprints(c) /\ page[c] \notin Fingerprints(c).pages
  /\ Sends(c, [NoResponse EXCEPT !.status = 500])

\* checkEtagMatch
EtagMatches(c) ==
  /\ conditional[c]
  /\ SameFingerprints(page[c], copy[c][page[c]].etag, Etag(c))
  /\ copy[c][page[c]].data = data[c]

NotModified(c) ==
  /\ AtFingerprints(c) /\ page[c] \in Fingerprints(c).pages /\ EtagMatches(c)
  /\ Sends(c, [status |-> 304, tagged |-> TRUE, etag |-> Etag(c), body |-> Zero])

\* setEtag, and on to Page
Modified(c) ==
  /\ AtFingerprints(c) /\ page[c] \in Fingerprints(c).pages /\ ~EtagMatches(c)
  /\ at' = [at EXCEPT ![c] = "templates"]
  /\ response' = [response EXCEPT ![c] = [@ EXCEPT !.tagged = TRUE, !.etag = Etag(c)]]
  /\ read' = [read EXCEPT ![c] = {}]
  /\ seen' = [seen EXCEPT ![c] = Zero]
  /\ UNCHANGED <<files, serverVars, page, data, conditional, copy>>

Rendered(c) ==
  /\ at[c] = "templates" /\ Ready(c)
  /\ Sends(c, [response[c] EXCEPT !.status = 200, !.body = Content(c)])

\* Reading, parsing, encoding or executing fails.  A header that was set stays.
Fails(c) ==
  /\ at[c] \in {"fingerprints", "templates"}
  /\ Sends(c, [response[c] EXCEPT !.status = 500])

Next ==
  \/ \E f \in Files : Edit(f)
  \/ Restart
  \/ \E c \in Clients, p \in Pages, d \in Data :
       \/ \E cond \in BOOLEAN : CacheablePage(c, p, d, cond)
       \/ Page(c, p, d)
  \/ \E c \in Clients :
       \/ \E f \in Files : Read(c, f)
       \/ NoEtagSegments(c) \/ NotModified(c) \/ Modified(c)
       \/ Rendered(c) \/ Fails(c) \/ Receive(c)

Spec == Init /\ [][Next]_vars

-----------------------------------------------------------------------------
(* Properties *)

Responses ==
  [status : {0, 200, 304, 500}, tagged : BOOLEAN, etag : Contents, body : Contents]

\* The types of the renderer's and the clients' state
RendererTypeOK ==
  /\ files \in Contents
  /\ mode \in Modes
  /\ templates \in Contents
  /\ fingerprints \in [set : BOOLEAN, pages : SUBSET Pages, content : Contents]
  /\ at \in [Clients -> {"idle", "fingerprints", "templates", "sent"}]
  /\ page \in [Clients -> Pages]
  /\ data \in [Clients -> Data]
  /\ conditional \in [Clients -> BOOLEAN]
  /\ read \in [Clients -> SUBSET Files]
  /\ seen \in [Clients -> Contents]
  /\ response \in [Clients -> Responses]
  /\ copy \in [Clients -> [Pages -> [held : BOOLEAN, etag : Contents, body : Contents,
                                     data : Data]]]

\* A page that executes what its fingerprint should cover: itself, the partials
\* and layouts of its module and of the modules inside it, and shared templates
Confined(p) ==
  /\ Dir[p] # <<>>
  /\ Uses[p] \subseteq {p} \cup (Nonpages \cap Under(Dir[p])) \cup Under(<<"shared">>)

\* Two contents that give a page the same fingerprints, although they do not
\* give each file the same text
RunTogether(p, v, w) ==
  SameFingerprints(p, v, w) /\ \E f \in Covered(p) : TextOf(f, v) # TextOf(f, w)

\* After content w the file has again the text that it had before, in v
Undone(f, v, w, x) == v[f] < w[f] /\ w[f] < x[f] /\ TextOf(f, v) = TextOf(f, x)

\* A client that is told 304 has the texts of the templates as the renderer read
\* them for this request, and the data, however edits fell between the steps of
\* its earlier requests; but for two cases.  Text may have moved from one file to
\* another so that what is hashed is the same, and a file that was edited between
\* the fingerprints and the rendering may have been edited back.
NotModifiedIsTrue ==
  \A c \in Clients : at[c] = "sent" /\ response[c].status = 304 /\ Confined(page[c]) =>
    LET k == copy[c][page[c]] IN
    /\ k.data = data[c]
    /\ \/ RunTogether(page[c], k.etag, Content(c))
       \/ \A f \in Uses[page[c]] : \/ TextOf(f, k.body) = TextOf(f, Content(c))
                                   \/ Undone(f, k.etag, k.body, Content(c))

\* The ETag of a copy is never newer than its body, for a file that both depend
\* on: files may be edited between the fingerprints and the rendering, and a
\* copy with the Etag of what it does not show yet would be confirmed for good
EtagNeverNewer ==
  \A c \in Clients, p \in Pages : copy[c][p].held =>
    \A f \in Uses[p] \cap Covered(p) : copy[c][p].etag[f] <= copy[c][p].body[f]
=============================================================================
