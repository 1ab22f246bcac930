------------------------- MODULE DocumentEditorProofs -------------------------
(***************************************************************************)
(* Proofs about DocumentEditor, for every set of documents, fields and     *)
(* values, and however much the user, the server and other authors do.     *)
(***************************************************************************)
EXTENDS DocumentEditor, TLAPS

-----------------------------------------------------------------------------
(* The inductive invariant. Its parts take the history they refer to, S    *)
(* what documents have held or were cached with and T what was typed or    *)
(* uploaded into them, as parameters: both only grow.                      *)

Pages ==
    [at : Ids \cup {New, List}, visit : Nat, form : Partial, base : Partial,
     pending : Partial, loaded : BOOLEAN, ready : BOOLEAN, new : Content,
     last : Nat \cup {None}, back : BOOLEAN, diff : [Ids -> Differences] \cup {None},
     diffLoaded : BOOLEAN, waiting : BOOLEAN]

Kinds == {"create", "update", "restore", "delete", "push", "pull", "upload"}

Routes  == Ids \cup {New, List}
Answers == Cached \cup {None, "deleted", "pushed", "uploaded"}

Requests ==
    [id : Nat, kind : Kinds, doc : Routes, to : Routes, body : Partial, visit : Nat,
     at : {"sent", "answered"}, answer : Answers]

\* Kinds whose answer is a document, whose body is a whole one, and whose body
\* is what was put into the document in the route.
Answering == {"create", "update", "restore", "pull"}
Whole     == {"create", "restore"}
Putting   == {"update", "upload"}

Seen    == stored \cup misplaced
Entered == typed \cup strayed

\* The document d has held the content of v.
Held(d, v, S) == v # None => \A f \in Fields : <<d, f, v.content[f]>> \in S

\* The form shows what the document in the route has held or was put into it,
\* and the edits to send were put into it.
PageGood(p, S, T) ==
    /\ p \in Pages
    /\ \A f \in Fields : p.form[f] # None => <<p.at, f, p.form[f]>> \in S \cup T
    /\ \A f \in Fields : p.pending[f] # None => <<p.at, f, p.pending[f]>> \in T

\* What is cached of a document, and what is on its way, it has held.
EntryGood(q, d, S) ==
    /\ q \in Entries(Cached)
    /\ Held(d, q.data, S) /\ Held(d, q.fetch.value, S)

\* What may be sent of the kind with body from the route at.
Sendable(kind, at, body, T) ==
    /\ kind \notin {"create", "upload"} => at \in Ids
    /\ kind \in Whole \/ (kind = "upload" /\ at = New) => body \in Content
    /\ kind \in Putting /\ at # New =>
          \A f \in Fields : body[f] # None => <<at, f, body[f]>> \in T

\* An update sends what was put into the document it names; an answer is what
\* the document it names has held.
RequestGood(r, S, T) ==
    /\ r \in Requests
    /\ Sendable(r.kind, r.doc, r.body, T)
    /\ r.kind = "update" => r.to \in Ids \cup {New}
    /\ r.at = "answered" /\ r.answer # None /\ r.kind \in Answering =>
          r.doc \in Ids /\ r.answer \in Cached /\ Held(r.doc, r.answer, S)

ServerOK ==
    /\ draft \in [Ids -> Row \cup {None}] /\ prod \in [Ids -> Row \cup {None}]
    /\ versions \in [Ids -> Seq(Content)]

DraftsHeld == \A d \in Ids : Held(d, draft[d], stored)
DetailInv  == detail \in [Ids -> Entries(Cached)] /\ \A d \in Ids : EntryGood(detail[d], d, Seen)
DiffOK     == diff \in Entries([Ids -> Differences]) /\ schema \in Entries({"fields", "empty"})
CountsOK   == {sent, edits, events} \subseteq Nat

IInv ==
    /\ ServerOK /\ DraftsHeld /\ DetailInv /\ DiffOK /\ CountsOK
    /\ PageGood(page, Seen, Entered)
    /\ \A r \in requests : RequestGood(r, Seen, Entered)

-----------------------------------------------------------------------------
(* The history only grows.                                                 *)

LEMMA HeldGrows ==
  ASSUME NEW d, NEW v, NEW S, NEW S1, S \subseteq S1, Held(d, v, S)
  PROVE  Held(d, v, S1)
BY DEF Held

LEMMA PageGrows ==
  ASSUME NEW p, NEW S, NEW T, NEW S1, NEW T1, S \subseteq S1, T \subseteq T1,
         PageGood(p, S, T)
  PROVE  PageGood(p, S1, T1)
BY DEF PageGood

LEMMA EntryGrows ==
  ASSUME NEW q, NEW d, NEW S, NEW S1, S \subseteq S1, EntryGood(q, d, S)
  PROVE  EntryGood(q, d, S1)
BY HeldGrows DEF EntryGood

LEMMA RequestGrows ==
  ASSUME NEW r, NEW S, NEW T, NEW S1, NEW T1, S \subseteq S1, T \subseteq T1,
         RequestGood(r, S, T)
  PROVE  RequestGood(r, S1, T1)
BY HeldGrows DEF RequestGood, Sendable

-----------------------------------------------------------------------------
(* Entries of the query cache.                                             *)

LEMMA EmptyOK ==
  ASSUME NEW D
  PROVE  EmptyEntry \in Entries(D) /\ EmptyEntry.data = None /\ EmptyEntry.fetch.value = None
BY DEF EmptyEntry, Entries, Idle

LEMMA AskOK ==
  ASSUME NEW D, NEW q \in Entries(D)
  PROVE  /\ Ask(q) \in Entries(D) /\ Ask(q).data = q.data
         /\ Ask(q).fetch.value = q.fetch.value
BY DEF Ask, Entries, Idle

LEMMA SetDataOK ==
  ASSUME NEW D, NEW q \in Entries(D), NEW v \in D \cup {None}
  PROVE  /\ SetData(q, v) \in Entries(D)
         /\ SetData(q, v).data = v /\ SetData(q, v).fetch = q.fetch
BY DEF SetData, Entries

LEMMA IdledOK ==
  ASSUME NEW D, NEW q \in Entries(D)
  PROVE  /\ [q EXCEPT !.fetch = Idle] \in Entries(D)
         /\ [q EXCEPT !.fetch = Idle].data = q.data /\ [q EXCEPT !.fetch = Idle].fetch = Idle
BY DEF Entries, Idle

LEMMA FailedOK ==
  ASSUME NEW D, NEW q \in Entries(D), NEW error \in {"failed", "gone"}
  PROVE  /\ Failed(q, error) \in Entries(D) /\ Failed(q, error).data = q.data
         /\ Failed(q, error).fetch.value = None
BY DEF Failed, Entries, Idle

LEMMA AnsweredOK ==
  ASSUME NEW D, NEW q \in Entries(D), NEW v \in D
  PROVE  /\ [q EXCEPT !.fetch = Answered(v)] \in Entries(D)
         /\ [q EXCEPT !.fetch = Answered(v)].data = q.data
         /\ [q EXCEPT !.fetch = Answered(v)].fetch.value = v
BY DEF Answered, Entries

LEMMA AgedOK ==
  ASSUME NEW D, NEW q \in Entries(D)
  PROVE  /\ [q EXCEPT !.stale = TRUE] \in Entries(D)
         /\ [q EXCEPT !.stale = TRUE].data = q.data
         /\ [q EXCEPT !.stale = TRUE].fetch = q.fetch
BY DEF Entries

LEMMA ArrivedOK ==
  ASSUME NEW D, NEW q \in Entries(D)
  PROVE  /\ Arrived(q) \in Entries(D)
         /\ Arrived(q).fetch.value = None /\ Arrived(q).data = q.fetch.value
<1>1. q.fetch.value \in D \cup {None}
  BY DEF Entries
<1>2. [q EXCEPT !.fetch = Idle] \in Entries(D) /\ [q EXCEPT !.fetch = Idle].fetch = Idle
  BY IdledOK
<1>3. /\ Arrived(q) \in Entries(D) /\ Arrived(q).data = q.fetch.value
      /\ Arrived(q).fetch = Idle
  BY <1>1, <1>2, SetDataOK DEF Arrived
<1> QED
  BY <1>3 DEF Idle

\* The cached document after a write of the cache, and after an answer.
LEMMA EntrySet ==
  ASSUME NEW q, NEW d, NEW S, EntryGood(q, d, S), NEW v \in Cached, Held(d, v, S)
  PROVE  EntryGood(SetData(q, v), d, S) /\ SetData(q, v).data = v
BY SetDataOK DEF EntryGood

LEMMA EntryAsk ==
  ASSUME NEW q, NEW d, NEW S, EntryGood(q, d, S)
  PROVE  EntryGood(Ask(q), d, S)
BY AskOK DEF EntryGood

LEMMA EntryArrived ==
  ASSUME NEW q, NEW d, NEW S, EntryGood(q, d, S)
  PROVE  EntryGood(Arrived(q), d, S)
BY ArrivedOK DEF EntryGood, Held

LEMMA EntryFailed ==
  ASSUME NEW q, NEW d, NEW S, EntryGood(q, d, S), NEW error \in {"failed", "gone"}
  PROVE  EntryGood(Failed(q, error), d, S)
BY FailedOK DEF EntryGood, Held

-----------------------------------------------------------------------------
(* The page.                                                               *)

LEMMA NothingOK == Nothing \in Partial /\ Content \subseteq Partial
BY DEF Nothing, Partial, Content

LEMMA OnlyOK ==
  ASSUME NEW f \in Fields, NEW v \in Values
  PROVE  /\ Only(f, v) \in Partial
         /\ \A g \in Fields : Only(f, v)[g] # None => g = f /\ Only(f, v)[g] = v
BY DEF Only, Nothing, Partial

LEMMA LoadOK ==
  ASSUME NEW p, NEW S, NEW T, PageGood(p, S, T), NEW q, EntryGood(q, p.at, S), NEW fields
  PROVE  PageGood(Load(p, q, fields), S, T) /\ Load(p, q, fields).at = p.at
<1>1. CASE OnDocument(p) /\ ~p.loaded /\ fields # None /\ q.data # None
  <2> DEFINE c == q.data.content
             l == Load(p, q, fields)
  <2>1. q.data \in Cached /\ c \in Content /\ \A f \in Fields : <<p.at, f, c[f]>> \in S
    BY <1>1 DEF EntryGood, Entries, Held, Cached
  <2>2. l = [p EXCEPT !.form = c, !.base = c, !.loaded = TRUE]
    BY <1>1 DEF Load
  <2> HIDE DEF c, l
  <2>3. c \in Partial
    BY <2>1, NothingOK
  <2>4. l \in Pages
    BY <2>2, <2>3 DEF PageGood, Pages
  <2>5. l.form = c /\ l.at = p.at /\ l.pending = p.pending
    BY <2>2 DEF PageGood, Pages
  <2>6. PageGood(l, S, T)
    BY <2>1, <2>4, <2>5 DEF PageGood
  <2> QED
    BY <2>5, <2>6 DEF l
<1>2. CASE ~(OnDocument(p) /\ ~p.loaded /\ fields # None /\ q.data # None)
  BY <1>2 DEF Load
<1> QED
  BY <1>1, <1>2

LEMMA RenderedOK ==
  ASSUME NEW p, NEW S, NEW T, PageGood(p, S, T), NEW q, EntryGood(q, p.at, S), NEW fields
  PROVE  PageGood(Rendered(p, q, fields), S, T) /\ Rendered(p, q, fields).at = p.at
<1> DEFINE l == Load(p, q, fields)
<1>1. PageGood(l, S, T) /\ l.at = p.at
  BY LoadOK
<1>2. Rendered(p, q, fields) \in {l, [l EXCEPT !.ready = TRUE]}
  BY DEF Rendered
<1> HIDE DEF l
<1>3. PageGood([l EXCEPT !.ready = TRUE], S, T) /\ [l EXCEPT !.ready = TRUE].at = l.at
  BY <1>1 DEF PageGood, Pages
<1> QED
  BY <1>1, <1>2, <1>3

\* A page whose form and edits have been reset is good wherever it is.
LEMMA EmptyPageGood ==
  ASSUME NEW p \in Pages, NEW S, NEW T, p.form = Nothing, p.pending = Nothing
  PROVE  PageGood(p, S, T)
BY DEF PageGood, Nothing

LEMMA LeftOK ==
  ASSUME NEW p \in Pages
  PROVE  Left(p) \in Pages /\ Left(p).form = Nothing /\ Left(p).pending = Nothing
BY NothingOK DEF Left, Reset, Pages

LEMMA RefreshDiffOK ==
  ASSUME NEW p \in Pages, DiffOK
  PROVE  /\ RefreshDiff(p) \in Pages /\ RefreshDiff(p).at = p.at
         /\ RefreshDiff(p).form = p.form /\ RefreshDiff(p).pending = p.pending
BY DEF RefreshDiff, Pages, DiffOK, Entries

LEMMA RefreshedGood ==
  ASSUME NEW p, NEW S, NEW T, PageGood(p, S, T), DiffOK
  PROVE  PageGood(RefreshDiff(p), S, T) /\ RefreshDiff(p).at = p.at
BY RefreshDiffOK DEF PageGood

LEMMA MountedOK ==
  ASSUME page \in Pages, DiffOK, NEW at \in Ids \cup {New, List}
  PROVE  /\ Mounted(at) \in Pages /\ Mounted(at).at = at
         /\ Mounted(at).form = Nothing /\ Mounted(at).pending = Nothing
<1> DEFINE p == [at |-> at, visit |-> page.visit + 1, form |-> Nothing, base |-> Nothing,
                 pending |-> Nothing, loaded |-> FALSE, ready |-> FALSE,
                 new |-> [f \in Fields |-> Default], last |-> None, back |-> FALSE,
                 diff |-> diff.data, diffLoaded |-> diff.data # None, waiting |-> FALSE]
<1>1. diff.data \in [Ids -> Differences] \cup {None} /\ page.visit + 1 \in Nat
  BY DEF DiffOK, Entries, Pages
<1>2. [f \in Fields |-> Default] \in Content
  BY EditorAssumption DEF Content
<1>3. p \in Pages /\ p.at = at /\ p.form = Nothing /\ p.pending = Nothing
  BY <1>1, <1>2, NothingOK DEF Pages
<1>4. Mounted(at) = RefreshDiff(p)
  BY DEF Mounted
<1> HIDE DEF p
<1> QED
  BY <1>3, <1>4, RefreshDiffOK

LEMMA NavigatedGood ==
  ASSUME page \in Pages, DiffOK, NEW d \in Ids, NEW S, NEW T
  PROVE  PageGood(Navigated(d), S, T) /\ Navigated(d).at = d
<1>1. CASE page.at = List
  BY <1>1, MountedOK, EmptyPageGood DEF Navigated
<1>2. CASE page.at # List
  <2> DEFINE back == page.at = New
  <2>1. Navigated(d) = [Reset(page) EXCEPT !.at = d, !.back = back]
    BY <1>2 DEF Navigated
  <2>2. back \in BOOLEAN /\ d \in Ids \cup {New, List}
    OBVIOUS
  <2> HIDE DEF back
  <2>3. /\ Navigated(d) \in Pages /\ Navigated(d).at = d
        /\ Navigated(d).form = Nothing /\ Navigated(d).pending = Nothing
    BY <2>1, <2>2, NothingOK DEF Reset, Pages
  <2> QED
    BY <2>3, EmptyPageGood
<1> QED
  BY <1>1, <1>2

LEMMA SyncedGood ==
  ASSUME NEW p, NEW S, NEW T, PageGood(p, S, T)
  PROVE  PageGood(Synced(p), S, T) /\ Synced(p).at = p.at
<1>1. /\ Synced(p) \in Pages /\ Synced(p).at = p.at /\ Synced(p).form = p.form
      /\ Synced(p).pending = Nothing
  BY NothingOK DEF Synced, PageGood, Pages
<1> QED
  BY <1>1 DEF PageGood, Nothing

-----------------------------------------------------------------------------
(* The parts of the invariant that a step leaves alone.                    *)

RequestsInv == \A r \in requests : RequestGood(r, Seen, Entered)
PageInv     == PageGood(page, Seen, Entered)

Grows == Seen \subseteq Seen' /\ Entered \subseteq Entered'

LEMMA SamePage ==
  ASSUME PageInv, Grows, page' = page
  PROVE  PageInv'
BY PageGrows DEF PageInv, Grows

LEMMA SameDetail ==
  ASSUME DetailInv, Grows, detail' = detail
  PROVE  DetailInv'
BY EntryGrows DEF DetailInv, Grows

\* One cached document is replaced by another that is as good.
LEMMA PutDetail ==
  ASSUME DetailInv, Grows, NEW d \in Ids, NEW q, EntryGood(q, d, Seen'),
         detail' = [detail EXCEPT ![d] = q]
  PROVE  DetailInv' /\ detail'[d] = q
<1>1. q \in Entries(Cached)
  BY DEF EntryGood
<1>2. \A e \in Ids : EntryGood(detail[e], e, Seen')
  BY EntryGrows DEF DetailInv, Grows
<1> QED
  BY <1>1, <1>2 DEF DetailInv

\* Requests that join the others, or replace them, are as good.
LEMMA PutRequest ==
  ASSUME RequestsInv, Grows, NEW r, RequestGood(r, Seen', Entered'),
         requests' \subseteq requests \cup {r}
  PROVE  RequestsInv'
BY RequestGrows DEF RequestsInv, Grows

LEMMA FewerRequests ==
  ASSUME RequestsInv, Grows, requests' \subseteq requests
  PROVE  RequestsInv'
BY RequestGrows DEF RequestsInv, Grows

\* Requests sent to another document since.
LEMMA RetargetedGood ==
  ASSUME RequestsInv, Grows, NEW rs, rs \subseteq requests, NEW at \in Ids \cup {New},
         requests' = Retargeted(rs, at)
  PROVE  RequestsInv'
<1> SUFFICES ASSUME NEW q \in requests'
             PROVE  RequestGood(q, Seen', Entered')
  BY DEF RequestsInv
<1>1. PICK r \in rs : q = IF r.id = page.last THEN [r EXCEPT !.to = at] ELSE r
  BY DEF Retargeted
<1>2. RequestGood(r, Seen', Entered')
  BY RequestGrows DEF RequestsInv, Grows
<1>3. CASE q = [r EXCEPT !.to = at]
  <2>1. /\ q \in Requests /\ q.kind = r.kind /\ q.doc = r.doc /\ q.body = r.body
        /\ q.at = r.at /\ q.answer = r.answer /\ q.to = at
    BY <1>2, <1>3 DEF RequestGood, Requests, Routes
  <2> QED
    BY <1>2, <2>1 DEF RequestGood
<1> QED
  BY <1>1, <1>2, <1>3

LEMMA SameServer ==
  ASSUME ServerOK, DraftsHeld, UNCHANGED server
  PROVE  ServerOK' /\ DraftsHeld' /\ stored' = stored
BY DEF ServerOK, DraftsHeld, server

LEMMA InvSplit ==
  IInv <=> ServerOK /\ DraftsHeld /\ DetailInv /\ DiffOK /\ CountsOK /\ PageInv /\ RequestsInv
BY DEF IInv, PageInv, RequestsInv

LEMMA InvSplitPrimed ==
  IInv' <=> ServerOK' /\ DraftsHeld' /\ DetailInv' /\ DiffOK' /\ CountsOK' /\ PageInv'
            /\ RequestsInv'
BY DEF IInv, PageInv, RequestsInv

-----------------------------------------------------------------------------
(* The user.                                                               *)

LEMMA SentGood ==
  ASSUME page \in Pages, CountsOK, NEW kind \in Kinds, NEW body \in Partial, NEW S, NEW T,
         kind \in Putting => page.at \in Ids \cup {New}, Sendable(kind, page.at, body, T),
         Send(kind, body)
  PROVE  /\ RequestGood(Request(kind, body), S, T) /\ sent' \in Nat
         /\ requests' = requests \cup {Request(kind, body)}
<1> DEFINE r == Request(kind, body)
<1>1. r = [id |-> sent, kind |-> kind, doc |-> page.at, to |-> page.at, body |-> body,
           visit |-> page.visit, at |-> "sent", answer |-> None]
  BY DEF Request
<1>2. page.at \in Routes /\ page.visit \in Nat /\ sent \in Nat
  BY DEF Pages, CountsOK, Routes
<1>3. r \in Requests
  BY <1>1, <1>2 DEF Requests, Answers
<1>4. /\ r.kind = kind /\ r.doc = page.at /\ r.to = page.at /\ r.body = body
      /\ r.at = "sent"
  BY <1>1
<1> HIDE DEF r
<1>5. RequestGood(r, S, T)
  BY <1>3, <1>4 DEF RequestGood, Putting
<1>6. sent' \in Nat /\ requests' = requests \cup {r}
  BY <1>2 DEF Send, r
<1> QED
  BY <1>5, <1>6 DEF r

\* What joins the form, and the edits to send, was put into the document.
LEMMA EditedAllGood ==
  ASSUME NEW p, NEW body \in Partial, NEW S, NEW T, PageGood(p, S, T),
         \A f \in Fields : body[f] # None => <<p.at, f, body[f]>> \in T
  PROVE  PageGood(EditedAll(p, body), S, T) /\ EditedAll(p, body).at = p.at
<1> DEFINE e == EditedAll(p, body)
           form == Merged(p.form, body)
           pending == [f \in Fields |->
                         IF body[f] # None /\ p.form[f] \notin {None, body[f]} THEN body[f]
                         ELSE p.pending[f]]
<1>1. p \in Pages /\ p.form \in Partial /\ p.pending \in Partial
  BY DEF PageGood, Pages
<1>2. e = [p EXCEPT !.form = form, !.pending = pending]
  BY DEF EditedAll
<1>3. form \in Partial /\ \A f \in Fields : form[f] \in {p.form[f], body[f]}
                       /\ (form[f] = body[f] => form[f] = p.form[f] \/ body[f] # None)
  BY <1>1 DEF Merged, Partial
<1>4. pending \in Partial
      /\ \A f \in Fields : pending[f] = p.pending[f] \/ (pending[f] = body[f] /\ body[f] # None)
  BY <1>1 DEF Partial
<1> HIDE DEF e, form, pending
<1>5. e \in Pages /\ e.at = p.at /\ e.form = form /\ e.pending = pending
  BY <1>1, <1>2, <1>3, <1>4 DEF Pages
<1>6. \A f \in Fields : e.form[f] # None => <<e.at, f, e.form[f]>> \in S \cup T
  BY <1>3, <1>5 DEF PageGood
<1>7. \A f \in Fields : e.pending[f] # None => <<e.at, f, e.pending[f]>> \in T
  BY <1>4, <1>5 DEF PageGood
<1>8. PageGood(e, S, T)
  BY <1>5, <1>6, <1>7 DEF PageGood
<1> QED
  BY <1>5, <1>8 DEF e

LEMMA UserStepFacts ==
  ASSUME IInv, UserStep
  PROVE  IInv'
<1>1. /\ ServerOK /\ DraftsHeld /\ DetailInv /\ DiffOK /\ CountsOK /\ PageInv /\ RequestsInv
      /\ page \in Pages
  BY InvSplit DEF PageInv, PageGood
<1>2. /\ UNCHANGED <<server, events, strayed, misplaced>> /\ ServerOK' /\ DraftsHeld'
      /\ typed \subseteq typed'
  <2>1. UNCHANGED <<server, events, strayed, misplaced>>
    BY DEF UserStep, Open, Leave, Back, Refocus, Edit, ImmediateSave, EditNew, Save, Sync,
           Upload, DeleteDocument, RestoreVersion, history
  <2>2. typed \subseteq typed'
    BY DEF UserStep, Open, Leave, Back, Refocus, Edit, ImmediateSave, EditNew, Save, Sync,
           Upload, DeleteDocument, RestoreVersion, history
  <2> QED
    BY <1>1, <2>1, <2>2, SameServer
<1>3. Grows /\ Seen' = Seen
  BY <1>2 DEF Grows, Seen, Entered, server
\* Moving about.
<1>4. ASSUME UNCHANGED <<typed, sent, edits>>, DetailInv', DiffOK', PageInv', RequestsInv'
      PROVE  IInv'
  <2>1. CountsOK'
    BY <1>1, <1>2, <1>4 DEF CountsOK
  <2> QED
    BY <1>2, <1>4, <2>1, InvSplitPrimed
<1>5. ASSUME NEW at \in Ids \cup {New}, Open(at)
      PROVE  IInv'
  <2>1. /\ Mounted(at) \in Pages /\ Mounted(at).at = at
        /\ PageGood(Mounted(at), Seen', Entered')
    BY <1>1, MountedOK, EmptyPageGood
  <2>2. /\ UNCHANGED <<requests, typed, sent, edits>> /\ diff' = Ask(diff)
        /\ schema' = Ask(schema)
    BY <1>5 DEF Open, history
  <2>3. DiffOK' /\ RequestsInv'
    BY <1>1, <1>3, <2>2, AskOK, FewerRequests DEF DiffOK
  <2>4. CASE at = New
    <3>1. page' = Mounted(at) /\ detail' = detail
      BY <1>5, <2>4 DEF Open
    <3>2. PageInv' /\ DetailInv'
      BY <1>1, <1>3, <2>1, <3>1, SameDetail DEF PageInv
    <3> QED
      BY <1>4, <2>2, <2>3, <3>2
  <2>5. CASE at # New
    <3>1. /\ at \in Ids /\ page' = Rendered(Mounted(at), detail'[at], schema.data)
          /\ detail' = [detail EXCEPT ![at] = Ask(detail[at])]
      BY <1>5, <2>5 DEF Open
    <3>2. EntryGood(Ask(detail[at]), at, Seen')
      BY <1>1, <1>3, <3>1, EntryAsk DEF DetailInv
    <3>3. DetailInv' /\ detail'[at] = Ask(detail[at])
      BY <1>1, <1>3, <3>1, <3>2, PutDetail
    <3>4. PageInv'
      BY <2>1, <3>1, <3>2, <3>3, RenderedOK DEF PageInv
    <3> QED
      BY <1>4, <2>2, <2>3, <3>3, <3>4
  <2> QED
    BY <2>4, <2>5
<1>6. ASSUME Leave \/ Back
      PROVE  IInv'
  <2>1. UNCHANGED <<queries, typed, sent, edits>>
    BY <1>6 DEF Leave, Back, history
  <2>2. page' \in Pages /\ page'.form = Nothing /\ page'.pending = Nothing
    <3>1. CASE Leave
      BY <1>1, <3>1, LeftOK DEF Leave
    <3>2. CASE Back
      <4>1. page' = [Reset(page) EXCEPT !.at = New, !.back = FALSE]
        BY <3>2 DEF Back
      <4> QED
        BY <1>1, <4>1, NothingOK DEF Reset, Pages
    <3> QED
      BY <1>6, <3>1, <3>2
  <2>3. PageInv'
    BY <2>2, EmptyPageGood DEF PageInv
  <2>4. DetailInv' /\ DiffOK'
    BY <1>1, <1>3, <2>1, SameDetail DEF queries, DiffOK
  <2>5. RequestsInv'
    BY <1>1, <1>3, <1>6, FewerRequests, RetargetedGood DEF Leave, Back
  <2> QED
    BY <1>4, <2>1, <2>3, <2>4, <2>5
<1>7. ASSUME Refocus
      PROVE  IInv'
  <2>1. /\ UNCHANGED <<diff, page, requests, typed, sent, edits>> /\ schema' = Ask(schema)
        /\ \/ detail' = detail
           \/ page.at \in Ids /\ detail' = [detail EXCEPT ![page.at] = Ask(detail[page.at])]
    BY <1>7 DEF Refocus, OnDocument, history
  <2>2. DetailInv'
    <3>1. page.at \in Ids => EntryGood(Ask(detail[page.at]), page.at, Seen')
      BY <1>1, <1>3, EntryAsk DEF DetailInv
    <3> QED
      BY <1>1, <1>3, <2>1, <3>1, SameDetail, PutDetail
  <2>3. DiffOK' /\ PageInv' /\ RequestsInv'
    BY <1>1, <1>3, <2>1, AskOK, SamePage, FewerRequests DEF DiffOK
  <2> QED
    BY <1>4, <2>1, <2>2, <2>3
\* Editing and sending.
<1>8. ASSUME UNCHANGED queries, PageInv', RequestsInv', sent' \in Nat, edits' \in Nat
      PROVE  IInv'
  <2>1. DetailInv' /\ DiffOK' /\ CountsOK'
    BY <1>1, <1>2, <1>3, <1>8, SameDetail DEF queries, DiffOK, CountsOK
  <2> QED
    BY <1>2, <1>8, <2>1, InvSplitPrimed
<1>9. sent \in Nat /\ edits \in Nat /\ edits + 1 \in Nat
  BY <1>1 DEF CountsOK
\* A request sent from the page, and the note that the page takes of it.
<1>10. ASSUME NEW kind \in Kinds, NEW body \in Partial, Send(kind, body),
              kind \in Putting => page.at \in Ids \cup {New},
              Sendable(kind, page.at, body, Entered')
       PROVE  sent' \in Nat /\ RequestsInv'
  <2>1. /\ RequestGood(Request(kind, body), Seen', Entered') /\ sent' \in Nat
        /\ requests' = requests \cup {Request(kind, body)}
    BY <1>1, <1>10, SentGood
  <2> QED
    BY <1>1, <1>3, <2>1, PutRequest
<1>11. ASSUME NEW p, PageGood(p, Seen', Entered'), page' = p \/ page' = [p EXCEPT !.last = sent]
       PROVE  PageInv'
  <2>1. p \in Pages
    BY <1>11 DEF PageGood
  <2>2. /\ page' \in Pages /\ page'.at = p.at /\ page'.form = p.form
        /\ page'.pending = p.pending
    BY <1>9, <1>11, <2>1 DEF Pages
  <2> QED
    BY <1>11, <2>2 DEF PageInv, PageGood
<1>12. ASSUME NEW f \in Fields, NEW v \in Values, Edit(f, v) \/ ImmediateSave(f, v)
       PROVE  IInv'
  <2>1. /\ Shown /\ typed' = typed \cup {<<page.at, f, v>>} /\ page.at \in Ids
        /\ page' = Edited(page, f, v) \/ page' = [Edited(page, f, v) EXCEPT !.last = sent]
        /\ UNCHANGED queries /\ edits' = edits + 1
    BY <1>12 DEF Edit, ImmediateSave, Shown, OnDocument
  <2>2. /\ Only(f, v) \in Partial
        /\ \A g \in Fields : Only(f, v)[g] # None => <<page.at, g, Only(f, v)[g]>> \in Entered'
    BY <2>1, OnlyOK DEF Entered
  <2>3. PageGood(Edited(page, f, v), Seen', Entered')
    <3>1. PageGood(page, Seen', Entered')
      BY <1>1, <1>3, PageGrows DEF PageInv, Grows
    <3> QED
      BY <2>2, <3>1, EditedAllGood DEF Edited
  <2>4. PageInv'
    BY <1>11, <2>1, <2>3
  <2>5. CASE Edit(f, v)
    <3>1. UNCHANGED <<requests, sent>>
      BY <2>5 DEF Edit
    <3>2. RequestsInv'
      BY <1>1, <1>3, <3>1, FewerRequests
    <3> QED
      BY <1>8, <1>9, <2>1, <2>4, <3>1, <3>2
  <2>6. CASE ImmediateSave(f, v)
    <3>1. Send("update", Only(f, v))
      BY <2>6 DEF ImmediateSave
    <3>2. "update" \in Kinds /\ Sendable("update", page.at, Only(f, v), Entered')
      BY <2>1, <2>2 DEF Kinds, Sendable, Whole
    <3>3. sent' \in Nat /\ RequestsInv'
      BY <1>10, <2>1, <2>2, <3>1, <3>2
    <3> QED
      BY <1>8, <1>9, <2>1, <2>4, <3>3
  <2> QED
    BY <1>12, <2>5, <2>6
<1>13. ASSUME NEW f \in Fields, NEW v \in Values, Upload(f, v)
       PROVE  IInv'
  <2> DEFINE body == IF page.at = New THEN [page.new EXCEPT ![f] = v] ELSE Only(f, v)
  <2>2. page.at \in Ids \cup {New}
    BY <1>13 DEF Upload, Shown, NewShown, OnDocument
  <2>3. /\ body \in Partial
        /\ page.at = New => body \in Content
        /\ page.at # New =>
              \A g \in Fields : body[g] # None => <<page.at, g, body[g]>> \in Entered'
    <3>1. CASE page.at = New
      <4>1. page.new \in Content
        BY <1>1 DEF Pages
      <4>2. [page.new EXCEPT ![f] = v] \in Content
        BY <4>1 DEF Content
      <4> QED
        BY <3>1, <4>2, NothingOK
    <3>2. CASE page.at # New
      <4>1. body = Only(f, v) /\ typed' = typed \cup {<<page.at, f, v>>}
        BY <1>13, <3>2 DEF Upload
      <4> HIDE DEF body
      <4> QED
        BY <3>2, <4>1, OnlyOK DEF Entered
    <3> QED
      BY <3>1, <3>2
  <2>4. Send("upload", body) /\ edits' = edits + 1 /\ UNCHANGED <<queries, page>>
    BY <1>13 DEF Upload
  <2> HIDE DEF body
  <2>5. "upload" \in Kinds /\ Sendable("upload", page.at, body, Entered')
    BY <2>3 DEF Kinds, Sendable, Whole
  <2>6. sent' \in Nat /\ RequestsInv'
    BY <1>10, <2>2, <2>3, <2>4, <2>5
  <2>7. PageInv'
    BY <1>1, <1>3, <2>4, SamePage
  <2> QED
    BY <1>8, <1>9, <2>4, <2>6, <2>7
<1>14. ASSUME NEW body \in Partial, EditNew(body)
       PROVE  IInv'
  <2>1. /\ page' = [page EXCEPT !.new = Merged(@, body)] /\ edits' = edits + 1
        /\ UNCHANGED <<queries, requests, typed, sent>>
    BY <1>14 DEF EditNew, history
  <2>2. Merged(page.new, body) \in Content
    BY <1>1 DEF Merged, Pages, Content, Partial
  <2>3. /\ page' \in Pages /\ page'.at = page.at /\ page'.form = page.form
        /\ page'.pending = page.pending
    BY <1>1, <2>1, <2>2 DEF Pages
  <2>4. PageGood(page, Seen', Entered')
    BY <1>1, <1>3, PageGrows DEF PageInv, Grows
  <2>5. PageInv' /\ RequestsInv'
    BY <1>1, <1>3, <2>1, <2>3, <2>4, FewerRequests DEF PageInv, PageGood
  <2> QED
    BY <1>8, <1>9, <2>1, <2>5
<1>15. ASSUME Save \/ Sync("push") \/ Sync("pull") \/ DeleteDocument \/ RestoreVersion
       PROVE  IInv'
  <2>1. UNCHANGED <<queries, typed, edits>> /\ (page' = page \/ page' = [page EXCEPT !.last = sent])
    BY <1>15 DEF Save, Sync, DeleteDocument, RestoreVersion, history
  <2>2. PageGood(page, Seen', Entered')
    BY <1>1, <1>3, PageGrows DEF PageInv, Grows
  <2>3. PageInv'
    BY <1>11, <2>1, <2>2
  <2>4. /\ page.new \in Content /\ page.new \in Partial /\ page.pending \in Partial
        /\ \A f \in Fields :
              page.pending[f] # None => <<page.at, f, page.pending[f]>> \in Entered'
    BY <2>2, NothingOK DEF Pages, PageGood
  <2>5. PICK kind \in Kinds, body \in Partial :
           /\ Send(kind, body)
           /\ kind \in Putting => page.at \in Ids \cup {New}
           /\ Sendable(kind, page.at, body, Entered')
    <3> USE DEF Kinds, Whole, Putting, Sendable, Shown, OnDocument
    <3>1. CASE Save
      BY <2>4, <3>1 DEF Save
    <3>2. CASE Sync("push") \/ Sync("pull") \/ DeleteDocument
      BY <3>2, NothingOK DEF Sync, DeleteDocument
    <3>3. CASE RestoreVersion
      <4>1. PICK i \in 1 .. (Len(versions[page.at]) - 1) : Send("restore", versions[page.at][i])
        BY <3>3 DEF RestoreVersion
      <4>2. page.at \in Ids /\ versions[page.at] \in Seq(Content)
        BY <1>1, <3>3 DEF RestoreVersion, ServerOK
      <4>3. versions[page.at][i] \in Content
        BY <4>1, <4>2
      <4> QED
        BY <4>1, <4>2, <4>3, NothingOK
    <3> QED
      BY <1>15, <3>1, <3>2, <3>3
  <2>6. sent' \in Nat /\ RequestsInv'
    BY <1>10, <2>5
  <2> QED
    BY <1>8, <1>9, <2>1, <2>3, <2>6
<1> QED
  BY <1>5, <1>6, <1>7, <1>12, <1>13, <1>14, <1>15 DEF UserStep

-----------------------------------------------------------------------------
(* The server.                                                             *)

LEMMA RememberFacts ==
  ASSUME Remember
  PROVE  stored \subseteq stored' /\ \A d \in Ids : Held(d, draft'[d], stored')
BY DEF Remember, Held

LEMMA CachedRowOK ==
  ASSUME NEW row \in Row, NEW withId \in BOOLEAN
  PROVE  CachedRow(row, withId) \in Cached /\ CachedRow(row, withId).content = row.content
BY DEF CachedRow, Row, Cached

LEMMA AnsweredGood ==
  ASSUME NEW r, NEW S, NEW T, RequestGood(r, S, T), NEW d \in Routes,
         NEW answer \in Answers,
         r.kind # "create" => d = r.doc,
         answer # None /\ r.kind \in Answering =>
            d \in Ids /\ answer \in Cached /\ Held(d, answer, S)
  PROVE  RequestGood([r EXCEPT !.at = "answered", !.doc = d, !.answer = answer], S, T)
<1> DEFINE q == [r EXCEPT !.at = "answered", !.doc = d, !.answer = answer]
<1>1. /\ q \in Requests /\ q.kind = r.kind /\ q.body = r.body /\ q.doc = d
      /\ q.answer = answer /\ q.at = "answered"
  BY DEF RequestGood, Requests
<1>2. q.to = r.to
  BY DEF RequestGood, Requests
<1> HIDE DEF q
<1>3. RequestGood(q, S, T)
  BY <1>1, <1>2 DEF RequestGood, Sendable, Whole, Putting
<1> QED
  BY <1>3 DEF q

\* The rows after a change of one document.
LEMMA MergedOK ==
  ASSUME NEW content \in Content, NEW body \in Partial
  PROVE  Merged(content, body) \in Content
BY DEF Merged, Content, Partial

LEMMA ChangedOK ==
  ASSUME ServerOK, NEW d \in Ids, draft[d] # None, NEW body \in Partial, Changed(d, body)
  PROVE  ServerOK' /\ draft'[d] \in Row
<1> DEFINE row == [content |-> Merged(draft[d].content, body),
                   status |-> IF body = Nothing THEN draft[d].status ELSE "draft"]
<1>1. draft[d] \in Row /\ draft[d].content \in Content
  BY DEF ServerOK, Row
<1>2. row \in Row
  BY <1>1, MergedOK DEF Row
<1>3. draft' = [draft EXCEPT ![d] = row]
  BY DEF Changed
<1>4. Append(versions[d], draft[d].content) \in Seq(Content)
  BY <1>1 DEF ServerOK
<1>5. /\ versions' = [versions EXCEPT ![d] = Append(versions[d], draft[d].content)]
      /\ prod' = prod
  BY DEF Changed
<1> HIDE DEF row
<1> QED
  BY <1>2, <1>3, <1>4, <1>5 DEF ServerOK

LEMMA PublishedOK ==
  ASSUME ServerOK, NEW d \in Ids, draft[d] # None, Published(d)
  PROVE  ServerOK'
<1>1. draft[d] \in Row
  BY DEF ServerOK
<1>2. [content |-> draft[d].content, status |-> "published"] \in Row
  BY <1>1 DEF Row
<1> QED
  BY <1>2 DEF ServerOK, Published

\* What the server answers, and to which document, after each request.
LEMMA ServeFacts ==
  ASSUME ServerOK, NEW r \in requests, RequestGood(r, Seen, Entered), Serve(r)
  PROVE  /\ ServerOK'
         /\ \E d \in Routes, answer \in Answers :
               /\ Answer(r, d, answer)
               /\ r.kind # "create" => d = r.doc
               /\ answer # None /\ r.kind \in Answering =>
                     d \in Ids /\ answer \in Cached /\ Held(d, answer, stored')
<1>1. /\ r \in Requests /\ r.doc \in Routes /\ r.body \in Partial
      /\ r.kind \notin {"create", "upload"} => r.doc \in Ids
      /\ r.kind \in {"create", "restore"} => r.body \in Content
  BY DEF RequestGood, Sendable, Requests, Whole
<1>2. \A d \in Ids : Held(d, draft'[d], stored')
  BY RememberFacts DEF Serve
\* A row and the cached document made from it.
<1>3. ASSUME NEW d \in Ids, draft'[d] \in Row, draft'[d] # None, NEW withId \in BOOLEAN
      PROVE  /\ CachedRow(draft'[d], withId) \in Cached
             /\ Held(d, CachedRow(draft'[d], withId), stored')
  BY <1>2, <1>3, CachedRowOK DEF Held
<1>4. CASE /\ r.kind = "create"
           /\ Undrawn # {}
           /\ LET d == CHOOSE e \in Undrawn : TRUE
                  row == [content |-> r.body, status |-> "draft"]
              IN /\ draft' = [draft EXCEPT ![d] = row]
                 /\ UNCHANGED <<prod, versions>>
                 /\ Answer(r, d, CachedRow(row, TRUE))
  <2> DEFINE row == [content |-> r.body, status |-> "draft"]
  <2>1. PICK d \in Ids : /\ draft' = [draft EXCEPT ![d] = row]
                         /\ UNCHANGED <<prod, versions>>
                         /\ Answer(r, d, CachedRow(row, TRUE))
    <3>1. (CHOOSE e \in Undrawn : TRUE) \in Ids
      BY <1>4 DEF Undrawn
    <3> QED
      BY <1>4, <3>1
  <2>2. row \in Row
    BY <1>1, <1>4 DEF Row
  <2> HIDE DEF row
  <2>3. ServerOK' /\ draft'[d] = row
    BY <2>1, <2>2 DEF ServerOK
  <2>4. CachedRow(row, TRUE) \in Cached /\ Held(d, CachedRow(row, TRUE), stored')
    <3>1. CachedRow(row, TRUE).content = row.content /\ CachedRow(row, TRUE) \in Cached
      BY <2>2, CachedRowOK
    <3>2. row # None => Held(d, CachedRow(row, TRUE), stored')
      BY <1>2, <2>3, <3>1 DEF Held
    <3> QED
      BY <3>1, <3>2, <2>2, NoneAssumption
  <2> QED
    BY <1>4, <2>1, <2>3, <2>4 DEF Routes, Answers
<1>5. CASE Refuse(r)
  BY <1>1, <1>5 DEF Refuse, ServerOK, Answers
<1>6. CASE r.kind = "update" /\ draft[r.doc] # None /\ Changed(r.doc, r.body)
           /\ Answer(r, r.doc, CachedRow(draft'[r.doc], FALSE))
  <2>1. ServerOK' /\ draft'[r.doc] \in Row
    BY <1>1, <1>6, ChangedOK
  <2>2. CachedRow(draft'[r.doc], FALSE) \in Cached
        /\ Held(r.doc, CachedRow(draft'[r.doc], FALSE), stored')
    BY <1>1, <1>3, <1>6, <2>1, NoneAssumption
  <2> QED
    BY <1>1, <1>6, <2>1, <2>2 DEF Answers
<1>7. CASE /\ r.kind = "restore" /\ draft[r.doc] # None
           /\ draft' = [draft EXCEPT ![r.doc].content = r.body]
           /\ versions' = [versions EXCEPT ![r.doc] = Append(@, draft[r.doc].content)]
           /\ UNCHANGED prod
           /\ Answer(r, r.doc, CachedRow(draft'[r.doc], FALSE))
  <2>1. draft[r.doc] \in Row /\ draft[r.doc].content \in Content /\ r.body \in Content
    BY <1>1, <1>7 DEF ServerOK, Row
  <2>2. [draft[r.doc] EXCEPT !.content = r.body] \in Row
        /\ Append(versions[r.doc], draft[r.doc].content) \in Seq(Content)
    <3>1. [draft[r.doc] EXCEPT !.content = r.body] \in Row
      BY <2>1 DEF Row
    <3>2. versions[r.doc] \in Seq(Content)
      BY <1>1, <1>7 DEF ServerOK
    <3> QED
      BY <2>1, <3>1, <3>2
  <2>3. ServerOK' /\ draft'[r.doc] \in Row
    BY <1>1, <1>7, <2>2 DEF ServerOK
  <2>4. CachedRow(draft'[r.doc], FALSE) \in Cached
        /\ Held(r.doc, CachedRow(draft'[r.doc], FALSE), stored')
    BY <1>1, <1>3, <1>7, <2>3, NoneAssumption
  <2> QED
    BY <1>1, <1>7, <2>3, <2>4 DEF Answers
<1>8. CASE /\ r.kind = "delete"
           /\ draft' = [draft EXCEPT ![r.doc] = None]
           /\ UNCHANGED <<prod, versions>>
           /\ Answer(r, r.doc, "deleted")
  BY <1>1, <1>8 DEF ServerOK, Answering, Answers
<1>9. CASE r.kind = "push" /\ draft[r.doc] # None /\ Published(r.doc)
           /\ Answer(r, r.doc, "pushed")
  BY <1>1, <1>9, PublishedOK DEF Answering, Answers
<1>10. CASE /\ r.kind = "pull" /\ prod[r.doc] # None
            /\ draft' = [draft EXCEPT ![r.doc] = prod[r.doc]]
            /\ UNCHANGED <<prod, versions>>
            /\ Answer(r, r.doc, CachedRow(prod[r.doc], FALSE))
  <2>1. prod[r.doc] \in Row /\ draft'[r.doc] = prod[r.doc] /\ ServerOK'
    BY <1>1, <1>10 DEF ServerOK
  <2>2. CachedRow(draft'[r.doc], FALSE) \in Cached
        /\ Held(r.doc, CachedRow(draft'[r.doc], FALSE), stored')
    BY <1>1, <1>3, <1>10, <2>1
  <2> QED
    BY <1>1, <1>10, <2>1, <2>2 DEF Answers
<1>11. CASE /\ r.kind = "upload" /\ Answer(r, r.doc, "uploaded")
            /\ UNCHANGED <<draft, prod, versions>>
  BY <1>1, <1>11 DEF ServerOK, Answering, Answers
<1> QED
  BY <1>4, <1>5, <1>6, <1>7, <1>8, <1>9, <1>10, <1>11 DEF Serve

LEMMA ServeKeeps ==
  ASSUME IInv, NEW r \in requests, Serve(r)
  PROVE  IInv'
<1>1. /\ ServerOK /\ DraftsHeld /\ DetailInv /\ DiffOK /\ CountsOK /\ PageInv /\ RequestsInv
      /\ RequestGood(r, Seen, Entered)
  BY InvSplit DEF RequestsInv
<1>2. UNCHANGED <<queries, page, history, sent, edits, events>> /\ Remember
  BY DEF Serve
<1>3. Grows /\ \A d \in Ids : Held(d, draft'[d], stored')
  BY <1>2, RememberFacts DEF Grows, Seen, Entered, history
<1>4. DraftsHeld' /\ DetailInv' /\ DiffOK' /\ CountsOK' /\ PageInv'
  BY <1>1, <1>2, <1>3, SameDetail, SamePage DEF DraftsHeld, queries, DiffOK, CountsOK
<1>5. ServerOK'
  BY <1>1, ServeFacts
<1>6. PICK d \in Routes, answer \in Answers :
         /\ Answer(r, d, answer)
         /\ r.kind # "create" => d = r.doc
         /\ answer # None /\ r.kind \in Answering =>
               d \in Ids /\ answer \in Cached /\ Held(d, answer, Seen')
  <2>1. stored' \subseteq Seen'
    BY DEF Seen
  <2> QED
    BY <1>1, <2>1, ServeFacts, HeldGrows
<1>7. RequestGood(r, Seen', Entered')
  BY <1>1, <1>3, RequestGrows DEF Grows
<1> DEFINE q == [r EXCEPT !.at = "answered", !.doc = d, !.answer = answer]
<1>8. RequestGood(q, Seen', Entered') /\ requests' \subseteq requests \cup {q}
  BY <1>6, <1>7, AnsweredGood DEF Answer
<1> HIDE DEF q
<1>9. RequestsInv'
  BY <1>1, <1>3, <1>8, PutRequest
<1> QED
  BY <1>4, <1>5, <1>9, InvSplitPrimed

LEMMA OthersWriteKeeps ==
  ASSUME IInv, OthersWrite
  PROVE  IInv'
<1>1. ServerOK /\ DraftsHeld /\ DetailInv /\ DiffOK /\ CountsOK /\ PageInv /\ RequestsInv
  BY InvSplit
<1>2. UNCHANGED <<queries, page, requests, history, sent, edits>> /\ Remember
      /\ events' = events + 1
  BY DEF OthersWrite
<1>3. Grows /\ \A d \in Ids : Held(d, draft'[d], stored')
  BY <1>2, RememberFacts DEF Grows, Seen, Entered, history
<1>4. DraftsHeld' /\ DetailInv' /\ DiffOK' /\ CountsOK' /\ PageInv' /\ RequestsInv'
  BY <1>1, <1>2, <1>3, SameDetail, SamePage, FewerRequests
     DEF DraftsHeld, queries, DiffOK, CountsOK
<1>5. ServerOK'
  <2>1. PICK d \in {e \in Ids : draft[e] # None} :
           \/ \E f \in Fields : \E v \in Values \ {draft[d].content[f]} :
                 Changed(d, Only(f, v))
           \/ Published(d)
           \/ draft' = [draft EXCEPT ![d] = None] /\ UNCHANGED <<prod, versions>>
    BY DEF OthersWrite
  <2>2. ASSUME NEW f \in Fields, NEW v \in Values, Changed(d, Only(f, v))
        PROVE  ServerOK'
    BY <1>1, <2>2, OnlyOK, ChangedOK
  <2>3. CASE Published(d)
    BY <1>1, <2>3, PublishedOK
  <2>4. CASE draft' = [draft EXCEPT ![d] = None] /\ UNCHANGED <<prod, versions>>
    BY <1>1, <2>4 DEF ServerOK
  <2> QED
    BY <2>1, <2>2, <2>3, <2>4
<1> QED
  BY <1>4, <1>5, InvSplitPrimed

\* What a step that leaves the server and the history alone keeps.
LEMMA SameHistory ==
  ASSUME ServerOK, DraftsHeld, UNCHANGED <<server, history>>
  PROVE  ServerOK' /\ DraftsHeld' /\ Seen' = Seen /\ Entered' = Entered /\ Grows
BY SameServer DEF Grows, Seen, Entered, history

\* The page after a change of a cached document that is as good.
LEMMA ReRenderedGood ==
  ASSUME PageInv, Grows, DetailInv', NEW d \in Ids, page' = ReRendered(d)
  PROVE  PageInv'
<1>1. PageGood(page, Seen', Entered')
  BY PageGrows DEF PageInv, Grows
<1>2. EntryGood(detail'[d], d, Seen')
  BY DEF DetailInv
<1>3. page.at = d => PageGood(Rendered(page, detail'[d], schema.data), Seen', Entered')
  BY <1>1, <1>2, RenderedOK
<1> QED
  BY <1>1, <1>3 DEF PageInv, ReRendered

LEMMA ServeDetailKeeps ==
  ASSUME IInv, NEW d \in Ids, ServeDetail(d)
  PROVE  IInv'
<1>1. ServerOK /\ DraftsHeld /\ DetailInv /\ DiffOK /\ CountsOK /\ PageInv /\ RequestsInv
  BY InvSplit
<1>2. /\ UNCHANGED <<server, diff, schema, requests, history, sent, edits, events>>
      /\ page' = ReRendered(d)
  BY DEF ServeDetail
<1>3. ServerOK' /\ DraftsHeld' /\ Seen' = Seen /\ Grows
  BY <1>1, <1>2, SameHistory
<1>4. DiffOK' /\ CountsOK' /\ RequestsInv'
  BY <1>1, <1>2, <1>3, FewerRequests DEF DiffOK, CountsOK
<1>5. EntryGood(detail[d], d, Seen)
  BY <1>1 DEF DetailInv
<1>6. DetailInv'
  <2>1. CASE draft[d] = None
    <3>1. detail' = [detail EXCEPT ![d] = Failed(detail[d], "gone")]
      BY <2>1 DEF ServeDetail
    <3> QED
      BY <1>1, <1>3, <1>5, <3>1, EntryFailed, PutDetail
  <2>2. CASE draft[d] # None
    <3> DEFINE v == CachedRow(draft[d], FALSE)
               q == [detail[d] EXCEPT !.fetch = Answered(v)]
    <3>1. v \in Cached /\ v.content = draft[d].content
      BY <1>1, <2>2, CachedRowOK DEF ServerOK
    <3>2. Held(d, v, Seen)
      BY <1>1, <2>2, <3>1 DEF DraftsHeld, Held, Seen
    <3>3. detail' = [detail EXCEPT ![d] = q]
      BY <2>2 DEF ServeDetail
    <3> HIDE DEF v
    <3>4. EntryGood(q, d, Seen)
      BY <1>5, <3>1, <3>2, AnsweredOK DEF EntryGood
    <3> HIDE DEF q
    <3> QED
      BY <1>1, <1>3, <3>3, <3>4, PutDetail
  <2> QED
    BY <2>1, <2>2
<1>7. PageInv'
  BY <1>1, <1>2, <1>3, <1>6, ReRenderedGood
<1> QED
  BY <1>3, <1>4, <1>6, <1>7, InvSplitPrimed

-----------------------------------------------------------------------------
(* Answers.                                                                *)

\* A document joins the cache, and may fill the form.
LEMMA StoredFacts ==
  ASSUME DetailInv, Grows, NEW p, PageGood(p, Seen', Entered'),
         NEW d \in Ids, NEW v \in Cached, Held(d, v, Seen'), Stored(p, d, v)
  PROVE  DetailInv' /\ PageInv'
<1> DEFINE q == SetData(detail[d], v)
<1>1. EntryGood(q, d, Seen')
  BY EntrySet, EntryGrows DEF DetailInv, Grows
<1>2. /\ detail' = [detail EXCEPT ![d] = q]
      /\ page' = IF p.at = d /\ v # detail[d].data THEN Rendered(p, q, schema.data) ELSE p
  BY DEF Stored
<1> HIDE DEF q
<1>3. DetailInv'
  BY <1>1, <1>2, PutDetail
<1>4. PageGood(page', Seen', Entered')
  BY <1>1, <1>2, RenderedOK
<1> QED
  BY <1>3, <1>4 DEF PageInv

\* An upload's answer, to the page of its render.
LEMMA ReceiveUploadGood ==
  ASSUME DetailInv, PageInv, Grows, stored' = stored, typed' = typed,
         NEW r, RequestGood(r, Seen, Entered), ReceiveUpload(r)
  PROVE  PageInv'
<1>1. PageGood(page, Seen', Entered') /\ page \in Pages
  BY PageGrows DEF PageInv, PageGood, Grows
<1>2. CASE ~Here(r) /\ UNCHANGED <<page, strayed>>
  BY <1>1, <1>2 DEF PageInv
<1>3. CASE r.doc = New /\ page' = [page EXCEPT !.new = r.body]
  <2>1. r.body \in Content
    BY <1>3 DEF RequestGood, Sendable, ReceiveUpload
  <2>2. /\ page' \in Pages /\ page'.at = page.at /\ page'.form = page.form
        /\ page'.pending = page.pending
    BY <1>1, <1>3, <2>1 DEF Pages
  <2> QED
    BY <1>1, <2>2 DEF PageInv, PageGood
<1>4. CASE /\ r.doc # New
           /\ page' = IF OnDocument(page)
                      THEN Rendered(EditedAll(page, r.body), detail[page.at], schema.data)
                      ELSE EditedAll(page, r.body)
           /\ strayed' = strayed \cup
                 IF page.at = r.doc THEN {}
                 ELSE {<<page.at, f, r.body[f]>> : f \in {g \in Fields : r.body[g] # None}}
  <2>1. /\ r.body \in Partial
        /\ \A f \in Fields : r.body[f] # None => <<r.doc, f, r.body[f]>> \in Entered'
    BY <1>4 DEF RequestGood, Requests, Sendable, Putting, ReceiveUpload, Grows
  <2>2. \A f \in Fields : r.body[f] # None => <<page.at, f, r.body[f]>> \in Entered'
    BY <1>4, <2>1 DEF Entered
  <2> DEFINE e == EditedAll(page, r.body)
  <2>3. PageGood(e, Seen', Entered') /\ e.at = page.at
    BY <1>1, <2>1, <2>2, EditedAllGood
  <2> HIDE DEF e
  <2>4. page' = IF OnDocument(page) THEN Rendered(e, detail[page.at], schema.data) ELSE e
    BY <1>4 DEF e
  <2>5. OnDocument(page) => EntryGood(detail[page.at], page.at, Seen')
    BY EntryGrows DEF OnDocument, DetailInv, Grows
  <2> QED
    BY <2>3, <2>4, <2>5, RenderedOK DEF PageInv
<1> QED
  BY <1>2, <1>3, <1>4 DEF ReceiveUpload

LEMMA ReceiveKeeps ==
  ASSUME IInv, NEW r \in requests, Receive(r)
  PROVE  IInv'
<1>1. /\ ServerOK /\ DraftsHeld /\ DetailInv /\ DiffOK /\ CountsOK /\ PageInv /\ RequestsInv
      /\ page \in Pages /\ RequestGood(r, Seen, Entered)
  BY InvSplit DEF RequestsInv, PageInv, PageGood
<1>2. /\ UNCHANGED <<server, typed, sent, edits, events>> /\ r.at = "answered"
      /\ strayed \subseteq strayed' /\ misplaced \subseteq misplaced'
  BY DEF Receive, ReceiveCreate, ReceiveUpdate, ReceiveRestore, ReceiveDelete, ReceivePush,
         ReceivePull, ReceiveUpload
<1>3. ServerOK' /\ DraftsHeld' /\ stored' = stored /\ typed' = typed /\ Grows /\ CountsOK'
  BY <1>1, <1>2, SameServer DEF Grows, Seen, Entered, CountsOK
<1>4. PageGood(page, Seen', Entered')
  BY <1>1, <1>3, PageGrows DEF PageInv, Grows
<1>5. ASSUME DetailInv', PageInv', requests' = requests \ {r},
             UNCHANGED schema, diff' = diff \/ diff' = Ask(diff)
      PROVE  IInv'
  <2>1. DiffOK' /\ RequestsInv'
    BY <1>1, <1>3, <1>5, AskOK, FewerRequests DEF DiffOK
  <2> QED
    BY <1>3, <1>5, <2>1, InvSplitPrimed
<1>6. r.answer # None /\ r.kind \in Answering =>
         r.doc \in Ids /\ r.answer \in Cached /\ Held(r.doc, r.answer, Seen')
  BY <1>1, <1>2, <1>3, HeldGrows DEF RequestGood, Grows
<1>7. CASE r.answer = None /\ requests' = requests \ {r} /\ UNCHANGED <<queries, page>>
  <2>1. DetailInv' /\ PageInv'
    BY <1>1, <1>3, <1>7, SameDetail, SamePage DEF queries
  <2> QED
    BY <1>5, <1>7, <2>1 DEF queries
<1>8. CASE r.answer # None /\ ReceiveCreate(r)
  <2>1. r.doc \in Ids /\ r.answer \in Cached /\ Held(r.doc, r.answer, Seen')
    BY <1>6, <1>8 DEF ReceiveCreate, Answering
  <2> DEFINE q == SetData(detail[r.doc], r.answer)
  <2>2. EntryGood(q, r.doc, Seen')
    BY <1>1, <1>3, <2>1, EntrySet, EntryGrows DEF DetailInv, Grows
  <2>3. /\ detail' = [detail EXCEPT ![r.doc] = q]
        /\ page' = Rendered(Navigated(r.doc), detail'[r.doc], schema.data)
        /\ requests' = Retargeted(requests \ {r}, r.doc)
        /\ diff' \in {diff, Ask(diff)} /\ schema' \in {schema, Ask(schema)}
    BY <1>8 DEF ReceiveCreate
  <2> HIDE DEF q
  <2>4. DetailInv' /\ detail'[r.doc] = q
    BY <1>1, <1>3, <2>1, <2>2, <2>3, PutDetail
  <2>5. PageGood(Navigated(r.doc), Seen', Entered') /\ Navigated(r.doc).at = r.doc
    BY <1>1, <2>1, NavigatedGood
  <2>6. PageInv'
    BY <2>2, <2>3, <2>4, <2>5, RenderedOK DEF PageInv
  <2>7. RequestsInv'
    <3> DEFINE rs == requests \ {r}
    <3>1. rs \subseteq requests /\ requests' = Retargeted(rs, r.doc)
      BY <2>3
    <3> HIDE DEF rs
    <3> QED
      BY <1>1, <1>3, <2>1, <3>1, RetargetedGood
  <2>8. DiffOK'
    BY <1>1, <2>3, AskOK DEF DiffOK
  <2> QED
    BY <1>3, <2>4, <2>6, <2>7, <2>8, InvSplitPrimed
<1>9. CASE r.answer # None /\ ReceiveUpdate(r)
  <2>1. /\ r.kind = "update" /\ r.doc \in Ids /\ r.answer \in Cached
        /\ Held(r.doc, r.answer, Seen') /\ r.to \in Ids \cup {New}
    BY <1>1, <1>6, <1>9 DEF ReceiveUpdate, Answering, RequestGood
  <2>2. CASE r.to = New
    <3>1. DetailInv' /\ PageInv'
      BY <1>1, <1>3, <1>9, <2>2, SameDetail, SamePage DEF ReceiveUpdate
    <3> QED
      BY <1>5, <1>9, <3>1 DEF ReceiveUpdate
  <2>3. CASE r.to # New
    <3> DEFINE b == detail[r.to].data # None /\ detail[r.to].data.withId
               v == [r.answer EXCEPT !.withId = b]
    <3>1. b \in BOOLEAN
      <4>1. detail[r.to].data \in Cached \cup {None}
        BY <1>1, <2>1, <2>3 DEF DetailInv, Entries
      <4> QED
        BY <4>1 DEF Cached
    <3>2. /\ Stored(page, r.to, v) /\ requests' = requests \ {r} /\ UNCHANGED <<diff, schema>>
          /\ misplaced' = misplaced \cup
                IF r.to = r.doc THEN {} ELSE {<<r.to, f, r.answer.content[f]>> : f \in Fields}
      BY <1>9, <2>3 DEF ReceiveUpdate
    <3> HIDE DEF b
    <3>3. v \in Cached /\ v.content = r.answer.content
      BY <2>1, <3>1 DEF Cached
    <3> HIDE DEF v
    <3>4. Held(r.to, v, Seen')
      BY <1>9, <2>1, <3>2, <3>3 DEF Held, Seen
    <3>5. DetailInv' /\ PageInv'
      BY <1>1, <1>3, <1>4, <2>1, <2>3, <3>2, <3>3, <3>4, StoredFacts
    <3> QED
      BY <1>5, <3>2, <3>5
  <2> QED
    BY <2>2, <2>3
<1>10. CASE r.answer # None /\ ReceiveRestore(r)
  <2>1. r.doc \in Ids /\ r.answer \in Cached /\ Held(r.doc, r.answer, Seen')
    BY <1>6, <1>10 DEF ReceiveRestore, Answering
  <2>2. DetailInv' /\ PageInv'
    BY <1>1, <1>3, <1>4, <1>10, <2>1, StoredFacts DEF ReceiveRestore
  <2> QED
    BY <1>5, <1>10, <2>2 DEF ReceiveRestore
<1>11. CASE ReceiveDelete(r)
  <2>1. page' \in Pages /\ page'.form = Nothing /\ page'.pending = Nothing
    BY <1>1, <1>11, LeftOK DEF ReceiveDelete
  <2>2. PageInv'
    BY <2>1, EmptyPageGood DEF PageInv
  <2>3. DetailInv' /\ UNCHANGED <<diff, schema>> /\ requests' = requests \ {r}
    BY <1>1, <1>3, <1>11, SameDetail DEF ReceiveDelete, queries
  <2> QED
    BY <1>5, <2>2, <2>3
<1>12. CASE ReceivePush(r)
  <2>1. PageGood(page', Seen', Entered')
    BY <1>1, <1>4, <1>12, RefreshedGood DEF ReceivePush
  <2>2. PageInv'
    BY <2>1 DEF PageInv
  <2>3. DetailInv'
    BY <1>1, <1>3, <1>12, SameDetail DEF ReceivePush
  <2> QED
    BY <1>5, <1>12, <2>2, <2>3 DEF ReceivePush
<1>13. CASE r.answer # None /\ ReceivePull(r)
  <2>1. r.doc \in Ids /\ r.answer \in Cached /\ Held(r.doc, r.answer, Seen')
    BY <1>6, <1>13 DEF ReceivePull, Answering
  <2> DEFINE p == IF Here(r) THEN RefreshDiff(Synced(page)) ELSE page
  <2>2. PageGood(p, Seen', Entered')
    <3>1. PageGood(Synced(page), Seen', Entered')
      BY <1>4, SyncedGood
    <3>2. PageGood(RefreshDiff(Synced(page)), Seen', Entered')
      BY <1>1, <3>1, RefreshedGood
    <3> QED
      BY <1>4, <3>2
  <2>3. Stored(p, r.doc, r.answer) /\ diff' = Ask(diff) /\ requests' = requests \ {r}
        /\ UNCHANGED schema
    BY <1>13 DEF ReceivePull
  <2> HIDE DEF p
  <2>4. DetailInv' /\ PageInv'
    BY <1>1, <1>3, <2>1, <2>2, <2>3, StoredFacts
  <2> QED
    BY <1>5, <2>3, <2>4
<1>14. CASE ReceiveUpload(r)
  <2>1. UNCHANGED queries /\ requests' = requests \ {r}
    BY <1>14 DEF ReceiveUpload
  <2>2. DetailInv'
    BY <1>1, <1>3, <2>1, SameDetail DEF queries
  <2>3. PageInv'
    BY <1>1, <1>3, <1>14, ReceiveUploadGood
  <2> QED
    BY <1>5, <2>1, <2>2, <2>3 DEF queries
<1> QED
  BY <1>7, <1>8, <1>9, <1>10, <1>11, <1>12, <1>13, <1>14 DEF Receive

LEMMA ReceiveDetailKeeps ==
  ASSUME IInv, NEW d \in Ids, ReceiveDetail(d)
  PROVE  IInv'
<1>1. ServerOK /\ DraftsHeld /\ DetailInv /\ DiffOK /\ CountsOK /\ PageInv /\ RequestsInv
  BY InvSplit
<1>2. UNCHANGED <<server, diff, schema, requests, history, sent, edits, events>>
  BY DEF ReceiveDetail
<1>3. ServerOK' /\ DraftsHeld' /\ Seen' = Seen /\ Entered' = Entered /\ Grows
  BY <1>1, <1>2, SameHistory
<1>4. DiffOK' /\ CountsOK' /\ RequestsInv'
  BY <1>1, <1>2, <1>3, FewerRequests DEF DiffOK, CountsOK
<1>5. EntryGood(Arrived(detail[d]), d, Seen)
  BY <1>1, EntryArrived DEF DetailInv
<1>6. DetailInv'
  <2>1. detail' = [detail EXCEPT ![d] = Arrived(detail[d])]
    BY DEF ReceiveDetail
  <2> QED
    BY <1>1, <1>3, <1>5, <2>1, PutDetail
<1>7. PageInv'
  <2>1. \/ page' = page
        \/ page.at = d /\ page' = Rendered(page, Arrived(detail[d]), schema.data)
    BY DEF ReceiveDetail
  <2>2. page.at = d => PageGood(Rendered(page, Arrived(detail[d]), schema.data), Seen, Entered)
    BY <1>1, <1>5, RenderedOK DEF PageInv
  <2> QED
    BY <1>1, <1>3, <2>1, <2>2 DEF PageInv
<1> QED
  BY <1>3, <1>4, <1>6, <1>7, InvSplitPrimed

LEMMA ReceiveSchemaKeeps ==
  ASSUME IInv, ReceiveSchema
  PROVE  IInv'
<1>1. ServerOK /\ DraftsHeld /\ DetailInv /\ DiffOK /\ CountsOK /\ PageInv /\ RequestsInv
  BY InvSplit
<1>2. UNCHANGED <<server, detail, diff, requests, history, sent, edits, events>>
  BY DEF ReceiveSchema
<1>3. ServerOK' /\ DraftsHeld' /\ Seen' = Seen /\ Entered' = Entered /\ Grows
  BY <1>1, <1>2, SameHistory
<1>4. DetailInv' /\ CountsOK' /\ RequestsInv'
  BY <1>1, <1>2, <1>3, FewerRequests, SameDetail DEF CountsOK
<1>5. DiffOK'
  <2> DEFINE q == [schema EXCEPT !.fetch = Idle]
  <2>1. PICK fields \in {"fields", "empty"} : schema' = SetData(q, fields)
    BY DEF ReceiveSchema
  <2>2. q \in Entries({"fields", "empty"})
    BY <1>1, IdledOK DEF DiffOK
  <2> HIDE DEF q
  <2>3. schema' \in Entries({"fields", "empty"})
    BY <2>1, <2>2, SetDataOK
  <2> QED
    BY <1>1, <1>2, <2>3 DEF DiffOK
<1>6. PageInv'
  <2>1. page' = IF OnDocument(page) THEN Rendered(page, detail[page.at], schema'.data) ELSE page
    BY DEF ReceiveSchema
  <2>2. OnDocument(page) => EntryGood(detail[page.at], page.at, Seen)
    BY <1>1 DEF OnDocument, DetailInv
  <2> QED
    BY <1>1, <1>3, <2>1, <2>2, RenderedOK DEF PageInv
<1> QED
  BY <1>3, <1>4, <1>5, <1>6, InvSplitPrimed

\* The page as the diff comes, or fails to come.
LEMMA DiffShownGood ==
  ASSUME NEW p, NEW S, NEW T, PageGood(p, S, T),
         NEW v \in [Ids -> Differences] \cup {None}
  PROVE  /\ PageGood([p EXCEPT !.diff = v, !.diffLoaded = TRUE, !.waiting = FALSE], S, T)
         /\ PageGood(DiffFailed(p), S, T)
<1>1. p \in Pages
  BY DEF PageGood
<1> DEFINE q == [p EXCEPT !.diff = v, !.diffLoaded = TRUE, !.waiting = FALSE]
           e == DiffFailed(p)
<1>2. q \in Pages /\ q.at = p.at /\ q.form = p.form /\ q.pending = p.pending
  BY <1>1 DEF Pages
<1>3. e \in Pages /\ e.at = p.at /\ e.form = p.form /\ e.pending = p.pending
  BY <1>1 DEF Pages, DiffFailed
<1> HIDE DEF q, e
<1>4. PageGood(q, S, T) /\ PageGood(e, S, T)
  BY <1>2, <1>3 DEF PageGood
<1> QED
  BY <1>4 DEF q, e

LEMMA ReceiveDiffKeeps ==
  ASSUME IInv, ReceiveDiff
  PROVE  IInv'
<1>1. ServerOK /\ DraftsHeld /\ DetailInv /\ DiffOK /\ CountsOK /\ PageInv /\ RequestsInv
  BY InvSplit
<1>2. UNCHANGED <<server, detail, schema, requests, history, sent, edits, events>>
  BY DEF ReceiveDiff
<1>3. ServerOK' /\ DraftsHeld' /\ Seen' = Seen /\ Entered' = Entered /\ Grows
  BY <1>1, <1>2, SameHistory
<1>4. DetailInv' /\ CountsOK' /\ RequestsInv'
  BY <1>1, <1>2, <1>3, FewerRequests, SameDetail DEF CountsOK
<1> DEFINE v == [d \in Ids |-> Difference(d)]
           q == [diff EXCEPT !.fetch = Idle]
<1>5. v \in [Ids -> Differences]
  BY DEF Difference, Differences
<1>6. q \in Entries([Ids -> Differences])
  BY <1>1, IdledOK DEF DiffOK
<1>7. /\ diff' = SetData(q, v)
      /\ page' = IF page.waiting
                 THEN [page EXCEPT !.diff = diff'.data, !.diffLoaded = TRUE, !.waiting = FALSE]
                 ELSE page
  BY DEF ReceiveDiff
<1> HIDE DEF v, q
<1>8. DiffOK' /\ diff'.data = v
  BY <1>1, <1>2, <1>5, <1>6, <1>7, SetDataOK DEF DiffOK
<1>9. PageInv'
  BY <1>1, <1>3, <1>5, <1>7, <1>8, DiffShownGood DEF PageInv
<1> QED
  BY <1>3, <1>4, <1>8, <1>9, InvSplitPrimed

-----------------------------------------------------------------------------
(* Faults, and time.                                                       *)

LEMMA LoseAnswerKeeps ==
  ASSUME IInv, LoseAnswer
  PROVE  IInv'
<1>1. ServerOK /\ DraftsHeld /\ DetailInv /\ DiffOK /\ CountsOK /\ PageInv /\ RequestsInv
  BY InvSplit
<1>2. UNCHANGED <<server, history, sent, edits>> /\ events' = events + 1
  BY DEF LoseAnswer
<1>3. /\ ServerOK' /\ DraftsHeld' /\ Seen' = Seen /\ Entered' = Entered /\ Grows
      /\ CountsOK'
  BY <1>1, <1>2, SameHistory DEF CountsOK
<1>4. CASE \E r \in requests :
             /\ requests' = (requests \ {r}) \cup {[r EXCEPT !.at = "answered", !.answer = None]}
             /\ UNCHANGED <<queries, page>>
  <2>1. PICK r \in requests :
             /\ requests' = (requests \ {r}) \cup {[r EXCEPT !.at = "answered", !.answer = None]}
             /\ UNCHANGED <<queries, page>>
    BY <1>4
  <2> DEFINE q == [r EXCEPT !.at = "answered", !.answer = None]
  <2>2. RequestGood(r, Seen', Entered')
    BY <1>1, <1>3 DEF RequestsInv
  <2>3. /\ q \in Requests /\ q.kind = r.kind /\ q.body = r.body /\ q.doc = r.doc
        /\ q.answer = None
    BY <2>2 DEF RequestGood, Requests, Answers
  <2>4. requests' \subseteq requests \cup {q}
    BY <2>1
  <2>7. q.to = r.to
    BY <2>2 DEF RequestGood, Requests
  <2> HIDE DEF q
  <2>5. RequestGood(q, Seen', Entered')
    BY <2>2, <2>3, <2>7 DEF RequestGood
  <2>6. RequestsInv'
    BY <1>1, <1>3, <2>4, <2>5, PutRequest
  <2>8. DetailInv' /\ DiffOK' /\ PageInv'
    BY <1>1, <1>3, <2>1, SameDetail, SamePage DEF queries, DiffOK
  <2> QED
    BY <1>3, <2>6, <2>8, InvSplitPrimed
<1>5. CASE \E d \in {e \in Ids : detail[e].fetch # Idle} :
             /\ detail' = [detail EXCEPT ![d] = Failed(@, "failed")]
             /\ page' = ReRendered(d)
             /\ UNCHANGED <<requests, diff, schema>>
  <2>1. PICK d \in Ids : /\ detail' = [detail EXCEPT ![d] = Failed(detail[d], "failed")]
                        /\ page' = ReRendered(d)
                        /\ UNCHANGED <<requests, diff, schema>>
    BY <1>5
  <2>2. EntryGood(Failed(detail[d], "failed"), d, Seen')
    BY <1>1, <1>3, EntryFailed DEF DetailInv
  <2>3. DetailInv'
    BY <1>1, <1>3, <2>1, <2>2, PutDetail
  <2>4. RequestsInv' /\ DiffOK' /\ PageInv'
    BY <1>1, <1>3, <2>1, <2>3, FewerRequests, ReRenderedGood DEF DiffOK
  <2> QED
    BY <1>3, <2>3, <2>4, InvSplitPrimed
<1>6. CASE /\ diff.fetch # Idle
           /\ diff' = Failed(diff, "failed") /\ page' = DiffFailed(page)
           /\ UNCHANGED <<requests, detail, schema>>
  <2>1. DiffOK'
    BY <1>1, <1>6, FailedOK DEF DiffOK
  <2>2. PageInv'
    BY <1>1, <1>3, <1>6, DiffShownGood DEF PageInv
  <2>3. RequestsInv' /\ DetailInv'
    BY <1>1, <1>3, <1>6, FewerRequests, SameDetail
  <2> QED
    BY <1>3, <2>1, <2>2, <2>3, InvSplitPrimed
<1>7. CASE schema' = Failed(schema, "failed") /\ UNCHANGED <<requests, detail, diff, page>>
  <2>1. DiffOK'
    BY <1>1, <1>7, FailedOK DEF DiffOK
  <2>2. RequestsInv' /\ DetailInv' /\ PageInv'
    BY <1>1, <1>3, <1>7, FewerRequests, SameDetail, SamePage
  <2> QED
    BY <1>3, <2>1, <2>2, InvSplitPrimed
<1> QED
  BY <1>4, <1>5, <1>6, <1>7 DEF LoseAnswer

LEMMA AgeKeeps ==
  ASSUME IInv, Age
  PROVE  IInv'
<1>1. ServerOK /\ DraftsHeld /\ DetailInv /\ DiffOK /\ CountsOK /\ PageInv /\ RequestsInv
  BY InvSplit
<1>2. UNCHANGED <<server, page, requests, history, sent, edits>> /\ events' = events + 1
  BY DEF Age
<1>3. ServerOK' /\ DraftsHeld' /\ Seen' = Seen /\ Grows /\ CountsOK'
  BY <1>1, <1>2, SameHistory DEF CountsOK
<1>4. PageInv' /\ RequestsInv'
  BY <1>1, <1>2, <1>3, FewerRequests, SamePage
<1>5. detail' = [d \in Ids |-> [detail[d] EXCEPT !.stale = TRUE]]
  BY DEF Age
<1>6. \A d \in Ids : EntryGood([detail[d] EXCEPT !.stale = TRUE], d, Seen)
  BY <1>1, AgedOK DEF DetailInv, EntryGood
<1>7. DetailInv'
  <2>1. \A d \in Ids : EntryGood(detail'[d], d, Seen)
    BY <1>5, <1>6
  <2>2. \A d \in Ids : detail'[d] \in Entries(Cached)
    BY <2>1 DEF EntryGood
  <2> QED
    BY <1>3, <1>5, <2>1, <2>2 DEF DetailInv
<1>8. DiffOK'
  BY <1>1, AgedOK DEF Age, DiffOK
<1> QED
  BY <1>3, <1>4, <1>7, <1>8, InvSplitPrimed

-----------------------------------------------------------------------------

LEMMA InitIInv == Init => IInv
<1> SUFFICES ASSUME Init
             PROVE  IInv
  OBVIOUS
<1> DEFINE c   == [f \in Fields |-> Default]
           row == [content |-> c, status |-> "published"]
<1>1. c \in Content /\ row \in Row /\ row.content = c
  BY EditorAssumption DEF Content, Row
<1>2. draft = [d \in Ids |-> IF d \in Existing THEN row ELSE None] /\ prod = draft
      /\ versions = [d \in Ids |-> <<>>] /\ detail = [d \in Ids |-> EmptyEntry]
      /\ diff = EmptyEntry /\ schema = EmptyEntry
      /\ page = [at |-> List, visit |-> 0, form |-> Nothing, base |-> Nothing,
                 pending |-> Nothing, loaded |-> FALSE, ready |-> FALSE, new |-> c,
                 last |-> None, back |-> FALSE, diff |-> None, diffLoaded |-> FALSE,
                 waiting |-> FALSE]
      /\ requests = {} /\ stored = {<<d, f, Default>> : d \in Existing, f \in Fields}
      /\ sent = 0 /\ edits = 0 /\ events = 0
  BY DEF Init
<1>3. \A f \in Fields : c[f] = Default
  OBVIOUS
<1> HIDE DEF c, row
<1>4. ServerOK
  BY <1>1, <1>2 DEF ServerOK
<1>5. DraftsHeld
  <2>1. SUFFICES ASSUME NEW d \in Ids, draft[d] # None, NEW f \in Fields
                 PROVE  <<d, f, draft[d].content[f]>> \in stored
    BY DEF DraftsHeld, Held
  <2>2. d \in Existing /\ draft[d].content[f] = Default
    BY <1>1, <1>2, <1>3, <2>1
  <2> QED
    BY <1>2, <2>2
<1>6. DetailInv
  BY <1>2, EmptyOK DEF DetailInv, EntryGood, Held
<1>7. DiffOK /\ CountsOK
  BY <1>2, EmptyOK DEF DiffOK, CountsOK
<1>8. page \in Pages /\ page.form = Nothing /\ page.pending = Nothing
  BY <1>1, <1>2, NothingOK DEF Pages
<1>9. PageGood(page, Seen, Entered)
  BY <1>8, EmptyPageGood
<1> QED
  BY <1>2, <1>4, <1>5, <1>6, <1>7, <1>9 DEF IInv

LEMMA NextIInv == IInv /\ [Next]_vars => IInv'
<1> SUFFICES ASSUME IInv, [Next]_vars
             PROVE  IInv'
  OBVIOUS
<1>1. CASE UserStep
  BY <1>1, UserStepFacts
<1>2. CASE \E r \in requests : Serve(r) \/ Receive(r)
  BY <1>2, ServeKeeps, ReceiveKeeps
<1>3. CASE ReceiveDiff
  BY <1>3, ReceiveDiffKeeps
<1>4. CASE OthersWrite
  BY <1>4, OthersWriteKeeps
<1>5. CASE LoseAnswer
  BY <1>5, LoseAnswerKeeps
<1>6. CASE Age
  BY <1>6, AgeKeeps
<1>7. CASE \E d \in Ids : ServeDetail(d) \/ ReceiveDetail(d)
  BY <1>7, ServeDetailKeeps, ReceiveDetailKeeps
<1>9. CASE ReceiveSchema
  BY <1>9, ReceiveSchemaKeeps
<1>8. CASE UNCHANGED vars
  <2>1. ServerOK /\ DraftsHeld /\ DetailInv /\ DiffOK /\ CountsOK /\ PageInv /\ RequestsInv
    BY InvSplit
  <2>2. UNCHANGED <<server, queries, page, requests, history, sent, edits, events>>
    BY <1>8 DEF vars
  <2>3. ServerOK' /\ DraftsHeld' /\ Grows
    BY <2>1, <2>2, SameHistory
  <2>4. DetailInv' /\ DiffOK' /\ CountsOK' /\ PageInv' /\ RequestsInv'
    BY <2>1, <2>2, <2>3, SameDetail, SamePage, FewerRequests DEF queries, DiffOK, CountsOK
  <2> QED
    BY <2>3, <2>4, InvSplitPrimed
<1> QED
  BY <1>1, <1>2, <1>3, <1>4, <1>5, <1>6, <1>7, <1>8, <1>9 DEF Next

LEMMA Invariant == Spec => []IInv
BY InitIInv, NextIInv, PTL DEF Spec

-----------------------------------------------------------------------------

\* The page, the requests and the query cache hold what the code's types
\* announce, whatever answers come in whatever order.
THEOREM TypeCorrect == Spec => []TypeOK
<1>1. IInv => TypeOK
  BY DEF IInv, TypeOK, ServerOK, DetailInv, DiffOK, PageGood, Pages
<1> QED
  BY <1>1, Invariant, PTL

\* An update names the document its fields were typed into, whichever document
\* the page has moved to meanwhile, but for what an upload begun in another
\* document, or in the new one, put there.
THEOREM EditsStayWithTheirDocument == Spec => []EditsGoToTheirDocument
<1>1. IInv => EditsGoToTheirDocument
  BY EditorAssumption
     DEF IInv, EditsGoToTheirDocument, RequestGood, Sendable, Putting, Entered
<1> QED
  BY <1>1, Invariant, PTL

\* The form shows only what the document in the route has held or what was typed
\* into it, but for what such uploads put there and for an update's answer that
\* the callback cached under it: no load, restore, pull, delete, move or read
\* that comes late brings in another's.
THEOREM FormsAreTheirDocuments == Spec => []FormsShowTheirDocument
<1>1. IInv => FormsShowTheirDocument
  BY DEF IInv, FormsShowTheirDocument, PageGood, Seen, Entered
<1> QED
  BY <1>1, Invariant, PTL
=============================================================================
