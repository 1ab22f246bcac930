-------------------------- MODULE DocumentEditor --------------------------
(***************************************************************************)
(* The document page of the dashboard (DocumentContent, useDocumentData,   *)
(* documents.ts) in an editable workspace: the form, the edits it has not  *)
(* sent, the requests in flight, the cached document and diff, against a   *)
(* server that other authors write to.  The server's handlers, each one    *)
(* atomic here, are the subject of DocHandlers.                            *)
(*                                                                         *)
(* A mounted page keeps its state while its route moves from one document  *)
(* to another; only leaving for the list unmounts it.  What a request's    *)
(* answer does, its promise does even when the page that sent it is gone.  *)
(***************************************************************************)
EXTENDS QueryCache, Naturals, Sequences, FiniteSets

CONSTANTS
    Ids,                \* document ids, those the server has yet to draw included
    Existing,           \* the documents there are at first
    Fields, Values,
    Default,            \* the value of an empty field
    New, List,          \* the routes of the new document and of the list
    OthersEditPublished, \* whether others edit documents that are published
    MaxEdits, MaxRequests, MaxVisits, MaxEvents, \* bounds; events are the writes of
                        \* others, lost answers and the passing of staleTime
    MaxTotal            \* bounds requests, visits and events together

ASSUME EditorAssumption ==
    /\ Existing \subseteq Ids /\ Default \in Values /\ New \notin Ids
    /\ {MaxEdits, MaxRequests, MaxVisits, MaxEvents, MaxTotal} \subseteq Nat

VARIABLES
    draft, prod,   \* the rows of the workspace and of production
    versions,      \* per document, the contents saved before each change
    detail, diff,  \* the query cache: each document, the workspace's diff, and
    schema,        \* the schema, with the list of collections that names it
    page,          \* the mounted page, or the list
    requests,      \* mutations and uploads in flight
    typed, stored, \* what the user typed into which document, and what each
                   \* document has held, as history
    strayed,       \* what uploads wrote into which document they were not for, and
    misplaced,     \* which other's content was cached for a document, as history
    sent, edits, events   \* the bounded counters

server == <<draft, prod, versions, stored>>
queries == <<detail, diff, schema>>
history == <<typed, strayed, misplaced>>
vars == <<server, queries, page, requests, history, sent, edits, events>>

Content == [Fields -> Values]
Partial == [Fields -> Values \cup {None}]
Nothing == [f \in Fields |-> None]
Row == [content : Content, status : {"draft", "published"}]

ASSUME NoneAssumption == None \notin Row

\* A cached document; the answer to a create is cached with its _id.
Cached == [content : Content, status : {"draft", "published"}, withId : BOOLEAN]
CachedRow(row, withId) == [content |-> row.content, status |-> row.status, withId |-> withId]

\* MUTANT: the body replaces the document.
MergedReplacing(content, body) == [f \in Fields |-> body[f]]
\* updateDocument merges what it is sent into the stored fields.
Merged(content, body) == [f \in Fields |-> IF body[f] = None THEN content[f] ELSE body[f]]

Differences == {"same", "modified", "source_only", "absent"}
Difference(d) ==
    CASE draft[d] = None -> "absent"
      [] prod[d] = None -> "source_only"
      [] OTHER -> IF draft[d] = prod[d] THEN "same" ELSE "modified"

OnDocument(p) == p.at \in Ids
MayGoOn == page.visit + sent + events < MaxTotal

---------------------------------------------------------------------------
(* The page's effects, as operators on its state.                          *)

\* The load effect runs when the route, the cached document or loading changes.
Load(p, entry, fields) ==
    IF OnDocument(p) /\ ~p.loaded /\ fields # None /\ entry.data # None
    THEN [p EXCEPT !.form = entry.data.content, !.base = entry.data.content, !.loaded = TRUE]
    ELSE p

\* isLoading: no read of the document has ended.
Loading(entry) == entry.data = None /\ entry.error = "no"

\* hasLoadedRef, set by the first render with a form and the schema's fields.
Rendered(p, entry, fields) ==
    LET q == Load(p, entry, fields)
    IN IF OnDocument(q) /\ q.form # Nothing /\ fields = "fields" /\ ~Loading(entry)
       THEN [q EXCEPT !.ready = TRUE] ELSE q

\* MUTANTS: the pending edits stay; the form stays, as if loaded.
ResetKeepingEdits(p) ==
    [p EXCEPT !.form = Nothing, !.base = Nothing, !.loaded = FALSE, !.ready = FALSE]
ResetKeepingForm(p) == [p EXCEPT !.pending = Nothing]
\* The reset effect runs when the route's document changes.
Reset(p) ==
    [p EXCEPT !.form = Nothing, !.base = Nothing, !.pending = Nothing, !.loaded = FALSE,
              !.ready = FALSE]

\* The page is unmounted.
Left(p) == [Reset(p) EXCEPT !.at = List, !.back = FALSE, !.waiting = FALSE, !.last = None]

\* refreshDiff, with fetchDiff's answer at once where the cache has one.
RefreshDiff(p) ==
    IF Wanted(diff) THEN [p EXCEPT !.diffLoaded = FALSE, !.waiting = TRUE]
    ELSE [p EXCEPT !.diff = diff.data, !.diffLoaded = TRUE]

Mounted(at) ==
    RefreshDiff([at |-> at, visit |-> page.visit + 1, form |-> Nothing, base |-> Nothing,
                 pending |-> Nothing, loaded |-> FALSE, ready |-> FALSE,
                 new |-> [f \in Fields |-> Default], last |-> None, back |-> FALSE,
                 diff |-> diff.data, diffLoaded |-> diff.data # None, waiting |-> FALSE])

\* navigate to a document, from the list or from another route of this page.
Navigated(d) ==
    IF page.at = List THEN Mounted(d)
    ELSE [Reset(page) EXCEPT !.at = d, !.back = (page.at = New)]

\* The callbacks of useMutation follow its renders: the last update that this
\* page has sent takes on the document now in the route, the others keep theirs.
Retargeted(rs, at) == {IF r.id = page.last THEN [r EXCEPT !.to = at] ELSE r : r \in rs}

\* handleDocumentSynced after a pull.
Synced(p) == [p EXCEPT !.loaded = FALSE, !.pending = Nothing]

---------------------------------------------------------------------------

Init ==
    LET row == [content |-> [f \in Fields |-> Default], status |-> "published"]
    IN /\ draft = [d \in Ids |-> IF d \in Existing THEN row ELSE None]
       /\ prod = draft
       /\ versions = [d \in Ids |-> <<>>]
       /\ detail = [d \in Ids |-> EmptyEntry]
       /\ diff = EmptyEntry
       /\ schema = EmptyEntry
       /\ page = [at |-> List, visit |-> 0, form |-> Nothing, base |-> Nothing,
                  pending |-> Nothing, loaded |-> FALSE, ready |-> FALSE,
                  new |-> [f \in Fields |-> Default], last |-> None, back |-> FALSE,
                  diff |-> None, diffLoaded |-> FALSE, waiting |-> FALSE]
       /\ requests = {} /\ typed = {} /\ strayed = {} /\ misplaced = {}
       /\ stored = {<<d, f, Default>> : d \in Existing, f \in Fields}
       /\ sent = 0 /\ edits = 0 /\ events = 0

(* The user moves about.                                                   *)

\* A link of the list, or its New Document button.
Open(at) ==
    /\ page.at = List /\ page.visit < MaxVisits /\ MayGoOn
    /\ at \in {New} \cup {d \in Ids : draft[d] # None}
    /\ detail' = IF at = New THEN detail ELSE [detail EXCEPT ![at] = Ask(@)]
    /\ page' = IF at = New THEN Mounted(at) ELSE Rendered(Mounted(at), detail'[at], schema.data)
    /\ diff' = Ask(diff) /\ schema' = Ask(schema)
    /\ UNCHANGED <<server, requests, history, sent, edits, events>>

Leave ==
    /\ page.at # List
    /\ page' = Left(page)
    /\ UNCHANGED <<server, queries, requests, history, sent, edits, events>>

\* The browser's back button, from the document just created.
Back ==
    /\ OnDocument(page) /\ page.back
    /\ page' = [Reset(page) EXCEPT !.at = New, !.back = FALSE]
    /\ requests' = Retargeted(requests, New)
    /\ UNCHANGED <<server, queries, history, sent, edits, events>>

\* The window regains the focus: the page's queries are read again where they
\* are stale or failed.
Refocus ==
    /\ page.at # List
    /\ detail' = IF OnDocument(page) THEN [detail EXCEPT ![page.at] = Ask(@)] ELSE detail
    /\ schema' = Ask(schema)
    /\ <<detail', schema'>> # <<detail, schema>>
    /\ UNCHANGED <<server, diff, page, requests, history, sent, edits, events>>

---------------------------------------------------------------------------
(* The user edits.                                                         *)

\* isReady, on a document that the query found, and for a new one.
Shown == OnDocument(page) /\ page.ready /\ detail[page.at].error # "gone"
NewShown == page.at = New /\ schema.data = "fields"

\* getVariableEntryState for an existing document: the form takes the values of
\* body, and of the fields it had those that changed join the edits to send.
EditedAll(p, body) ==
    [p EXCEPT !.form = Merged(@, body),
              !.pending = [f \in Fields |->
                  IF body[f] # None /\ p.form[f] \notin {None, body[f]} THEN body[f] ELSE @[f]]]
Only(f, v) == [Nothing EXCEPT ![f] = v]
Edited(p, f, v) == EditedAll(p, Only(f, v))

Edit(f, v) ==
    /\ Shown /\ edits < MaxEdits
    /\ page' = Edited(page, f, v)
    /\ typed' = typed \cup {<<page.at, f, v>>}
    /\ edits' = edits + 1
    /\ UNCHANGED <<server, queries, requests, strayed, misplaced, sent, events>>

\* The same for a new document, and the import of some of its fields.
EditNew(body) ==
    /\ NewShown /\ edits < MaxEdits
    /\ page' = [page EXCEPT !.new = Merged(@, body)]
    /\ edits' = edits + 1
    /\ UNCHANGED <<server, queries, requests, history, sent, events>>

\* doc is the document a request names, and to the one whose cached entry an
\* update's answer joins.
Request(kind, body) ==
    [id |-> sent, kind |-> kind, doc |-> page.at, to |-> page.at, body |-> body,
     visit |-> page.visit, at |-> "sent", answer |-> None]

Send(kind, body) ==
    /\ sent < MaxRequests /\ MayGoOn /\ sent' = sent + 1
    /\ requests' = requests \cup {Request(kind, body)}

\* handleSubmit: the whole new document, or the edits since it was opened.
Save ==
    /\ \/ NewShown /\ Send("create", page.new) /\ UNCHANGED page
       \/ Shown /\ Send("update", page.pending) /\ page' = [page EXCEPT !.last = sent]
    /\ UNCHANGED <<server, queries, history, edits, events>>

\* A rich text field saves itself; its edit stays among those to send.
ImmediateSave(f, v) ==
    /\ Shown /\ edits < MaxEdits
    /\ page' = [Edited(page, f, v) EXCEPT !.last = sent]
    /\ typed' = typed \cup {<<page.at, f, v>>}
    /\ edits' = edits + 1
    /\ Send("update", Only(f, v))
    /\ UNCHANGED <<server, queries, strayed, misplaced, events>>

\* A file is chosen.  The answer goes to the callback of this render, which has
\* the new document as it is now.
Upload(f, v) ==
    /\ Shown \/ NewShown
    /\ edits < MaxEdits /\ edits' = edits + 1
    /\ Send("upload", IF page.at = New THEN [page.new EXCEPT ![f] = v] ELSE Only(f, v))
    /\ typed' = typed \cup {<<page.at, f, v>>}
    /\ UNCHANGED <<server, queries, page, strayed, misplaced, events>>

\* The menu offers push and pull by the page's diff.
PageDifference == IF page.diff = None THEN "same" ELSE page.diff[page.at]

Sync(kind) ==
    /\ Shown
    /\ PageDifference \in (IF kind = "push" THEN {"modified", "source_only"} ELSE {"modified"})
    /\ Send(kind, Nothing)
    /\ UNCHANGED <<server, queries, page, history, edits, events>>

DeleteDocument ==
    /\ Shown /\ Send("delete", Nothing)
    /\ UNCHANGED <<server, queries, page, history, edits, events>>

\* The history lists every saved version; the latest cannot be chosen.
RestoreVersion ==
    /\ Shown
    /\ \E i \in 1..(Len(versions[page.at]) - 1) : Send("restore", versions[page.at][i])
    /\ UNCHANGED <<server, queries, page, history, edits, events>>

---------------------------------------------------------------------------
(* The server.                                                             *)

\* A change of a document saves the former content; a published one becomes a
\* draft when fields change.
Changed(d, body) ==
    /\ draft' = [draft EXCEPT ![d] =
          [content |-> Merged(@.content, body),
           status |-> IF body = Nothing THEN @.status ELSE "draft"]]
    /\ versions' = [versions EXCEPT ![d] = Append(@, draft[d].content)]
    /\ UNCHANGED prod

Published(d) ==
    LET row == [content |-> draft[d].content, status |-> "published"]
    IN /\ draft' = [draft EXCEPT ![d] = row]
       /\ prod' = [prod EXCEPT ![d] = row]
       /\ UNCHANGED versions

Answer(r, d, answer) ==
    requests' = (requests \ {r}) \cup {[r EXCEPT !.at = "answered", !.doc = d, !.answer = answer]}
Refuse(r) == Answer(r, r.doc, None) /\ UNCHANGED <<draft, prod, versions>>

Remember ==
    stored' = stored \cup
        UNION {{<<d, f, draft'[d].content[f]>> : f \in Fields} : d \in {e \in Ids : draft'[e] # None}}

\* The ids that a create may draw.  One is as good as another.
Undrawn == {d \in Ids : draft[d] = None /\ prod[d] = None /\ versions[d] = <<>>
                        /\ detail[d].data = None}

Serve(r) ==
    /\ r.at = "sent"
    /\ \/ /\ r.kind = "create"
          /\ Undrawn # {}
          /\ LET d == CHOOSE e \in Undrawn : TRUE
                 row == [content |-> r.body, status |-> "draft"]
             IN /\ draft' = [draft EXCEPT ![d] = row]
                /\ UNCHANGED <<prod, versions>>
                /\ Answer(r, d, CachedRow(row, TRUE))
       \/ /\ r.kind \notin {"create", "upload"}
          /\ (IF r.kind = "pull" THEN prod ELSE draft)[r.doc] = None
          /\ Refuse(r)
       \/ /\ r.kind = "upload"
          /\ Answer(r, r.doc, "uploaded") /\ UNCHANGED <<draft, prod, versions>>
       \/ /\ r.kind = "update" /\ draft[r.doc] # None
          /\ Changed(r.doc, r.body)
          /\ Answer(r, r.doc, CachedRow(draft'[r.doc], FALSE))
       \/ /\ r.kind = "restore" /\ draft[r.doc] # None
          /\ draft' = [draft EXCEPT ![r.doc].content = r.body]
          /\ versions' = [versions EXCEPT ![r.doc] = Append(@, draft[r.doc].content)]
          /\ UNCHANGED prod
          /\ Answer(r, r.doc, CachedRow(draft'[r.doc], FALSE))
       \/ /\ r.kind = "delete" /\ draft[r.doc] # None
          /\ draft' = [draft EXCEPT ![r.doc] = None]
          /\ UNCHANGED <<prod, versions>>
          /\ Answer(r, r.doc, "deleted")
       \/ /\ r.kind = "push" /\ draft[r.doc] # None
          /\ Published(r.doc)
          /\ Answer(r, r.doc, "pushed")
       \/ /\ r.kind = "pull" /\ prod[r.doc] # None
          /\ draft' = [draft EXCEPT ![r.doc] = prod[r.doc]]
          /\ UNCHANGED <<prod, versions>>
          /\ Answer(r, r.doc, CachedRow(prod[r.doc], FALSE))
    /\ Remember
    /\ UNCHANGED <<queries, page, history, sent, edits, events>>

\* The page after a change of the cached document d that is no new content.
ReRendered(d) == IF page.at = d THEN Rendered(page, detail'[d], schema.data) ELSE page

ServeDetail(d) ==
    /\ Asked(detail[d])
    /\ detail' = [detail EXCEPT ![d] =
          IF draft[d] = None THEN Failed(@, "gone")
          ELSE [@ EXCEPT !.fetch = Answered(CachedRow(draft[d], FALSE))]]
    /\ page' = ReRendered(d)
    /\ UNCHANGED <<server, diff, schema, requests, history, sent, edits, events>>

\* Other authors, other tabs.
OthersWrite ==
    /\ events < MaxEvents /\ MayGoOn /\ events' = events + 1
    /\ \E d \in {e \in Ids : draft[e] # None} :
          \/ /\ OthersEditPublished \/ draft[d].status = "draft"
             /\ \E f \in Fields : \E v \in Values \ {draft[d].content[f]} :
                   Changed(d, Only(f, v))
          \/ Published(d)
          \/ draft' = [draft EXCEPT ![d] = None] /\ UNCHANGED <<prod, versions>>
    /\ Remember
    /\ UNCHANGED <<queries, page, requests, history, sent, edits>>

---------------------------------------------------------------------------
(* Answers.                                                                *)

\* A cached document replaced by an equal one stays the same object, so that
\* the load effect does not run.
Stored(p, d, v) ==
    /\ detail' = [detail EXCEPT ![d] = SetData(@, v)]
    /\ page' = IF p.at = d /\ v # detail[d].data
               THEN Rendered(p, SetData(detail[d], v), schema.data) ELSE p

\* What the promise of a sync does on the page that asked, if it is mounted.
Here(r) == page.at # List /\ page.visit = r.visit

ReceiveCreate(r) ==
    /\ r.kind = "create"
    /\ detail' = [detail EXCEPT ![r.doc] = SetData(@, r.answer)]
    /\ page' = Rendered(Navigated(r.doc), detail'[r.doc], schema.data)
    /\ requests' = Retargeted(requests \ {r}, r.doc)
    /\ diff' = (IF page.at = List THEN Ask(diff) ELSE diff)
    /\ schema' = (IF page.at = List THEN Ask(schema) ELSE schema)
    /\ UNCHANGED <<strayed, misplaced>>

\* onSuccess merges the answer into the entry of r.to, which for the route of
\* the new document is one that nobody reads.
ReceiveUpdate(r) ==
    /\ r.kind = "update"
    /\ IF r.to = New THEN UNCHANGED <<detail, page>>
       ELSE Stored(page, r.to,
                [r.answer EXCEPT !.withId = detail[r.to].data # None /\ detail[r.to].data.withId])
    /\ misplaced' = misplaced \cup
          IF r.to = r.doc THEN {} ELSE {<<r.to, f, r.answer.content[f]>> : f \in Fields}
    /\ requests' = requests \ {r}
    /\ UNCHANGED <<diff, schema, strayed>>

ReceiveRestore(r) ==
    /\ r.kind = "restore"
    /\ Stored(page, r.doc, r.answer)
    /\ requests' = requests \ {r}
    /\ UNCHANGED <<diff, schema, strayed, misplaced>>

ReceiveDelete(r) ==
    /\ r.kind = "delete"
    /\ page' = Left(page)
    /\ requests' = requests \ {r}
    /\ UNCHANGED <<queries, strayed, misplaced>>

ReceivePush(r) ==
    /\ r.kind = "push"
    /\ page' = IF Here(r) THEN RefreshDiff(page) ELSE page
    /\ diff' = Ask(diff)
    /\ requests' = requests \ {r}
    /\ UNCHANGED <<detail, schema, strayed, misplaced>>

ReceivePull(r) ==
    /\ r.kind = "pull"
    /\ Stored(IF Here(r) THEN RefreshDiff(Synced(page)) ELSE page, r.doc, r.answer)
    /\ diff' = Ask(diff)
    /\ requests' = requests \ {r}
    /\ UNCHANGED <<schema, strayed, misplaced>>

\* The callback of the render that began the upload sets the state of the page,
\* whatever document the page shows now.  One of a new document writes the whole
\* of it, as it was then.
ReceiveUpload(r) ==
    /\ r.kind = "upload"
    /\ \/ ~Here(r) /\ UNCHANGED <<page, strayed>>
       \/ /\ Here(r) /\ r.doc = New
          /\ page' = [page EXCEPT !.new = r.body]
          /\ UNCHANGED strayed
       \/ /\ Here(r) /\ r.doc # New
          /\ page' = IF OnDocument(page)
                     THEN Rendered(EditedAll(page, r.body), detail[page.at], schema.data)
                     ELSE EditedAll(page, r.body)
          /\ strayed' = strayed \cup
                IF page.at = r.doc THEN {}
                ELSE {<<page.at, f, r.body[f]>> : f \in {g \in Fields : r.body[g] # None}}
    /\ requests' = requests \ {r}
    /\ UNCHANGED <<queries, misplaced>>

Receive(r) ==
    /\ r.at = "answered"
    /\ \/ /\ r.answer = None /\ requests' = requests \ {r}
          /\ UNCHANGED <<queries, page, strayed, misplaced>>
       \/ /\ r.answer # None
          /\ \/ ReceiveCreate(r) \/ ReceiveUpdate(r) \/ ReceiveRestore(r) \/ ReceiveDelete(r)
             \/ ReceivePush(r) \/ ReceivePull(r) \/ ReceiveUpload(r)
    /\ UNCHANGED <<server, typed, sent, edits, events>>

ReceiveDetail(d) ==
    /\ HasAnswer(detail[d])
    /\ detail' = [detail EXCEPT ![d] = Arrived(@)]
    /\ page' = IF page.at = d /\ detail[d].fetch.value # detail[d].data
               THEN Rendered(page, Arrived(detail[d]), schema.data) ELSE page
    /\ UNCHANGED <<server, diff, schema, requests, history, sent, edits, events>>

\* The diff is computed and arrives in one step: the page compares nothing
\* with it, and it is as stale as can be by staying in the cache.
ReceiveDiff ==
    /\ Asked(diff)
    /\ diff' = SetData([diff EXCEPT !.fetch = Idle], [d \in Ids |-> Difference(d)])
    /\ page' = IF page.waiting
               THEN [page EXCEPT !.diff = diff'.data, !.diffLoaded = TRUE, !.waiting = FALSE]
               ELSE page
    /\ UNCHANGED <<server, detail, schema, requests, history, sent, edits, events>>

\* The schema comes, with fields or without.  Fields are not taken away here.
ReceiveSchema ==
    /\ Asked(schema)
    /\ \E fields \in {"fields", "empty"} :
          /\ schema.data = "fields" => fields = "fields"
          /\ schema' = SetData([schema EXCEPT !.fetch = Idle], fields)
    /\ page' = IF OnDocument(page) THEN Rendered(page, detail[page.at], schema'.data) ELSE page
    /\ UNCHANGED <<server, detail, diff, requests, history, sent, edits, events>>

---------------------------------------------------------------------------
(* Faults, and time.                                                       *)

\* MUTANT: the flag is set only when the diff arrives.
DiffFailedSilently(p) == [p EXCEPT !.waiting = FALSE]
\* refreshDiff's finally.
DiffFailed(p) == IF p.waiting THEN [p EXCEPT !.diffLoaded = TRUE, !.waiting = FALSE] ELSE p

LoseAnswer ==
    /\ events < MaxEvents /\ MayGoOn /\ events' = events + 1
    /\ \/ \E r \in requests :
             /\ requests' = (requests \ {r}) \cup {[r EXCEPT !.at = "answered", !.answer = None]}
             /\ UNCHANGED <<queries, page>>
       \/ \E d \in {e \in Ids : detail[e].fetch # Idle} :
             /\ detail' = [detail EXCEPT ![d] = Failed(@, "failed")]
             /\ page' = ReRendered(d)
             /\ UNCHANGED <<requests, diff, schema>>
       \/ /\ diff.fetch # Idle
          /\ diff' = Failed(diff, "failed") /\ page' = DiffFailed(page)
          /\ UNCHANGED <<requests, detail, schema>>
       \/ /\ schema.fetch # Idle
          /\ schema' = Failed(schema, "failed")
          /\ UNCHANGED <<requests, detail, diff, page>>
    /\ UNCHANGED <<server, history, sent, edits>>

\* staleTime passes.
Age ==
    /\ events < MaxEvents /\ MayGoOn /\ events' = events + 1
    /\ \E d \in Ids : detail[d].data # None /\ ~detail[d].stale
    /\ detail' = [d \in Ids |-> [detail[d] EXCEPT !.stale = TRUE]]
    /\ diff' = [diff EXCEPT !.stale = TRUE] /\ schema' = [schema EXCEPT !.stale = TRUE]
    /\ UNCHANGED <<server, page, requests, history, sent, edits>>

UserStep ==
    \/ \E at \in Ids \cup {New} : Open(at)
    \/ Leave \/ Back \/ Refocus
    \/ \E f \in Fields, v \in Values : Edit(f, v) \/ ImmediateSave(f, v) \/ Upload(f, v)
    \/ \E body \in Partial \ {Nothing} : EditNew(body)
    \/ Save \/ Sync("push") \/ Sync("pull") \/ DeleteDocument \/ RestoreVersion

Next ==
    \/ UserStep
    \/ \E r \in requests : Serve(r) \/ Receive(r)
    \/ ReceiveDiff \/ ReceiveSchema \/ OthersWrite \/ LoseAnswer \/ Age
    \/ \E d \in Ids : ServeDetail(d) \/ ReceiveDetail(d)

\* Reads are answered, or fail; nothing obliges a user to act.
Fairness ==
    /\ WF_vars(ReceiveDiff) /\ WF_vars(ReceiveSchema)
    /\ WF_vars(\E d \in Ids : ServeDetail(d) \/ ReceiveDetail(d))

Spec == Init /\ [][Next]_vars /\ Fairness

---------------------------------------------------------------------------

TypeOK ==
    /\ draft \in [Ids -> Row \cup {None}]
    /\ prod \in [Ids -> Row \cup {None}]
    /\ \A d \in Ids : versions[d] \in Seq(Content)
    /\ detail \in [Ids -> Entries(Cached)]
    /\ diff \in Entries([Ids -> Differences])
    /\ schema \in Entries({"fields", "empty"})
    /\ page.at \in Ids \cup {New, List}
    /\ page.form \in Partial /\ page.pending \in Partial
    /\ page.new \in Content

\* What Save would send is exactly what the form shows beyond the document it
\* was filled with: no edit on screen is left out of the next save, and no
\* save undoes what the form shows.  Loads, pulls, restores, saves, other
\* authors' writes and the moves between documents all touch one side of it.
\* No run checks it: the code does otherwise.  A pull fills the form from the
\* cached document it has yet to replace.
FormShowsWhatSaveSends ==
    Shown => page.form = Merged(page.base, page.pending)

\* An update carries only what the user typed into the document it names.  No
\* run checks it: the code does otherwise.  An upload begun in one document is
\* answered through setters that write into the one the page shows by then.
UpdatesCarryTheirEdits ==
    \A r \in requests : r.kind = "update" =>
        \A f \in Fields : r.body[f] # None => <<r.doc, f, r.body[f]>> \in typed

\* The same but for what such an upload wrote: the edits typed into one document
\* are never saved into another, whichever answers move the page from one to the
\* other meanwhile.
EditsGoToTheirDocument ==
    \A r \in requests : r.kind = "update" =>
        \A f \in Fields : r.body[f] # None => <<r.doc, f, r.body[f]>> \in typed \cup strayed

\* Every value on the form was held by the document in the route at some time,
\* or typed into it.  No run checks it: the code does otherwise.  The callback of
\* an update merges the answer into the document that is in the route when it
\* comes (documents.ts:66), and uploads write there too.
FormsShowNoOther ==
    Shown => \A f \in Fields : page.form[f] # None =>
                <<page.at, f, page.form[f]>> \in stored \cup typed

\* The same but for what those two carry over: loads, restores, pulls, deletes,
\* moves and reads that come late never show one document's data under another's
\* name, nor does the answer to an update whose page has not moved on.
FormsShowTheirDocument ==
    Shown => \A f \in Fields : page.form[f] # None =>
                <<page.at, f, page.form[f]>> \in stored \cup typed \cup strayed \cup misplaced

\* The page shows its skeleton, not even an error.
Skeleton ==
    IF OnDocument(page) THEN ~page.ready /\ detail[page.at].error # "gone"
    ELSE page.at = New /\ ~NewShown

\* No page shows its skeleton for ever.  No run checks it: the code does
\* otherwise.  Where a read has failed or the schema has no fields, nothing ends it.
SkeletonsEnd == []<>~Skeleton

\* A page neither shows its skeleton nor hides its badge for ever: unless a read
\* it needs has failed, the schema has no fields or the user leaves, the form is
\* shown and the diff's outcome known, also when the diff could not be read.
Waiting ==
    \/ /\ Skeleton /\ schema.error = "no" /\ schema.data # "empty"
       /\ OnDocument(page) => detail[page.at].error = "no"
    \/ page.at # List /\ ~page.diffLoaded
PagesSettle == []<>~Waiting

\* ARCHITECTURE.md says of the badge that it is computed live from a diff
\* against production's actual content.  With every answer in, and nobody
\* else writing, it says whether the document differs from production.
BadgeTellsTheDifference ==
    (/\ Shown /\ page.diffLoaded /\ requests = {} /\ events = 0
     /\ diff.fetch = Idle /\ \A d \in Ids : detail[d].fetch = Idle)
    => (PageDifference \in {"modified", "source_only"}
          <=> Difference(page.at) \in {"modified", "source_only"})
===========================================================================
