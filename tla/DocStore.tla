------------------------------- MODULE DocStore -------------------------------
(***************************************************************************)
(* The document handlers of one project, each executed as one step, as     *)
(* they are when no thread-pool request and no crash falls between two of  *)
(* their commits: the handlers of routers/documents.py and                 *)
(* routers/sdk_documents.py run on the event loop and never suspend        *)
(* between their first read and their last write.                          *)
(***************************************************************************)
EXTENDS WorkspaceData

CONSTANTS
    MaxSequence,    \* bound on the ids a sequence lists (no bound in the code)
    ResentCreates   \* whether a client sends a create for an id already listed

ASSUME ResentCreatesAssumption == ResentCreates \in BOOLEAN

VARIABLES
    rows,       \* rows[w][c][d]: the document row, or NoRow
    meta,       \* meta[w][c]: the '_meta_data' row of the collection
    versions,   \* versions[w][c][d]: field data of the saved versions, oldest first
    workspaces, \* the editable workspaces with a record in cms_workspaces
    collections \* per collection id: not created yet, with a record, or deleted

vars == <<rows, meta, versions, workspaces, collections>>

Init ==
    /\ rows = [w \in AllWorkspaces |-> NoRows]
    /\ meta = [w \in AllWorkspaces |-> NoMetas]
    /\ versions = [w \in AllWorkspaces |-> [c \in Collections |-> [d \in Docs |-> <<>>]]]
    /\ workspaces = {}
    /\ collections = [c \in Collections |-> "unused"]

-----------------------------------------------------------------------------
(* Document handlers. No handler looks for the workspace's record.         *)

\* The collection has a record in cms_project_collections.
Live(c) == collections[c] = "live"

Listed(w, c, d) == MetaReadable(meta[w][c]) /\ d \in Range(meta[w][c].sequence)

\* Update, status and delete handlers find the id in the sequence, and the
\* first two the row as well.
Editable(w, c, d) == Live(c) /\ Listed(w, c, d) /\ rows[w][c][d] # NoRow

\* create_document. The caller may supply the id, which is not looked up: a
\* create sent again, after its answer was lost say, is carried out again.
CreateDocument(w, c, d, v) ==
    /\ Live(c)
    /\ MetaReadable(meta[w][c])
    /\ Len(meta[w][c].sequence) < MaxSequence
    /\ ResentCreates \/ d \notin Range(meta[w][c].sequence)
    /\ rows' = [rows EXCEPT ![w][c][d] = Draft(v)]
    /\ meta' = [meta EXCEPT ![w][c] = Ordered(Append(@.sequence, d),
                                              [@.statuses EXCEPT ![d] = "draft"])]
    /\ UNCHANGED <<versions, workspaces, collections>>

SaveVersion(w, c, d) ==
    versions' = [versions EXCEPT ![w][c][d] = Saved(@, rows[w][c][d].data)]

\* update_document with a body that has fields and validates.
UpdateDocument(w, c, d, v) ==
    /\ Editable(w, c, d)
    /\ SaveVersion(w, c, d)
    /\ IF rows[w][c][d].status = "published"
       THEN meta' = [meta EXCEPT ![w][c] = Ordered(@.sequence,
                                                   [@.statuses EXCEPT ![d] = "draft"])]
       ELSE UNCHANGED meta
    /\ rows' = [rows EXCEPT ![w][c][d] =
                   [data   |-> v,
                    status |-> IF @.status = "published" THEN "draft" ELSE @.status]]
    /\ UNCHANGED <<workspaces, collections>>

\* update_document with an empty body, or with one that fails validation: the
\* version is saved before the body is looked at.
UpdateWithoutEffect(w, c, d) ==
    /\ Editable(w, c, d)
    /\ SaveVersion(w, c, d)
    /\ UNCHANGED <<rows, meta, workspaces, collections>>

\* update_document_status, which accepts "draft" only.
UpdateDocumentStatus(w, c, d) ==
    /\ Editable(w, c, d)
    /\ rows' = [rows EXCEPT ![w][c][d].status = "draft"]
    /\ meta' = [meta EXCEPT ![w][c] = Ordered(@.sequence, [@.statuses EXCEPT ![d] = "draft"])]
    /\ UNCHANGED <<versions, workspaces, collections>>

\* Mutant: removes the first occurrence of the id only.
DeleteDocumentOnce(w, c, d) ==
    /\ Live(c)
    /\ Listed(w, c, d)
    /\ LET q == meta[w][c].sequence
           i == CHOOSE j \in DOMAIN q : q[j] = d /\ \A k \in 1 .. j - 1 : q[k] # d
       IN  meta' = [meta EXCEPT ![w][c] =
                       Ordered(SubSeq(q, 1, i - 1) \o SubSeq(q, i + 1, Len(q)),
                               [@.statuses EXCEPT ![d] = "none"])]
    /\ rows' = [rows EXCEPT ![w][c][d] = NoRow]
    /\ UNCHANGED <<versions, workspaces, collections>>

\* delete_document. The document's versions stay.
DeleteDocument(w, c, d) ==
    /\ Live(c)
    /\ Listed(w, c, d)
    /\ \E s \in Selected(meta[w][c].sequence, Docs \ {d}) :
          meta' = [meta EXCEPT ![w][c] = Ordered(s, [@.statuses EXCEPT ![d] = "none"])]
    /\ rows' = [rows EXCEPT ![w][c][d] = NoRow]
    /\ UNCHANGED <<versions, workspaces, collections>>

\* restore_document_version. The version is found by its id alone, so it may
\* be any document's; the row's status is kept and the meta row not touched.
RestoreVersion(w, c, d, v) ==
    /\ Live(c)
    /\ rows[w][c][d] # NoRow
    /\ \E ws \in AllWorkspaces, co \in Collections, dd \in Docs :
          v \in Range(versions[ws][co][dd])
    /\ SaveVersion(w, c, d)
    /\ rows' = [rows EXCEPT ![w][c][d].data = v]
    /\ UNCHANGED <<meta, workspaces, collections>>

-----------------------------------------------------------------------------
(* Push and pull.                                                          *)

PushDocument(w, c, d) ==
    /\ Live(c)
    /\ rows[w][c][d] # NoRow
    /\ rows' = PushDocumentRows(rows, w, c, d, rows[w][c][d])
    /\ meta' = PushDocumentMeta(meta, w, c, d)
    /\ UNCHANGED <<versions, workspaces, collections>>

PushCollection(w, c) ==
    /\ Live(c)
    /\ \E s \in PushOrders(rows, meta, w, c) :
          /\ IsInjective(s)
          /\ rows' = PushCollectionRows(rows, w, c, Range(s))
          /\ meta' = PushCollectionMeta(rows, meta, w, c, CopiedMeta(s))
    /\ UNCHANGED <<versions, workspaces, collections>>

\* An id listed twice: the second INSERT violates the primary key. Nothing
\* rolls SQLite's open transaction back, so the event loop's next commit
\* keeps the statements that ran: production's meta row is never written.
\* (Postgres rolls back, and so does a process that stops first: no change.)
PushCollectionAborted(w, c) ==
    /\ Live(c)
    /\ \E s \in PushOrders(rows, meta, w, c) :
          /\ ~IsInjective(s)
          /\ rows' = PushCollectionRows(rows, w, c, BeforeRepeat(s))
          /\ meta' = PushCollectionMeta(rows, meta, w, c, NoMeta)
    /\ UNCHANGED <<versions, workspaces, collections>>

PushWorkspaceToProduction(w) ==
    /\ w \in workspaces
    /\ rows' = PushWorkspace(rows, rows[w])
    /\ meta' = PushWorkspace(meta, meta[w])
    /\ UNCHANGED <<versions, workspaces, collections>>

Pull(w, scope, res) ==
    LET theirs == rows[Production]
        in     == Incoming(rows[w], theirs, scope, res)
    IN  /\ rows' = PullRows(rows, w, in, theirs)
        /\ \E order \in PullOrders(rows[w], meta, w, in) :
              meta' = PullMeta(meta, w, in, theirs, order)
        /\ UNCHANGED <<versions, workspaces, collections>>

PullDocument(w, c, d) ==
    /\ Live(c)
    /\ rows[Production][c][d] # NoRow
    /\ Pull(w, {<<c, d>>}, {<<c, d>>})

PullCollection(w, c) ==
    /\ Live(c)
    /\ \E res \in SUBSET ({c} \X Docs) : Pull(w, {c} \X Docs, res)

PullWorkspace(w) ==
    /\ w \in workspaces
    /\ \E res \in SUBSET (Collections \X Docs) : Pull(w, Collections \X Docs, res)

-----------------------------------------------------------------------------
(* Workspace and collection handlers.                                      *)

CreateWorkspace(w) ==
    /\ w \notin workspaces
    /\ workspaces' = workspaces \cup {w}
    /\ UNCHANGED <<rows, meta, versions, collections>>

DeleteWorkspace(w) ==
    /\ w \in workspaces
    /\ workspaces' = workspaces \ {w}
    /\ rows' = [rows EXCEPT ![w] = NoRows]
    /\ meta' = [meta EXCEPT ![w] = NoMetas]
    /\ UNCHANGED <<versions, collections>>

\* create_collection writes an empty order in production only. The id is a
\* new one, so a deleted collection does not come back.
CreateCollection(c) ==
    /\ collections[c] = "unused"
    /\ collections' = [collections EXCEPT ![c] = "live"]
    /\ meta' = [meta EXCEPT ![Production][c] = Ordered(<<>>, NoMeta.statuses)]
    /\ UNCHANGED <<rows, versions, workspaces>>

\* delete_collection clears it in every workspace that has a record, and
\* production has had one since the project was created.
DeleteCollection(c) ==
    LET cleared == workspaces \cup {Production}
    IN  /\ Live(c)
        /\ collections' = [collections EXCEPT ![c] = "deleted"]
        /\ rows' = [w \in AllWorkspaces |->
                       IF w \in cleared THEN [rows[w] EXCEPT ![c] = NoRows[c]] ELSE rows[w]]
        /\ meta' = [w \in AllWorkspaces |->
                       IF w \in cleared THEN [meta[w] EXCEPT ![c] = NoMeta] ELSE meta[w]]
        /\ UNCHANGED <<versions, workspaces>>

-----------------------------------------------------------------------------
DocumentStep(w, c, d) ==
    \/ \E v \in Values : \/ CreateDocument(w, c, d, v)
                         \/ UpdateDocument(w, c, d, v)
                         \/ RestoreVersion(w, c, d, v)
    \/ UpdateWithoutEffect(w, c, d)
    \/ UpdateDocumentStatus(w, c, d)
    \/ DeleteDocument(w, c, d)
    \/ PushDocument(w, c, d)
    \/ PullDocument(w, c, d)

CollectionStep(w, c) == PushCollection(w, c) \/ PushCollectionAborted(w, c) \/ PullCollection(w, c)

WorkspaceStep(w) ==
    \/ CreateWorkspace(w)
    \/ DeleteWorkspace(w)
    \/ PushWorkspaceToProduction(w)
    \/ PullWorkspace(w)

Next ==
    \/ \E w \in Workspaces, c \in Collections, d \in Docs : DocumentStep(w, c, d)
    \/ \E w \in Workspaces, c \in Collections : CollectionStep(w, c)
    \/ \E w \in Workspaces : WorkspaceStep(w)
    \/ \E c \in Collections : CreateCollection(c) \/ DeleteCollection(c)

Spec == Init /\ [][Next]_vars

-----------------------------------------------------------------------------
(* Invariants.                                                             *)

\* The types of the tables, and the version limit.
TypeOK ==
    /\ rows \in [AllWorkspaces -> [Collections -> [Docs -> Rows \cup {NoRow}]]]
    /\ meta \in [AllWorkspaces -> [Collections -> Metas]]
    /\ versions \in [AllWorkspaces -> [Collections -> [Docs -> Seq(Values)]]]
    /\ \A w \in AllWorkspaces, c \in Collections, d \in Docs :
          Len(versions[w][c][d]) <= MaxVersions
    /\ workspaces \subseteq Workspaces
    /\ collections \in [Collections -> {"unused", "live", "deleted"}]

\* The two copies of a status agree: a document the sequence lists has a row
\* (get_document does not answer null) and the status get_collection reports
\* is the one stored in the row. Every handler writes the copies separately.
ListedDocumentsAgree ==
    \A w \in AllWorkspaces, c \in Collections : \A d \in Range(meta[w][c].sequence) :
        /\ rows[w][c][d] # NoRow
        /\ rows[w][c][d].status = meta[w][c].statuses[d]

\* A document stored in an editable workspace is listed there: get_document
\* finds it and the author can edit or delete it.
NoHiddenDocuments ==
    \A w \in Workspaces, c \in Collections : Present(rows, w, c) \subseteq Range(meta[w][c].sequence)

\* The same of production, where only a completed push may write.
NoHiddenInProduction ==
    \A c \in Collections : Present(rows, Production, c) \subseteq Range(meta[Production][c].sequence)

\* No sequence lists a document twice, so that a push can copy it.
SequencesAreUnique ==
    \A w \in AllWorkspaces, c \in Collections : IsInjective(meta[w][c].sequence)

\* A collection's meta row always has the sequence that _get_meta reads;
\* without it every read and every create in the collection fails.
CollectionsStayReadable ==
    \A w \in AllWorkspaces, c \in Collections : MetaReadable(meta[w][c])

-----------------------------------------------------------------------------
(* Action properties.                                                      *)

Changed(w, c, d) == rows'[w][c][d] # rows[w][c][d]

\* A row is replaced in place by one with other data.
Overwritten(w, c, d) ==
    /\ rows[w][c][d] # NoRow
    /\ rows'[w][c][d] # NoRow
    /\ rows'[w][c][d].data # rows[w][c][d].data

\* A document becomes published in a workspace only by a step after which
\* production serves exactly that row: a push or a pull, never an edit.
PublishedOnBothSides ==
    [][\A w \in Workspaces, c \in Collections, d \in Docs :
          /\ Changed(w, c, d)
          /\ rows'[w][c][d] # NoRow
          /\ rows'[w][c][d].status = "published"
          /\ rows[w][c][d] = NoRow \/ rows[w][c][d].status = "draft"
          => rows'[w][c][d] = rows'[Production][c][d]]_vars

\* Whatever a step puts into production is, after it, stored identically in
\* the workspace it came from: production holds no content of its own.
ProductionMatchesSource ==
    [][\A c \in Collections, d \in Docs :
          Changed(Production, c, d) /\ rows'[Production][c][d] # NoRow
          => \E w \in Workspaces :
                /\ rows[w][c][d] # NoRow
                /\ rows[w][c][d].data = rows'[Production][c][d].data
                /\ rows'[w][c][d] = rows'[Production][c][d]]_vars

Before(s, a, b) == \E i, j \in DOMAIN s : i < j /\ s[i] = a /\ s[j] = b

\* Two documents change places in production only to the order an author gave
\* them in a workspace; a document pushed alone goes to the end.
ProductionOrderIsAuthored ==
    [][\A c \in Collections : \A a, b \in Docs :
          LET old == meta[Production][c].sequence
              new == meta'[Production][c].sequence
          IN  a # b /\ Before(new, a, b) /\ ~Before(old, a, b)
              => \/ \E w \in Workspaces : Before(meta[w][c].sequence, a, b)
                 \/ new = Append(old, b)]_vars

\* A step changes the documents of one editable workspace at most, unless it
\* deletes a collection: a push marks only the source it was asked for.
WorkspacesAreIsolated ==
    [][\A w1, w2 \in Workspaces :
          rows'[w1] # rows[w1] /\ rows'[w2] # rows[w2]
          => w1 = w2 \/ collections' # collections]_vars

\* An edit or a restore keeps the data it replaces as the newest version. (A
\* pull replaces data by production's and a repeated create by its own body
\* without a version.)
EditsKeepFormerData ==
    [][\A w \in Workspaces, c \in Collections, d \in Docs :
          /\ Overwritten(w, c, d)
          /\ rows'[w][c][d] # rows[Production][c][d]
          /\ meta'[w][c].sequence = meta[w][c].sequence
          => /\ versions'[w][c][d] # <<>>
             /\ versions'[w][c][d][Len(versions'[w][c][d])] = rows[w][c][d].data]_vars

\* Changing a document's data in its workspace takes it off the published
\* state, unless the new row is production's own.
EditsRevertToDraft ==
    [][\A w \in Workspaces, c \in Collections, d \in Docs :
          Overwritten(w, c, d) /\ rows'[w][c][d] # rows[Production][c][d]
          => rows'[w][c][d].status = "draft"]_vars
=============================================================================
