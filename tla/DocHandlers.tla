----------------------------- MODULE DocHandlers -----------------------------
(***************************************************************************)
(* The handlers of DocStore, one step per commit and per read. The event   *)
(* loop runs one document handler at a time (routers/documents.py,         *)
(* sdk_documents.py: "async def", and no await of theirs suspends); each   *)
(* thread of the pool runs one workspace or collection handler at a time   *)
(* (routers/projects.py, collections.py: "def"). All share the database,   *)
(* where a statement outside a transaction, and a transaction, is atomic   *)
(* (api/utils/sqlite_client.py). A crash loses what is in progress.        *)
(*                                                                         *)
(* No client resends a create here, so that no id is listed twice and no   *)
(* push of a collection is aborted.                                        *)
(***************************************************************************)
EXTENDS WorkspaceData

CONSTANTS
    Pool,       \* threads that run "def" handlers (8 in main.py)
    Loop,       \* the thread of the event loop
    Requests,   \* the requests clients send, by the name of their handler
    Overlap,    \* those that may arrive while another is handled
    Crashes     \* whether the process may stop in the middle

ASSUME LoopAssumption == Loop \notin Pool
ASSUME EnvironmentAssumption == Overlap \subseteq Requests /\ Crashes \in BOOLEAN

VARIABLES rows, meta, versions, workspaces, collections    \* as in DocStore

VARIABLE
    job     \* job[p]: the statements p has still to execute, with what it read

tables == <<rows, meta, versions, workspaces, collections>>
vars   == <<tables, job>>

Threads == Pool \cup {Loop}
Idle(p) == job[p] = <<>>

Init ==
    /\ rows = [w \in AllWorkspaces |-> NoRows]
    /\ meta = [w \in AllWorkspaces |-> NoMetas]
    /\ versions = [w \in AllWorkspaces |-> [c \in Collections |-> [d \in Docs |-> <<>>]]]
    /\ workspaces = {}
    /\ collections = [c \in Collections |-> "unused"]
    /\ job = [p \in Threads |-> <<>>]

-----------------------------------------------------------------------------
(* Statements.                                                             *)

\* p is about to execute s, of the given kind, or executes it last.
Doing(p, kind) == ~Idle(p) /\ Head(job[p]).do = kind
Done(p)        == job' = [job EXCEPT ![p] = Tail(@)]

\* s leads to the statements t.
Continue(p, t) == job' = [job EXCEPT ![p] = t \o Tail(@)]

UpsertRow(w, c, d, r)  == [do |-> "upsert row", w |-> w, c |-> c, d |-> d, row |-> r]
UpsertMeta(w, c, m)    == [do |-> "upsert meta", w |-> w, c |-> c, meta |-> m]
AddVersion(w, c, d, v) == [do |-> "add version", w |-> w, c |-> c, d |-> d, data |-> v]

ExecUpsertRow(p) ==
    /\ Doing(p, "upsert row")
    /\ LET s == Head(job[p]) IN rows' = [rows EXCEPT ![s.w][s.c][s.d] = s.row]
    /\ Done(p)
    /\ UNCHANGED <<meta, versions, workspaces, collections>>

ExecUpsertMeta(p) ==
    /\ Doing(p, "upsert meta")
    /\ LET s == Head(job[p]) IN meta' = [meta EXCEPT ![s.w][s.c] = s.meta]
    /\ Done(p)
    /\ UNCHANGED <<rows, versions, workspaces, collections>>

ExecAddVersion(p) ==
    /\ Doing(p, "add version")
    /\ LET s == Head(job[p])
       IN  versions' = [versions EXCEPT ![s.w][s.c][s.d] = Saved(@, s.data)]
    /\ Done(p)
    /\ UNCHANGED <<rows, meta, workspaces, collections>>

\* A handler starts when its thread is free and its client has sent it.
Starts(p, request) ==
    /\ request \in Requests
    /\ IF request \in Overlap THEN Idle(p) ELSE \A q \in Threads : Idle(q)

Begin(p, t) == job' = [job EXCEPT ![p] = t] /\ UNCHANGED tables

-----------------------------------------------------------------------------
(* Document handlers, on the event loop. They begin with the read of the   *)
(* meta row, of the version or of the document's row.                      *)

Live(c) == collections[c] = "live"

Listed(w, c, d) == MetaReadable(meta[w][c]) /\ d \in Range(meta[w][c].sequence)

Reverted(m, d) == Ordered(m.sequence, [m.statuses EXCEPT ![d] = "draft"])

\* Mutant: the meta row goes first.
CreateDocumentMetaFirst(w, c, d, v) ==
    LET m == meta[w][c]
    IN  /\ Starts(Loop, "create_document")
        /\ Live(c)
        /\ MetaReadable(m)
        /\ d \notin Range(m.sequence)
        /\ Begin(Loop, <<UpsertMeta(w, c, Ordered(Append(m.sequence, d),
                                                  [m.statuses EXCEPT ![d] = "draft"])),
                         UpsertRow(w, c, d, Draft(v))>>)

\* create_document: the row, then the meta row as read with the id appended.
CreateDocument(w, c, d, v) ==
    LET m == meta[w][c]
    IN  /\ Starts(Loop, "create_document")
        /\ Live(c)
        /\ MetaReadable(m)
        /\ d \notin Range(m.sequence)
        /\ Begin(Loop, <<UpsertRow(w, c, d, Draft(v)),
                         UpsertMeta(w, c, Ordered(Append(m.sequence, d),
                                                  [m.statuses EXCEPT ![d] = "draft"]))>>)

\* An edit reads the row next. "change" says what is to be made of it, and m
\* is the meta row as read before.
BeginEdit(w, c, d, m, change) ==
    /\ Live(c)
    /\ Begin(Loop, <<[do |-> "read row", w |-> w, c |-> c, d |-> d, meta |-> m,
                      change |-> change]>>)

UpdateDocument(w, c, d, v) ==
    /\ Starts(Loop, "update_document")
    /\ Listed(w, c, d)
    /\ BeginEdit(w, c, d, meta[w][c], [kind |-> "data", data |-> v])

\* update_document with an empty body, or one that fails validation.
UpdateWithoutEffect(w, c, d) ==
    /\ Starts(Loop, "update_document")
    /\ Listed(w, c, d)
    /\ \E kind \in {"empty", "invalid"} : BeginEdit(w, c, d, meta[w][c], [kind |-> kind])

UpdateDocumentStatus(w, c, d) ==
    /\ Starts(Loop, "update_document_status")
    /\ Listed(w, c, d)
    /\ BeginEdit(w, c, d, meta[w][c], [kind |-> "status"])

\* restore_document_version reads no meta row, and a version of any document.
RestoreVersion(w, c, d, v) ==
    /\ Starts(Loop, "restore_document_version")
    /\ \E ws \in AllWorkspaces, co \in Collections, dd \in Docs :
          v \in Range(versions[ws][co][dd])
    /\ BeginEdit(w, c, d, NoMeta, [kind |-> "restore", data |-> v])

\* The commits an edit s may make that found row r.
Commits(s, r) ==
    LET kind  == s.change.kind
        dirty == kind = "data" /\ r.status = "published"
    IN  [version |-> AddVersion(s.w, s.c, s.d, r.data),
         revert  |-> UpsertMeta(s.w, s.c, Reverted(s.meta, s.d)),
         write   |-> UpsertRow(s.w, s.c, s.d,
                        [data   |-> IF kind \in {"data", "restore"} THEN s.change.data ELSE r.data,
                         status |-> IF dirty \/ kind = "status" THEN "draft" ELSE r.status]),
         dirty   |-> dirty]

\* Mutants: the row is written before its version; its listing is not reverted.
EditsWriteFirst(s, r) == LET k == Commits(s, r) IN <<k.write, k.version>>

EditsKeepListing(s, r) == LET k == Commits(s, r) IN <<k.version, k.write>>

\* Which of them it makes, in order.
Edits(s, r) ==
    LET k == Commits(s, r)
    IN  CASE s.change.kind = "invalid" -> <<k.version>>
          [] s.change.kind = "status"  -> <<k.write, k.revert>>
          [] k.dirty                   -> <<k.version, k.revert, k.write>>
          [] OTHER                     -> <<k.version, k.write>>

ExecReadRow(p) ==
    /\ Doing(p, "read row")
    /\ LET s == Head(job[p])
           r == rows[s.w][s.c][s.d]
       IN  Continue(p, IF r = NoRow THEN <<>> ELSE Edits(s, r))
    /\ UNCHANGED tables

\* delete_document: the meta row as read without the id, then the row.
DeleteDocument(w, c, d) ==
    LET m == meta[w][c]
    IN  /\ Starts(Loop, "delete_document")
        /\ Live(c)
        /\ Listed(w, c, d)
        /\ \E s \in Selected(m.sequence, Docs \ {d}) :
              Begin(Loop, <<UpsertMeta(w, c, Ordered(s, [m.statuses EXCEPT ![d] = "none"])),
                            UpsertRow(w, c, d, NoRow)>>)

-----------------------------------------------------------------------------
(* Push.                                                                   *)

\* push_document_to_production: its SELECT is outside the transaction.
PushDocument(w, c, d) ==
    /\ Starts(Loop, "push_document_to_production")
    /\ Live(c)
    /\ rows[w][c][d] # NoRow
    /\ Begin(Loop, <<[do |-> "push document", w |-> w, c |-> c, d |-> d,
                      row |-> rows[w][c][d]]>>)

ExecPushDocument(p) ==
    /\ Doing(p, "push document")
    /\ LET s == Head(job[p])
       IN  /\ rows' = PushDocumentRows(rows, s.w, s.c, s.d, s.row)
           /\ meta' = PushDocumentMeta(meta, s.w, s.c, s.d)
    /\ Done(p)
    /\ UNCHANGED <<versions, workspaces, collections>>

\* push_collection_to_production is a transaction from its first statement.
PushCollection(w, c) ==
    /\ Starts(Loop, "push_collection_to_production")
    /\ Live(c)
    /\ \E s \in PushOrders(rows, meta, w, c) :
          /\ IsInjective(s)
          /\ rows' = PushCollectionRows(rows, w, c, Range(s))
          /\ meta' = PushCollectionMeta(rows, meta, w, c, CopiedMeta(s))
    /\ UNCHANGED <<versions, workspaces, collections, job>>

\* push_to_production: the document rows and the meta rows are read by two
\* statements before the transaction that replaces production's.
PushWorkspaceToProduction(p, w) ==
    /\ Starts(p, "push_to_production")
    /\ w \in workspaces
    /\ Begin(p, <<[do |-> "read rows to push", w |-> w]>>)

ExecReadRowsToPush(p) ==
    /\ Doing(p, "read rows to push")
    /\ LET s == Head(job[p])
       IN  Continue(p, <<[do |-> "read meta to push", w |-> s.w, rows |-> rows[s.w]]>>)
    /\ UNCHANGED tables

ExecReadMetaToPush(p) ==
    /\ Doing(p, "read meta to push")
    /\ LET s == Head(job[p])
       IN  Continue(p, <<[do |-> "replace production", rows |-> s.rows, meta |-> meta[s.w]]>>)
    /\ UNCHANGED tables

ExecReplaceProduction(p) ==
    /\ Doing(p, "replace production")
    /\ rows' = PushWorkspace(rows, Head(job[p]).rows)
    /\ meta' = PushWorkspace(meta, Head(job[p]).meta)
    /\ Done(p)
    /\ UNCHANGED <<versions, workspaces, collections>>

-----------------------------------------------------------------------------
(* Pull: the rows of the workspace, those of production, then one          *)
(* transaction. "choices" are the resolutions the client may have sent.    *)

BeginPull(p, w, scope, choices) ==
    Begin(p, <<[do |-> "read mine", w |-> w, scope |-> scope, choices |-> choices]>>)

PullDocument(w, c, d) ==
    /\ Starts(Loop, "pull_document_from_production")
    /\ Live(c)
    /\ rows[Production][c][d] # NoRow
    /\ BeginPull(Loop, w, {<<c, d>>}, {{<<c, d>>}})

PullCollection(w, c) ==
    /\ Starts(Loop, "pull_collection_from_production")
    /\ Live(c)
    /\ BeginPull(Loop, w, {c} \X Docs, SUBSET ({c} \X Docs))

PullWorkspace(p, w) ==
    /\ Starts(p, "pull_from_production")
    /\ w \in workspaces
    /\ BeginPull(p, w, Collections \X Docs, SUBSET (Collections \X Docs))

ExecReadMine(p) ==
    /\ Doing(p, "read mine")
    /\ LET s == Head(job[p])
       IN  Continue(p, <<[do |-> "read theirs", w |-> s.w, scope |-> s.scope,
                          choices |-> s.choices, mine |-> rows[s.w]]>>)
    /\ UNCHANGED tables

\* The diff, of the rows as they were read.
ExecReadTheirs(p) ==
    /\ Doing(p, "read theirs")
    /\ LET s      == Head(job[p])
           theirs == rows[Production]
       IN  \E res \in s.choices :
              Continue(p, <<[do |-> "apply pull", w |-> s.w, mine |-> s.mine, theirs |-> theirs,
                             in |-> Incoming(s.mine, theirs, s.scope, res)]>>)
    /\ UNCHANGED tables

ExecApplyPull(p) ==
    /\ Doing(p, "apply pull")
    /\ LET s == Head(job[p])
       IN  /\ rows' = PullRows(rows, s.w, s.in, s.theirs)
           /\ \E order \in PullOrders(s.mine, meta, s.w, s.in) :
                 meta' = PullMeta(meta, s.w, s.in, s.theirs, order)
    /\ Done(p)
    /\ UNCHANGED <<versions, workspaces, collections>>

-----------------------------------------------------------------------------
(* Workspace and collection handlers, in the pool.                         *)

\* create_workspace: a record that has appeared since the check is replaced
\* by an equal one, so that the check matters at the write only.
CreateWorkspace(p, w) ==
    /\ Starts(p, "create_workspace")
    /\ w \notin workspaces
    /\ workspaces' = workspaces \cup {w}
    /\ UNCHANGED <<rows, meta, versions, collections, job>>

\* delete_workspace: the check, then both DELETEs in one transaction.
DeleteWorkspace(p, w) ==
    /\ Starts(p, "delete_workspace")
    /\ w \in workspaces
    /\ Begin(p, <<[do |-> "delete workspace", w |-> w]>>)

ExecDeleteWorkspace(p) ==
    /\ Doing(p, "delete workspace")
    /\ LET w == Head(job[p]).w
       IN  /\ workspaces' = workspaces \ {w}
           /\ rows' = [rows EXCEPT ![w] = NoRows]
           /\ meta' = [meta EXCEPT ![w] = NoMetas]
    /\ Done(p)
    /\ UNCHANGED <<versions, collections>>

\* create_collection: the record under a new id, then production's meta row.
CreateCollection(p, c) ==
    /\ Starts(p, "create_collection")
    /\ collections[c] = "unused"
    /\ collections' = [collections EXCEPT ![c] = "live"]
    /\ job' = [job EXCEPT ![p] = <<UpsertMeta(Production, c, Ordered(<<>>, NoMeta.statuses))>>]
    /\ UNCHANGED <<rows, meta, versions, workspaces>>

\* delete_collection: a commit per workspace that had a record, production's
\* first as the oldest; the collection's record last.
DeleteCollection(p, c) ==
    /\ Starts(p, "delete_collection")
    /\ Live(c)
    /\ \E order \in Orderings(workspaces) :
          LET all    == <<Production>> \o order
              clears == [i \in DOMAIN all |-> [do |-> "clear collection", w |-> all[i], c |-> c]]
          IN  Begin(p, clears \o <<[do |-> "delete collection", c |-> c]>>)

ExecClearCollection(p) ==
    /\ Doing(p, "clear collection")
    /\ LET s == Head(job[p])
       IN  /\ rows' = [rows EXCEPT ![s.w][s.c] = NoRows[s.c]]
           /\ meta' = [meta EXCEPT ![s.w][s.c] = NoMeta]
    /\ Done(p)
    /\ UNCHANGED <<versions, workspaces, collections>>

ExecDeleteCollection(p) ==
    /\ Doing(p, "delete collection")
    /\ collections' = [collections EXCEPT ![Head(job[p]).c] = "deleted"]
    /\ Done(p)
    /\ UNCHANGED <<rows, meta, versions, workspaces>>

\* The process stops and is started again: open transactions are rolled back.
Crash ==
    /\ Crashes
    /\ \E p \in Threads : ~Idle(p)
    /\ job' = [p \in Threads |-> <<>>]
    /\ UNCHANGED tables

-----------------------------------------------------------------------------
DocumentRequest(w, c, d) ==
    \/ \E v \in Values : \/ CreateDocument(w, c, d, v)
                         \/ UpdateDocument(w, c, d, v)
                         \/ RestoreVersion(w, c, d, v)
    \/ UpdateWithoutEffect(w, c, d)
    \/ UpdateDocumentStatus(w, c, d)
    \/ DeleteDocument(w, c, d)
    \/ PushDocument(w, c, d)
    \/ PullDocument(w, c, d)

PoolRequest(p) ==
    \/ \E w \in Workspaces : \/ CreateWorkspace(p, w)
                             \/ DeleteWorkspace(p, w)
                             \/ PushWorkspaceToProduction(p, w)
                             \/ PullWorkspace(p, w)
    \/ \E c \in Collections : CreateCollection(p, c) \/ DeleteCollection(p, c)

Exec(p) ==
    \/ ExecUpsertRow(p)
    \/ ExecUpsertMeta(p)
    \/ ExecAddVersion(p)
    \/ ExecReadRow(p)
    \/ ExecPushDocument(p)
    \/ ExecReadRowsToPush(p)
    \/ ExecReadMetaToPush(p)
    \/ ExecReplaceProduction(p)
    \/ ExecReadMine(p)
    \/ ExecReadTheirs(p)
    \/ ExecApplyPull(p)
    \/ ExecDeleteWorkspace(p)
    \/ ExecClearCollection(p)
    \/ ExecDeleteCollection(p)

Next ==
    \/ \E w \in Workspaces, c \in Collections, d \in Docs : DocumentRequest(w, c, d)
    \/ \E w \in Workspaces, c \in Collections : PushCollection(w, c) \/ PullCollection(w, c)
    \/ \E p \in Pool : PoolRequest(p)
    \/ \E p \in Threads : Exec(p)
    \/ Crash

Spec == Init /\ [][Next]_vars

-----------------------------------------------------------------------------
(* Properties.                                                             *)

\* The types of the tables and the version limit, at every commit.
TypeOK ==
    /\ rows \in [AllWorkspaces -> [Collections -> [Docs -> Rows \cup {NoRow}]]]
    /\ meta \in [AllWorkspaces -> [Collections -> Metas]]
    /\ versions \in [AllWorkspaces -> [Collections -> [Docs -> Seq(Values)]]]
    /\ \A w \in AllWorkspaces, c \in Collections, d \in Docs :
          Len(versions[w][c][d]) <= MaxVersions
    /\ workspaces \subseteq Workspaces
    /\ collections \in [Collections -> {"unused", "live", "deleted"}]
    /\ DOMAIN job = Threads

\* No sequence lists a document twice, although creates, edits and deletions
\* write back the sequence they read before other commits, and a pull decides
\* which ids are new before its transaction.
SequencesAreUnique ==
    \A w \in AllWorkspaces, c \in Collections : IsInjective(meta[w][c].sequence)

ListedHaveRows(w) ==
    \A c \in Collections : \A d \in Range(meta[w][c].sequence) : rows[w][c][d] # NoRow

\* A document that is listed can be read, at every moment and after a crash:
\* create writes the row first, delete removes it last.
EditableDocumentsExist == \A w \in Workspaces : ListedHaveRows(w)

\* The same of production, which sites read.
ProductionDocumentsExist == ListedHaveRows(Production)

\* The thread that takes this step applies a pull.
Pulling == \E p \in Threads : Doing(p, "apply pull") /\ job'[p] # job[p]

\* When a listed document's data is replaced other than by a pull, the data
\* replaced is its newest version: nothing an author wrote is lost.
EditsKeepFormerData ==
    [][\A w \in Workspaces, c \in Collections : \A d \in Range(meta[w][c].sequence) :
          LET old == rows[w][c][d]  new == rows'[w][c][d]  kept == versions[w][c][d]
          IN  old # NoRow /\ new # NoRow /\ old.data # new.data /\ ~Pulling
              => kept # <<>> /\ kept[Len(kept)] = old.data]_vars

\* A document becomes published in a workspace only by a commit that leaves
\* production with the same row.
PublishedOnBothSides ==
    [][\A w \in Workspaces, c \in Collections, d \in Docs :
          LET old == rows[w][c][d]  new == rows'[w][c][d]
          IN  /\ new # old
              /\ new # NoRow /\ new.status = "published"
              /\ old = NoRow \/ old.status = "draft"
              => new = rows'[Production][c][d]]_vars
=============================================================================
