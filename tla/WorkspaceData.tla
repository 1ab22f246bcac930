---------------------------- MODULE WorkspaceData ----------------------------
(***************************************************************************)
(* The document tables of one project and what each data-client call does  *)
(* to them (cms_backend/api/utils/sqlite_client.py, class SqliteData).     *)
(* The table cms_project_workspace_data holds, per workspace and           *)
(* collection, one row per document and one '_meta_data' row with the      *)
(* authored order of the documents and a second copy of their statuses.    *)
(* Here the document rows are "rows" and the '_meta_data' rows are "meta". *)
(* The operators return the tables after a call; the modules that extend   *)
(* this one decide when a call takes effect.                               *)
(***************************************************************************)
EXTENDS Integers, Sequences, FiniteSets, Functions

CONSTANTS
    Workspaces,     \* the editable workspaces
    Production,     \* the workspace named 'production'
    Collections,    \* collection ids
    Docs,           \* document ids
    Values,         \* field data a collection's schema accepts
    NoRow,          \* the absent row
    MaxVersions     \* versions kept per document (50 in the code)

ASSUME ProductionAssumption == Production \notin Workspaces
ASSUME DocsAssumption       == IsFiniteSet(Docs)
ASSUME NoRowAssumption      == NoRow \notin [data : Values, status : {"draft", "published"}]
ASSUME VersionsAssumption   == MaxVersions \in Nat \ {0}

AllWorkspaces == Workspaces \cup {Production}

Statuses == {"draft", "published"}
Rows     == [data : Values, status : Statuses]

\* A meta row may be absent, may lack the key '_document_sequence'
\* ("unordered"), or has both keys ("ordered").
Metas == [kind     : {"absent", "unordered", "ordered"},
          sequence : Seq(Docs),
          statuses : [Docs -> Statuses \cup {"none"}]]

NoMeta == [kind |-> "absent", sequence |-> <<>>, statuses |-> [d \in Docs |-> "none"]]

NoRows  == [c \in Collections |-> [d \in Docs |-> NoRow]]
NoMetas == [c \in Collections |-> NoMeta]

-----------------------------------------------------------------------------
(* Orders of document ids.                                                 *)

\* Every order in which the members of S can be listed once each.
Orderings(S) == {s \in [1 .. Cardinality(S) -> S] : Range(s) = S}

\* The entries of s that are in S, in the order of s, as the one member of a
\* set: a list comprehension over s.
Selected(s, S) ==
    LET kept == {i \in DOMAIN s : s[i] \in S}
        enum == {f \in [1 .. Cardinality(kept) -> kept] :
                    /\ Range(f) = kept
                    /\ \A i, j \in DOMAIN f : i < j => f[i] < f[j]}
    IN  {[i \in 1 .. Cardinality(kept) |-> s[f[i]]] : f \in enum}

-----------------------------------------------------------------------------
(* One row or one meta row.                                                *)

Draft(v) == [data |-> v, status |-> "draft"]

Present(R, w, c) == {d \in Docs : R[w][c][d] # NoRow}

\* The two keys a handler writes back after reading them with _get_meta.
Ordered(seq, st) == [kind |-> "ordered", sequence |-> seq, statuses |-> st]

\* _get_meta reads meta["_document_sequence"] of any meta row there is.
MetaReadable(m) == m.kind # "unordered"

\* Mutant: lists the document again.
WithStatusAppended(m, d, st) == Ordered(Append(m.sequence, d), [m.statuses EXCEPT ![d] = st])

\* Record one document's status, listing the document if it is not listed.
WithStatus(m, d, st) ==
    Ordered(IF d \in Range(m.sequence) THEN m.sequence ELSE Append(m.sequence, d),
            [m.statuses EXCEPT ![d] = st])

\* Mutants: nothing is dropped; the newest versions are dropped.
SavedUnpruned(history, v) == Append(history, v)

SavedOldest(history, v) ==
    LET h == Append(history, v)
    IN  IF Len(h) > MaxVersions THEN SubSeq(h, 1, MaxVersions) ELSE h

\* Append a snapshot and drop all but the latest MaxVersions.
Saved(history, v) ==
    LET h == Append(history, v)
    IN  IF Len(h) > MaxVersions THEN SubSeq(h, Len(h) - MaxVersions + 1, Len(h)) ELSE h

-----------------------------------------------------------------------------
(* Push one document: stamp the source row, copy it, list both. "r" is the *)
(* source row as the SELECT found it; the UPDATE finds none if it is gone. *)

\* Mutant: copies the row as it was before the stamp.
PushDocumentRowsStale(R, w, c, d, r) ==
    [R EXCEPT ![w][c][d]          = IF @ = NoRow THEN NoRow ELSE [r EXCEPT !.status = "published"],
              ![Production][c][d] = r]

PushDocumentRows(R, w, c, d, r) ==
    LET pushed == [r EXCEPT !.status = "published"]
    IN  [R EXCEPT ![w][c][d]          = IF @ = NoRow THEN NoRow ELSE pushed,
                  ![Production][c][d] = pushed]

\* Mutant: production gets the status but not the id.
PushDocumentMetaUnlisted(M, w, c, d) ==
    [M EXCEPT ![w][c] = WithStatus(@, d, "published"),
              ![Production][c].statuses[d] = "published"]

PushDocumentMeta(M, w, c, d) ==
    [M EXCEPT ![w][c] = WithStatus(@, d, "published"),
              ![Production][c] = WithStatus(@, d, "published")]

-----------------------------------------------------------------------------
(* Push one collection.                                                    *)

\* Mutant: any order of the rows.
PushOrdersArbitrary(R, M, w, c) == Orderings(Present(R, w, c))

\* The orders production may get: the source's, then the rows it misses.
PushOrders(R, M, w, c) ==
    {p[1] \o p[2] : p \in Selected(M[w][c].sequence, Present(R, w, c))
                           \X Orderings(Present(R, w, c) \ Range(M[w][c].sequence))}

\* The bulk UPDATE that stamps the source's rows.
Stamped(R, w, c) ==
    [d \in Docs |-> IF R[w][c][d] = NoRow THEN NoRow
                    ELSE [R[w][c][d] EXCEPT !.status = "published"]]

\* The source's meta row: every document present is published, the sequence
\* is written back only if the row already had one.
StampedMeta(R, M, w, c) ==
    [kind     |-> IF M[w][c].kind = "absent" THEN "unordered" ELSE M[w][c].kind,
     sequence |-> M[w][c].sequence,
     statuses |-> [d \in Docs |-> IF R[w][c][d] # NoRow THEN "published"
                                  ELSE M[w][c].statuses[d]]]

\* Mutant: the copies keep the status they had.
CopiedUnstamped(R, w, c, ids) == [d \in Docs |-> IF d \in ids THEN R[w][c][d] ELSE NoRow]

\* Production's rows and meta row when the rows of ids were inserted.
Copied(R, w, c, ids) == [d \in Docs |-> IF d \in ids THEN Stamped(R, w, c)[d] ELSE NoRow]

CopiedMeta(seq) ==
    Ordered(seq, [d \in Docs |-> IF d \in Range(seq) THEN "published" ELSE "none"])

\* Mutant: the bulk UPDATE does not name the workspace.
PushCollectionRowsEverywhere(R, w, c, ids) ==
    [x \in DOMAIN R |->
        [R[x] EXCEPT ![c] = IF x = Production THEN Copied(R, w, c, ids) ELSE Stamped(R, x, c)]]

PushCollectionRows(R, w, c, ids) ==
    [R EXCEPT ![w][c] = Stamped(R, w, c), ![Production][c] = Copied(R, w, c, ids)]

PushCollectionMeta(R, M, w, c, m) ==
    [M EXCEPT ![w][c] = StampedMeta(R, M, w, c), ![Production][c] = m]

\* The ids inserted before the first one that repeats an earlier one.
BeforeRepeat(seq) ==
    {seq[i] : i \in {j \in DOMAIN seq : IsInjective([k \in 1 .. j |-> seq[k]])}}

-----------------------------------------------------------------------------
(* Push one workspace: replace all of production by the source as it was   *)
(* read, rows or meta rows.                                                *)

PushWorkspace(T, source) == [T EXCEPT ![Production] = source]

-----------------------------------------------------------------------------
(* Pull from production into w, for the keys in scope: "mine" and "theirs" *)
(* are the rows of w and of production as read. Documents missing from w   *)
(* are added; one that differs is replaced if "res" says so.               *)

Incoming(mine, theirs, scope, res) ==
    {k \in scope : LET m == mine[k[1]][k[2]]  t == theirs[k[1]][k[2]]
                   IN  t # NoRow /\ m # t /\ (m = NoRow \/ k \in res)}

\* New ids of a collection, those its sequence does not list yet.
Unlisted(mine, M, w, in, c) ==
    {d \in Docs : <<c, d>> \in in /\ mine[c][d] = NoRow /\ d \notin Range(M[w][c].sequence)}

\* The order in which the diff yields the new ids is that of a Python set.
PullOrders(mine, M, w, in) ==
    {f \in [Collections -> UNION {Orderings(S) : S \in SUBSET Docs}] :
        \A c \in Collections : f[c] \in Orderings(Unlisted(mine, M, w, in, c))}

PullRows(R, w, in, theirs) ==
    [R EXCEPT ![w] = [c \in Collections |-> [d \in Docs |->
        IF <<c, d>> \in in THEN theirs[c][d] ELSE R[w][c][d]]]]

\* Mutant: new ids are not listed.
PullMetaUnlisted(M, w, in, theirs, order) ==
    [M EXCEPT ![w] = [c \in Collections |->
        IF \A d \in Docs : <<c, d>> \notin in THEN M[w][c]
        ELSE Ordered(M[w][c].sequence,
                     [d \in Docs |-> IF <<c, d>> \in in THEN theirs[c][d].status
                                     ELSE M[w][c].statuses[d]])]]

PullMeta(M, w, in, theirs, order) ==
    [M EXCEPT ![w] = [c \in Collections |->
        IF \A d \in Docs : <<c, d>> \notin in THEN M[w][c]
        ELSE Ordered(M[w][c].sequence \o order[c],
                     [d \in Docs |-> IF <<c, d>> \in in THEN theirs[c][d].status
                                     ELSE M[w][c].statuses[d]])]]

=============================================================================
