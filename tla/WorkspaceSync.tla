--------------------------- MODULE WorkspaceSync ---------------------------
(***************************************************************************)
(* The two pages of the dashboard that push and pull more than a document: *)
(* the project page with its list of workspaces (ProjectPage) and the      *)
(* document list of one collection (DocumentList), each with a sync dialog *)
(* (WorkspaceSyncModal) of its own that lists the differences with         *)
(* production and sends the choices made there.  Differences are fetched   *)
(* on demand through the query cache and may be older than what they are   *)
(* applied to.                                                             *)
(*                                                                         *)
(* One collection is modelled; a value stands for a document's data with   *)
(* its status.  The list's documents and their order, which it reads again *)
(* after a pull, are the subject of DocStore.                              *)
(***************************************************************************)
EXTENDS QueryCache, Naturals, FiniteSets

CONSTANTS
    Workspaces, Existing,    \* the authors' workspaces, and those there are at first
    Docs, Values,
    Default,                 \* what production holds at first
    ProjectPage,             \* the route that is not a workspace's document list
    MaxRequests, MaxEvents

ASSUME SyncAssumption ==
    Existing \subseteq Workspaces /\ Default \in Values /\ {MaxRequests, MaxEvents} \subseteq Nat

VARIABLES
    workspaces, rows, prod,    \* the server's tables
    names, diffs,        \* the query cache: the list of workspaces and
                               \* each workspace's differences
    page, modal,               \* the mounted page and its dialog
    awaiting,                  \* who waits for the differences of which workspace
    requests, sent, events

server == <<workspaces, rows, prod>>
queries == <<names, diffs>>
vars == <<server, queries, page, modal, awaiting, requests, sent, events>>

Buckets == {"same", "modified", "source_only", "target_only"}
Diff == [Docs -> Buckets]
Choices == {"production", "workspace"}
Unresolved == [d \in Docs |-> None]
Rows == [Docs -> Values \cup {None}]

ASSUME NoneAssumption == None \notin Choices

\* diff_workspaces.
DiffOf(source, target) ==
    [d \in Docs |-> CASE source[d] = target[d] -> "same"
                      [] target[d] = None -> "source_only"
                      [] source[d] = None -> "target_only"
                      [] OTHER -> "modified"]

\* MUTANT: what the request does not resolve is taken from production.
PulledUnlessKept(source, target, resolutions) ==
    [d \in Docs |->
        CASE DiffOf(source, target)[d] = "target_only" -> target[d]
          [] DiffOf(source, target)[d] = "modified" /\ resolutions[d] # "workspace" -> target[d]
          [] OTHER -> source[d]]
\* pull_from_production: documents only production has are added, those that
\* differ are taken from it where the request says so.
Pulled(source, target, resolutions) ==
    [d \in Docs |->
        CASE DiffOf(source, target)[d] = "target_only" -> target[d]
          [] DiffOf(source, target)[d] = "modified" /\ resolutions[d] = "production" -> target[d]
          [] OTHER -> source[d]]

Modified(diff) == {d \in Docs : diff[d] = "modified"}

OnList == page.at # ProjectPage
ClosedModal ==
    [open |-> None, mode |-> "push", diff |-> None, resolutions |-> Unresolved,
     loading |-> FALSE, submitting |-> FALSE]

---------------------------------------------------------------------------

\* Either page has just been mounted, with its queries.
Init ==
    /\ workspaces = Existing
    /\ prod = [d \in Docs |-> Default]
    /\ \E there \in Rows :
          rows = [w \in Workspaces |-> IF w \in Existing THEN there ELSE [d \in Docs |-> None]]
    /\ \E at \in Existing \cup {ProjectPage} :
          /\ page = [at |-> at, diffLoaded |-> at = ProjectPage]
          /\ diffs = [w \in Workspaces |-> IF w = at THEN Ask(EmptyEntry) ELSE EmptyEntry]
          /\ awaiting = IF at = ProjectPage THEN {} ELSE {[who |-> "list", of |-> at]}
    /\ names = Ask(EmptyEntry)
    /\ modal = ClosedModal
    /\ requests = {} /\ sent = 0 /\ events = 0

(* Fetching differences: fetchDiff of useWorkspaceDiff.                    *)

\* MUTANT: the keys the dialog defaults are those it last had.
WithDiffKeepingChoices(m, diff) == [m EXCEPT !.diff = diff, !.loading = FALSE]
\* The dialog's effect on the differences: production is the default.
WithDiff(m, diff) ==
    [m EXCEPT !.diff = diff, !.loading = FALSE,
              !.resolutions = [d \in Docs |-> IF d \in Modified(diff) THEN "production" ELSE None]]

\* The list's refreshDiff; its badges are DocumentEditor's.
ListWithDiff(p) == [p EXCEPT !.diffLoaded = TRUE]

\* Whoever asks is answered from the cache while it is fresh, and joins the
\* fetch in flight or starts one otherwise.
AskDiff(w, who, m) ==
    IF Wanted(diffs[w])
    THEN /\ diffs' = [diffs EXCEPT ![w] = Ask(@)]
         /\ awaiting' = awaiting \cup {[who |-> who, of |-> w]}
         /\ page' = IF who = "list" THEN [page EXCEPT !.diffLoaded = FALSE] ELSE page
         /\ modal' = IF who = "modal" THEN [m EXCEPT !.loading = TRUE] ELSE m
    ELSE /\ UNCHANGED <<diffs, awaiting>>
         /\ page' = IF who = "list" THEN ListWithDiff(page) ELSE page
         /\ modal' = IF who = "modal" THEN WithDiff(m, diffs[w].data) ELSE m

---------------------------------------------------------------------------
(* The user.                                                               *)

\* The menus of the rows, and of the list.
Offered == IF page.at = ProjectPage THEN (IF names.data = None THEN {} ELSE names.data)
           ELSE {page.at} \cap Workspaces

OpenModal(w, mode) ==
    /\ modal.open = None /\ w \in Offered
    /\ AskDiff(w, "modal",
               [modal EXCEPT !.open = w, !.mode = mode, !.diff = None, !.resolutions = Unresolved])
    /\ UNCHANGED <<server, names, requests, sent, events>>

\* What it showed is cleared when it opens, which is as good as here.
Closed(m) == [m EXCEPT !.open = None, !.mode = "push", !.diff = None, !.resolutions = Unresolved]

CloseModal ==
    /\ modal.open # None
    /\ modal' = Closed(modal)
    /\ UNCHANGED <<server, queries, page, awaiting, requests, sent, events>>

\* What the dialog shows, its Keep buttons, and its confirm button.
Listed == ~modal.loading /\ modal.diff # None

Choose(d, choice) ==
    /\ modal.open # None /\ modal.mode = "pull" /\ Listed /\ d \in Modified(modal.diff)
    /\ modal' = [modal EXCEPT !.resolutions[d] = choice]
    /\ UNCHANGED <<server, queries, page, awaiting, requests, sent, events>>

Send(kind, w, scoped, resolutions, listed) ==
    /\ sent < MaxRequests /\ sent' = sent + 1
    /\ requests' = requests \cup
          {[id |-> sent, kind |-> kind, of |-> w, scoped |-> scoped, resolutions |-> resolutions,
            listed |-> listed, at |-> "sent"]}

\* MUTANT: only the differences are waited for.
MayConfirmAgain == modal.open # None /\ Listed
MayConfirm == modal.open # None /\ Listed /\ ~modal.submitting

\* handleConfirm.  listed is history: the documents the dialog said the pull
\* would overwrite.
Confirm ==
    /\ MayConfirm
    /\ modal' = [modal EXCEPT !.submitting = TRUE]
    /\ \/ modal.mode = "push" /\ Send("push", modal.open, OnList, Unresolved, {})
       \/ /\ modal.mode = "pull"
          /\ Send("pull", modal.open, OnList, modal.resolutions,
                  {d \in Modified(modal.diff) : modal.resolutions[d] = "production"})
    /\ UNCHANGED <<server, queries, page, awaiting, events>>

\* The dialogs that create and archive a workspace close at once.
CreateWorkspace(w) ==
    /\ page.at = ProjectPage /\ modal.open = None
    /\ Send("create", w, FALSE, Unresolved, {})
    /\ UNCHANGED <<server, queries, page, modal, awaiting, events>>

ArchiveWorkspace(w) ==
    /\ page.at = ProjectPage /\ modal.open = None /\ w \in Offered
    /\ Send("delete", w, FALSE, Unresolved, {})
    /\ UNCHANGED <<server, queries, page, modal, awaiting, events>>

---------------------------------------------------------------------------
(* The server.                                                             *)

Answer(r, at) == requests' = (requests \ {r}) \cup {[r EXCEPT !.at = at]}

Serve(r) ==
    /\ r.at = "sent"
    /\ LET known == r.of \in workspaces \/ r.scoped
       IN \/ /\ known /\ r.kind = "push"
             /\ prod' = rows[r.of]
             /\ Answer(r, "done") /\ UNCHANGED <<workspaces, rows>>
          \/ /\ known /\ r.kind = "pull"
             /\ rows' = [rows EXCEPT ![r.of] = Pulled(@, prod, r.resolutions)]
             /\ Answer(r, "done") /\ UNCHANGED <<workspaces, prod>>
          \/ /\ known /\ r.kind = "delete"
             /\ workspaces' = workspaces \ {r.of}
             /\ rows' = [rows EXCEPT ![r.of] = [d \in Docs |-> None]]
             /\ Answer(r, "done") /\ UNCHANGED prod
          \/ /\ r.kind = "create" /\ ~known
             /\ workspaces' = workspaces \cup {r.of}
             /\ Answer(r, "done") /\ UNCHANGED <<rows, prod>>
          \/ /\ known = (r.kind = "create")
             /\ Answer(r, "failed") /\ UNCHANGED server
    /\ UNCHANGED <<queries, page, modal, awaiting, sent, events>>

\* Authors at work in a workspace.
OthersEdit(w, d, v) ==
    /\ events < MaxEvents /\ events' = events + 1
    /\ w \in workspaces /\ rows[w][d] # v
    /\ rows' = [rows EXCEPT ![w][d] = v]
    /\ UNCHANGED <<workspaces, prod, queries, page, modal, awaiting, requests, sent>>

ServeNames ==
    /\ Asked(names)
    /\ names' = [names EXCEPT !.fetch = Answered(workspaces)]
    /\ UNCHANGED <<server, diffs, page, modal, awaiting, requests, sent, events>>

---------------------------------------------------------------------------
(* Answers.                                                                *)

\* The dialog after a request that was confirmed in it: it closes, whatever it
\* shows by now, and stays open if the request failed.
AfterSync(r, m) == [(IF r.at = "done" THEN Closed(m) ELSE m) EXCEPT !.submitting = FALSE]

\* A push or a pull of the whole workspace.
ReceiveWorkspaceSync(r) ==
    /\ ~r.scoped
    /\ diffs' = IF r.at = "done" THEN [diffs EXCEPT ![r.of] = Invalidate(@, FALSE)] ELSE diffs
    /\ modal' = AfterSync(r, modal)
    /\ UNCHANGED <<names, page, awaiting>>

\* One of a collection, after which the list asks for the differences.
ReceiveCollectionSync(r) ==
    /\ r.scoped
    /\ \/ r.at = "done" /\ AskDiff(r.of, "list", AfterSync(r, modal))
       \/ /\ r.at = "failed" /\ modal' = AfterSync(r, modal)
          /\ UNCHANGED <<diffs, page, awaiting>>
    /\ UNCHANGED names

\* MUTANT: the list of workspaces is left as it is.
NamesAsTheyWere(q) == q
NamesAfterChange(q) == Invalidate(q, TRUE)

ReceiveWorkspaceChange(r) ==
    /\ names' = IF r.at = "done" THEN NamesAfterChange(names) ELSE names
    /\ UNCHANGED <<diffs, page, modal, awaiting>>

Receive(r) ==
    /\ r.at \in {"done", "failed"}
    /\ requests' = requests \ {r}
    /\ IF r.kind \in {"create", "delete"} THEN ReceiveWorkspaceChange(r)
       ELSE ReceiveWorkspaceSync(r) \/ ReceiveCollectionSync(r)
    /\ UNCHANGED <<server, sent, events>>

ReceiveNames ==
    /\ HasAnswer(names)
    /\ names' = Arrived(names)
    /\ UNCHANGED <<server, diffs, page, modal, awaiting, requests, sent, events>>

\* The differences reach everyone who waits for them.  They
\* are computed and arrive in one step, and grow old in the cache.
Waits(who, w) == [who |-> who, of |-> w] \in awaiting
Served(w) == {a \in awaiting : a.of # w}

ReceiveDiff(w) ==
    /\ Asked(diffs[w])
    /\ diffs' = [diffs EXCEPT ![w] = SetData([@ EXCEPT !.fetch = Idle], DiffOf(rows[w], prod))]
    /\ page' = IF Waits("list", w) THEN ListWithDiff(page) ELSE page
    /\ modal' = IF Waits("modal", w) THEN WithDiff(modal, diffs'[w].data) ELSE modal
    /\ awaiting' = Served(w)
    /\ UNCHANGED <<server, names, requests, sent, events>>

\* MUTANT: only a diff that arrives ends the wait.
StillLoading(m) == m
NotLoading(m) == [m EXCEPT !.loading = FALSE]

LoseDiff(w) ==
    /\ events < MaxEvents /\ events' = events + 1
    /\ diffs[w].fetch # Idle
    /\ diffs' = [diffs EXCEPT ![w] = Failed(@, "failed")]
    /\ page' = IF Waits("list", w) THEN ListWithDiff(page) ELSE page
    /\ modal' = IF Waits("modal", w) THEN NotLoading(modal) ELSE modal
    /\ awaiting' = Served(w)
    /\ UNCHANGED <<server, names, requests, sent>>

\* The request or its answer is lost.
LoseRequest(r) ==
    /\ events < MaxEvents /\ events' = events + 1
    /\ r.at \in {"sent", "done"} /\ Answer(r, "failed")
    /\ UNCHANGED <<server, queries, page, modal, awaiting, sent>>

\* staleTime passes.
Age(w) ==
    /\ events < MaxEvents /\ events' = events + 1
    /\ diffs[w].data # None /\ ~diffs[w].stale
    /\ diffs' = [diffs EXCEPT ![w].stale = TRUE]
    /\ UNCHANGED <<server, names, page, modal, awaiting, requests, sent>>

Answers ==
    \/ ServeNames \/ ReceiveNames
    \/ \E w \in Workspaces : ReceiveDiff(w)
    \/ \E r \in requests : Serve(r) \/ Receive(r)

UserStep ==
    \/ CloseModal \/ Confirm
    \/ \E w \in Workspaces :
          \/ CreateWorkspace(w) \/ ArchiveWorkspace(w)
          \/ \E mode \in {"push", "pull"} : OpenModal(w, mode)
    \/ \E d \in Docs, choice \in Choices : Choose(d, choice)

Next ==
    \/ UserStep \/ Answers
    \/ \E w \in Workspaces, d \in Docs, v \in Values \cup {None} : OthersEdit(w, d, v)
    \/ \E w \in Workspaces : LoseDiff(w) \/ Age(w)
    \/ \E r \in requests : LoseRequest(r)

\* The server answers every request and query, or they fail.
Spec == Init /\ [][Next]_vars /\ WF_vars(Answers)

---------------------------------------------------------------------------

TypeOK ==
    /\ workspaces \subseteq Workspaces
    /\ rows \in [Workspaces -> Rows] /\ prod \in Rows
    /\ names \in Entries(SUBSET Workspaces)
    /\ diffs \in [Workspaces -> Entries(Diff)]
    /\ page.at \in Workspaces \cup {ProjectPage}
    /\ modal.open \in Workspaces \cup {None}
    \* Every conflict the dialog lists has a choice, and nothing else has one.
    /\ Listed => {d \in Docs : modal.resolutions[d] # None} = Modified(modal.diff)

\* Differences may be old when a pull is confirmed, and older when it is
\* carried out; still a pull overwrites only documents that the dialog listed
\* as conflicts to be taken from production.
PullsOverwriteOnlyWhatWasListed ==
    [][\A r \in requests : (r.kind = "pull" /\ r.at = "sent" /\ r \notin requests') =>
          \A d \in Docs :
              (rows[r.of][d] # None /\ rows'[r.of][d] # rows[r.of][d]) => d \in r.listed]_vars

\* However often a dialog is closed and opened while a push or a pull is on
\* its way, it sends no second one before the first is answered.
SyncsDoNotOverlap ==
    \A r, q \in requests : ({r.kind, q.kind} \subseteq {"push", "pull"}) => r = q

\* A dialog neither loads for ever nor stays disabled after its request.
DialogsSettle == []<>(~modal.loading /\ ~modal.submitting /\ page.diffLoaded)

\* With no request or read under way, and none lost, the list of workspaces
\* is the server's: also when a read overtakes the creation or the archiving
\* of a workspace.
NamesTellTheServer ==
    (requests = {} /\ names.fetch = Idle /\ events = 0) => names.data = workspaces
===========================================================================
