------------------------- MODULE WorkspaceSyncProofs -------------------------
(***************************************************************************)
(* Proofs about WorkspaceSync, for every set of workspaces, documents and  *)
(* values, and however many requests and events there are.                 *)
(***************************************************************************)
EXTENDS WorkspaceSync, TLAPS

-----------------------------------------------------------------------------
(* The inductive invariant.                                                *)

Modals ==
    [open : Workspaces \cup {None}, mode : {"push", "pull"}, diff : Diff \cup {None},
     resolutions : [Docs -> Choices \cup {None}], loading : BOOLEAN, submitting : BOOLEAN]

Requests ==
    [id : Nat, kind : {"push", "pull", "create", "delete"}, of : Workspaces, scoped : BOOLEAN,
     resolutions : [Docs -> Choices \cup {None}], listed : SUBSET Docs,
     at : {"sent", "done", "failed"}]

ServerOK == workspaces \subseteq Workspaces /\ rows \in [Workspaces -> Rows] /\ prod \in Rows
NamesOK  == names \in Entries(SUBSET Workspaces)
DiffsOK  == diffs \in [Workspaces -> Entries(Diff)]
PageOK   == page \in [at : Workspaces \cup {ProjectPage}, diffLoaded : BOOLEAN]
CountsOK == sent \in Nat /\ events \in Nat

\* The conflicts a dialog has been given each have a choice, and only they.
ChosenIn(m) ==
    \/ m.diff = None /\ m.resolutions = Unresolved
    \/ {d \in Docs : m.resolutions[d] # None} = Modified(m.diff)

ModalInv == modal \in Modals /\ ChosenIn(modal)

\* A pull takes from production only what the dialog listed.
PullsListed ==
    \A r \in requests, d \in Docs :
        r.kind = "pull" /\ r.resolutions[d] = "production" => d \in r.listed

Syncs == {r \in requests : r.kind \in {"push", "pull"}}

\* While a push or a pull is on its way, the dialog's button is disabled.
SyncsSubmitting == Syncs # {} => modal.submitting

RequestsInv == requests \subseteq Requests /\ PullsListed

\* While nothing has been lost, the list of workspaces is the server's, is
\* about to be, or will be invalidated.
NamesFollow ==
    events = 0 => \/ \E r \in requests : r.kind \in {"create", "delete"} /\ r.at = "done"
                  \/ names.fetch.at = "asked"
                  \/ names.fetch.at = "answered" /\ names.fetch.value = workspaces
                  \/ names.fetch = Idle /\ names.data = workspaces

IInv ==
    /\ ServerOK /\ NamesOK /\ DiffsOK /\ PageOK /\ CountsOK
    /\ ModalInv /\ RequestsInv /\ SyncsSubmitting /\ SyncsDoNotOverlap /\ NamesFollow

-----------------------------------------------------------------------------
(* Entries of the query cache.                                             *)

LEMMA EmptyEntryOK ==
  ASSUME NEW D
  PROVE  EmptyEntry \in Entries(D)
BY DEF EmptyEntry, Entries, Idle

LEMMA AskOK ==
  ASSUME NEW D, NEW q \in Entries(D)
  PROVE  Ask(q) \in Entries(D) /\ Ask(q).data = q.data
BY DEF Ask, Entries, Idle

LEMMA SetDataOK ==
  ASSUME NEW D, NEW q \in Entries(D), NEW v \in D \cup {None}
  PROVE  /\ SetData(q, v) \in Entries(D)
         /\ SetData(q, v).data = v /\ SetData(q, v).fetch = q.fetch
BY DEF SetData, Entries

LEMMA FailedOK ==
  ASSUME NEW D, NEW q \in Entries(D)
  PROVE  Failed(q, "failed") \in Entries(D)
BY DEF Failed, Entries, Idle

LEMMA IdledOK ==
  ASSUME NEW D, NEW q \in Entries(D)
  PROVE  [q EXCEPT !.fetch = Idle] \in Entries(D)
BY DEF Entries, Idle

LEMMA InvalidateOK ==
  ASSUME NEW D, NEW q \in Entries(D), NEW shown \in BOOLEAN
  PROVE  /\ Invalidate(q, shown) \in Entries(D)
         /\ shown => Invalidate(q, shown).fetch.at = "asked"
BY DEF Invalidate, Entries, Idle

LEMMA ArrivedOK ==
  ASSUME NEW D, NEW q \in Entries(D)
  PROVE  /\ Arrived(q) \in Entries(D)
         /\ Arrived(q).fetch = Idle /\ Arrived(q).data = q.fetch.value
BY IdledOK, SetDataOK DEF Arrived, Entries

-----------------------------------------------------------------------------
(* The dialog.                                                             *)

LEMMA UnresolvedOK == Unresolved \in [Docs -> Choices \cup {None}]
BY DEF Unresolved

LEMMA WithDiffOK ==
  ASSUME NEW m \in Modals, NEW x \in Diff \cup {None}
  PROVE  /\ WithDiff(m, x) \in Modals /\ ChosenIn(WithDiff(m, x))
         /\ WithDiff(m, x).submitting = m.submitting
BY NoneAssumption DEF WithDiff, Modals, ChosenIn, Modified, Choices

LEMMA ClosedOK ==
  ASSUME NEW m \in Modals
  PROVE  Closed(m) \in Modals /\ ChosenIn(Closed(m))
BY UnresolvedOK DEF Closed, Modals, ChosenIn

\* What a page or a dialog gets when it asks for differences.
LEMMA AskDiffFacts ==
  ASSUME DiffsOK, PageOK, NEW w \in Workspaces, NEW who, NEW m \in Modals, ChosenIn(m),
         AskDiff(w, who, m)
  PROVE  /\ DiffsOK' /\ PageOK' /\ ModalInv'
         /\ modal'.submitting = m.submitting
<1>1. diffs[w] \in Entries(Diff) /\ diffs[w].data \in Diff \cup {None}
  BY DEF DiffsOK, Entries
<1>2. [m EXCEPT !.loading = TRUE] \in Modals /\ ChosenIn([m EXCEPT !.loading = TRUE])
      /\ [m EXCEPT !.loading = TRUE].submitting = m.submitting
  BY DEF Modals, ChosenIn
<1>3. WithDiff(m, diffs[w].data) \in Modals /\ ChosenIn(WithDiff(m, diffs[w].data))
      /\ WithDiff(m, diffs[w].data).submitting = m.submitting
  BY <1>1, WithDiffOK
<1>4. ModalInv' /\ modal'.submitting = m.submitting
  BY <1>2, <1>3 DEF AskDiff, ModalInv, ChosenIn
<1>5. DiffsOK'
  BY <1>1, AskOK DEF AskDiff, DiffsOK
<1>6. PageOK'
  BY DEF AskDiff, PageOK, ListWithDiff
<1> QED
  BY <1>4, <1>5, <1>6

LEMMA AfterSyncOK ==
  ASSUME NEW m \in Modals, ChosenIn(m), NEW r
  PROVE  AfterSync(r, m) \in Modals /\ ChosenIn(AfterSync(r, m))
<1>1. \A n \in Modals : ChosenIn(n) => [n EXCEPT !.submitting = FALSE] \in Modals
                                       /\ ChosenIn([n EXCEPT !.submitting = FALSE])
  BY DEF Modals, ChosenIn
<1> QED
  BY <1>1, ClosedOK DEF AfterSync

-----------------------------------------------------------------------------
(* Each step keeps the invariant.                                          *)

\* The dialog after the user has opened, closed or confirmed it.
LEMMA OpenModalFacts ==
  ASSUME DiffsOK, PageOK, ModalInv, NEW w \in Workspaces, NEW mode \in {"push", "pull"},
         OpenModal(w, mode)
  PROVE  DiffsOK' /\ PageOK' /\ ModalInv' /\ modal'.submitting = modal.submitting
<1> DEFINE m == [modal EXCEPT !.open = w, !.mode = mode, !.diff = None, !.resolutions = Unresolved]
<1>1. m \in Modals /\ ChosenIn(m) /\ m.submitting = modal.submitting
  BY UnresolvedOK DEF ModalInv, Modals, ChosenIn
<1>2. AskDiff(w, "modal", m)
  BY DEF OpenModal
<1> QED
  BY <1>1, <1>2, AskDiffFacts

LEMMA ChooseFacts ==
  ASSUME ModalInv, NEW d \in Docs, NEW choice \in Choices, Choose(d, choice)
  PROVE  ModalInv' /\ modal'.submitting = modal.submitting
<1>1. /\ modal' = [modal EXCEPT !.resolutions[d] = choice] /\ choice # None
      /\ modal.diff # None /\ d \in Modified(modal.diff)
  BY NoneAssumption DEF Choose, Listed
<1>2. modal' \in Modals /\ modal'.diff = modal.diff /\ modal'.submitting = modal.submitting
      /\ modal'.resolutions = [modal.resolutions EXCEPT ![d] = choice]
  BY <1>1 DEF ModalInv, Modals
<1>3. {e \in Docs : modal'.resolutions[e] # None} = {e \in Docs : modal.resolutions[e] # None}
  <2>1. modal.resolutions[d] # None
    BY <1>1 DEF ModalInv, ChosenIn
  <2>2. modal.resolutions \in [Docs -> Choices \cup {None}]
    BY DEF ModalInv, Modals
  <2> QED
    BY <1>1, <1>2, <2>1, <2>2
<1>4. ChosenIn(modal')
  BY <1>1, <1>2, <1>3 DEF ModalInv, ChosenIn
<1> QED
  BY <1>2, <1>4 DEF ModalInv, ChosenIn

\* A request that joins the others.
LEMMA SendFacts ==
  ASSUME RequestsInv, CountsOK,
         NEW kind \in {"push", "pull", "create", "delete"}, NEW w \in Workspaces,
         NEW scoped \in BOOLEAN, NEW resolutions \in [Docs -> Choices \cup {None}],
         NEW listed \in SUBSET Docs, Send(kind, w, scoped, resolutions, listed),
         kind = "pull" => \A d \in Docs : resolutions[d] = "production" => d \in listed
  PROVE  /\ RequestsInv' /\ sent' \in Nat /\ requests \subseteq requests'
         /\ kind \in {"create", "delete"} => Syncs' = Syncs
         /\ \E r : Syncs' \subseteq Syncs \cup {r}
<1> DEFINE r == [id |-> sent, kind |-> kind, of |-> w, scoped |-> scoped,
                 resolutions |-> resolutions, listed |-> listed, at |-> "sent"]
<1>1. requests' = requests \cup {r} /\ sent' = sent + 1
  BY DEF Send
<1>2. r \in Requests /\ r.kind = kind /\ r.resolutions = resolutions /\ r.listed = listed
  BY DEF Requests, CountsOK
<1> HIDE DEF r
<1>3. RequestsInv'
  BY <1>1, <1>2 DEF RequestsInv, PullsListed
<1>4. Syncs' \subseteq Syncs \cup {r} /\ (kind \in {"create", "delete"} => Syncs' = Syncs)
  BY <1>1, <1>2 DEF Syncs
<1> QED
  BY <1>1, <1>3, <1>4 DEF CountsOK

\* A request that has been answered, or lost.
LEMMA AnswerFacts ==
  ASSUME RequestsInv, NEW r \in requests, NEW at \in {"sent", "done", "failed"}, Answer(r, at)
  PROVE  /\ RequestsInv'
         /\ r.kind \in {"create", "delete"} => Syncs' = Syncs
         /\ r.kind \in {"push", "pull"} =>
               Syncs' = (Syncs \ {r}) \cup {[r EXCEPT !.at = at]}
<1> DEFINE q == [r EXCEPT !.at = at]
<1>1. requests' = (requests \ {r}) \cup {q}
  BY DEF Answer
<1>2. r \in Requests
  BY DEF RequestsInv
<1>3. /\ q \in Requests /\ q.kind = r.kind /\ q.resolutions = r.resolutions
      /\ q.listed = r.listed
  BY <1>2 DEF Requests
<1> HIDE DEF q
<1>4. RequestsInv'
  BY <1>1, <1>3 DEF RequestsInv, PullsListed
<1>5. r.kind \in {"create", "delete"} => Syncs' = Syncs
  BY <1>1, <1>3 DEF Syncs
<1>6. r.kind \in {"push", "pull"} => Syncs' = (Syncs \ {r}) \cup {q}
  BY <1>1, <1>3 DEF Syncs
<1> QED
  BY <1>4, <1>5, <1>6 DEF q

\* A request is carried out by the server.
LEMMA ServeFacts ==
  ASSUME ServerOK, RequestsInv, NEW r \in requests, Serve(r)
  PROVE  /\ ServerOK' /\ r.at = "sent"
         /\ \E at \in {"done", "failed"} :
               /\ Answer(r, at)
               /\ at = "failed" => workspaces' = workspaces
               /\ r.kind \in {"push", "pull"} => workspaces' = workspaces
         /\ UNCHANGED <<queries, page, modal, awaiting, sent, events>>
<1>1. r \in Requests
  BY DEF RequestsInv
<1>2. /\ r.of \in Workspaces /\ r.resolutions \in [Docs -> Choices \cup {None}]
      /\ r.kind \in {"push", "pull", "create", "delete"}
  BY <1>1 DEF Requests
<1>3. \A source \in Rows, target \in Rows : Pulled(source, target, r.resolutions) \in Rows
  BY DEF Pulled, Rows
<1>4. [d \in Docs |-> None] \in Rows
  BY DEF Rows
<1>5. ServerOK'
  BY <1>2, <1>3, <1>4 DEF Serve, ServerOK, server
<1> QED
  BY <1>2, <1>5 DEF Serve, server

\* No second push or pull before the first is answered.
SyncInv == SyncsDoNotOverlap /\ SyncsSubmitting

LEMMA OverlapSplit == SyncsDoNotOverlap <=> \A r, q \in Syncs : r = q
BY DEF SyncsDoNotOverlap, Syncs

LEMMA OverlapSplitPrimed == SyncsDoNotOverlap' <=> \A r, q \in Syncs' : r = q
BY DEF SyncsDoNotOverlap, Syncs

LEMMA SameSyncs ==
  ASSUME SyncInv, Syncs' \subseteq Syncs, modal'.submitting = modal.submitting
  PROVE  SyncInv'
BY OverlapSplit, OverlapSplitPrimed DEF SyncInv, SyncsSubmitting

LEMMA NoSyncs ==
  ASSUME Syncs' = {}
  PROVE  SyncInv'
BY OverlapSplitPrimed DEF SyncInv, SyncsSubmitting

LEMMA ConfirmFacts ==
  ASSUME ModalInv, RequestsInv, CountsOK, SyncInv, PageOK, Confirm
  PROVE  ModalInv' /\ RequestsInv' /\ sent' \in Nat /\ SyncInv' /\ requests \subseteq requests'
<1>1. /\ modal.open \in Workspaces /\ modal.submitting = FALSE
      /\ modal' = [modal EXCEPT !.submitting = TRUE]
  BY DEF Confirm, MayConfirm, ModalInv, Modals
<1>2. ModalInv' /\ modal'.submitting = TRUE
  BY <1>1 DEF ModalInv, Modals, ChosenIn
<1>3. OnList \in BOOLEAN
  BY DEF OnList
<1>4. PICK kind \in {"push", "pull"}, resolutions \in [Docs -> Choices \cup {None}],
           listed \in SUBSET Docs :
         /\ Send(kind, modal.open, OnList, resolutions, listed)
         /\ kind = "pull" => \A d \in Docs : resolutions[d] = "production" => d \in listed
  <2>1. CASE modal.mode = "push" /\ Send("push", modal.open, OnList, Unresolved, {})
    BY <2>1, UnresolvedOK
  <2>2. CASE modal.mode = "pull" /\
             Send("pull", modal.open, OnList, modal.resolutions,
                  {d \in Modified(modal.diff) : modal.resolutions[d] = "production"})
    <3> DEFINE listed == {d \in Modified(modal.diff) : modal.resolutions[d] = "production"}
    <3>1. listed \in SUBSET Docs /\ modal.resolutions \in [Docs -> Choices \cup {None}]
      BY DEF Modified, ModalInv, Modals
    <3>2. \A d \in Docs : modal.resolutions[d] = "production" => d \in Modified(modal.diff)
      <4>1. "production" # None
        BY NoneAssumption DEF Choices
      <4> QED
        BY <4>1 DEF ModalInv, ChosenIn, Unresolved
    <3>3. \A d \in Docs : modal.resolutions[d] = "production" => d \in listed
      BY <3>2
    <3> QED
      BY <2>2, <3>1, <3>3
  <2> QED
    BY <2>1, <2>2 DEF Confirm
<1>5. /\ RequestsInv' /\ sent' \in Nat /\ requests \subseteq requests'
      /\ \E r : Syncs' \subseteq Syncs \cup {r}
  BY <1>1, <1>3, <1>4, SendFacts
<1>6. Syncs = {}
  BY <1>1 DEF SyncInv, SyncsSubmitting
<1>7. SyncInv'
  BY <1>2, <1>5, <1>6, OverlapSplitPrimed DEF SyncInv, SyncsSubmitting
<1> QED
  BY <1>2, <1>5, <1>7

\* The steps of the user.
LEMMA UserStepFacts ==
  ASSUME IInv, UserStep
  PROVE  IInv'
<1> USE DEF IInv
<1>1. UNCHANGED <<server, names, events>> /\ ServerOK' /\ NamesOK'
  BY DEF UserStep, CloseModal, Confirm, CreateWorkspace, ArchiveWorkspace, OpenModal, Choose,
         queries, server, ServerOK, NamesOK
<1>2. requests \subseteq requests' => NamesFollow'
  BY <1>1 DEF NamesFollow, server
<1>3. SyncsDoNotOverlap /\ SyncsSubmitting <=> SyncInv
  BY DEF SyncInv
<1>4. SyncInv' => SyncsDoNotOverlap' /\ SyncsSubmitting'
  BY DEF SyncInv
<1>5. requests' = requests => RequestsInv' /\ Syncs' = Syncs
  BY DEF RequestsInv, PullsListed, Syncs
<1>6. sent' = sent => CountsOK'
  BY <1>1 DEF CountsOK
<1>7. sent' \in Nat => CountsOK'
  BY <1>1 DEF CountsOK
<1>8. UNCHANGED <<diffs, page>> => DiffsOK' /\ PageOK'
  BY DEF DiffsOK, PageOK
<1>9. CASE CloseModal
  <2>1. modal' \in Modals /\ ChosenIn(modal') /\ modal'.submitting = modal.submitting
    <3>1. modal' = Closed(modal) /\ modal \in Modals
      BY <1>9 DEF CloseModal, ModalInv
    <3>2. modal'.submitting = modal.submitting
      BY <3>1 DEF Closed, Modals
    <3> QED
      BY <3>1, <3>2, ClosedOK
  <2>2. ModalInv'
    BY <2>1 DEF ModalInv, ChosenIn
  <2>3. UNCHANGED <<diffs, page, requests, sent>>
    BY <1>9 DEF CloseModal, queries
  <2> QED
    BY <1>1, <1>2, <1>3, <1>4, <1>5, <1>6, <1>8, <2>1, <2>2, <2>3, SameSyncs
<1>10. CASE Confirm
  <2>1. UNCHANGED <<diffs, page>>
    BY <1>10 DEF Confirm, queries
  <2> QED
    BY <1>1, <1>2, <1>3, <1>4, <1>7, <1>8, <1>10, <2>1, ConfirmFacts
<1>11. ASSUME NEW w \in Workspaces, CreateWorkspace(w) \/ ArchiveWorkspace(w)
       PROVE  IInv'
  <2>1. PICK kind \in {"create", "delete"} : Send(kind, w, FALSE, Unresolved, {})
    BY <1>11 DEF CreateWorkspace, ArchiveWorkspace
  <2>2. RequestsInv' /\ sent' \in Nat /\ requests \subseteq requests' /\ Syncs' = Syncs
    <3>1. /\ {} \in SUBSET Docs /\ FALSE \in BOOLEAN /\ kind # "pull"
          /\ kind \in {"push", "pull", "create", "delete"}
      BY <2>1
    <3> QED
      BY <2>1, <3>1, UnresolvedOK, SendFacts
  <2>3. UNCHANGED <<diffs, page, modal>>
    BY <1>11 DEF CreateWorkspace, ArchiveWorkspace, queries
  <2>4. ModalInv'
    BY <2>3 DEF ModalInv, ChosenIn
  <2> QED
    BY <1>1, <1>2, <1>3, <1>4, <1>7, <1>8, <2>2, <2>3, <2>4, SameSyncs
<1>12. ASSUME NEW w \in Workspaces, NEW mode \in {"push", "pull"}, OpenModal(w, mode)
       PROVE  IInv'
  <2>1. UNCHANGED <<requests, sent>>
    BY <1>12 DEF OpenModal
  <2>2. DiffsOK' /\ PageOK' /\ ModalInv' /\ modal'.submitting = modal.submitting
    BY <1>12, OpenModalFacts
  <2> QED
    BY <1>1, <1>2, <1>3, <1>4, <1>5, <1>6, <2>1, <2>2, SameSyncs
<1>13. ASSUME NEW d \in Docs, NEW choice \in Choices, Choose(d, choice)
       PROVE  IInv'
  <2>1. UNCHANGED <<diffs, page, requests, sent>>
    BY <1>13 DEF Choose, queries
  <2>2. ModalInv' /\ modal'.submitting = modal.submitting
    BY <1>13, ChooseFacts
  <2> QED
    BY <1>1, <1>2, <1>3, <1>4, <1>5, <1>6, <1>8, <2>1, <2>2, SameSyncs
<1> QED
  BY <1>9, <1>10, <1>11, <1>12, <1>13 DEF UserStep

\* The server carries out a request, or a request or its answer is lost: in
\* between, the dialog waits for it.
LEMMA AnsweredFacts ==
  ASSUME IInv, NEW r \in requests, NEW at \in {"done", "failed"}, Answer(r, at),
         UNCHANGED <<queries, page, modal, sent>>
  PROVE  /\ DiffsOK' /\ PageOK' /\ NamesOK' /\ ModalInv' /\ RequestsInv'
         /\ SyncsDoNotOverlap' /\ SyncsSubmitting'
<1> USE DEF IInv
<1>1. DiffsOK' /\ PageOK' /\ NamesOK' /\ ModalInv'
  BY DEF queries, DiffsOK, PageOK, NamesOK, ModalInv, ChosenIn
<1>2. /\ RequestsInv'
      /\ r.kind \in {"create", "delete"} => Syncs' = Syncs
      /\ r.kind \in {"push", "pull"} => Syncs' = (Syncs \ {r}) \cup {[r EXCEPT !.at = at]}
  BY AnswerFacts
<1>3. r.kind \in {"push", "pull", "create", "delete"}
  BY DEF RequestsInv, Requests
<1>4. r.kind \in {"push", "pull"} => r \in Syncs
  BY DEF Syncs
<1>5. CASE r.kind \in {"push", "pull"}
  <2>1. Syncs = {r} /\ modal.submitting
    BY <1>4, <1>5, OverlapSplit DEF SyncsSubmitting
  <2>2. Syncs' = {[r EXCEPT !.at = at]}
    BY <1>2, <1>5, <2>1
  <2> QED
    BY <1>1, <1>2, <2>1, <2>2, OverlapSplitPrimed DEF SyncsSubmitting
<1>6. CASE r.kind \in {"create", "delete"}
  BY <1>1, <1>2, <1>6, OverlapSplit, OverlapSplitPrimed DEF SyncsSubmitting
<1> QED
  BY <1>3, <1>5, <1>6

LEMMA ServeKeeps ==
  ASSUME IInv, NEW r \in requests, Serve(r)
  PROVE  IInv'
<1>1. PICK at \in {"done", "failed"} :
         /\ Answer(r, at)
         /\ at = "failed" => workspaces' = workspaces
         /\ r.kind \in {"push", "pull"} => workspaces' = workspaces
  BY ServeFacts DEF IInv
<1>2. ServerOK' /\ r.at = "sent" /\ UNCHANGED <<queries, page, modal, awaiting, sent, events>>
  BY ServeFacts DEF IInv
<1>3. /\ DiffsOK' /\ PageOK' /\ NamesOK' /\ ModalInv' /\ RequestsInv'
      /\ SyncsDoNotOverlap' /\ SyncsSubmitting'
  BY <1>1, <1>2, AnsweredFacts
<1>4. CountsOK'
  BY <1>2 DEF IInv, CountsOK
<1>5. NamesFollow'
  <2>1. r \in Requests
    BY DEF IInv, RequestsInv
  <2>2. [r EXCEPT !.at = at] \in requests' /\ [r EXCEPT !.at = at].at = at
        /\ [r EXCEPT !.at = at].kind = r.kind
    BY <1>1, <2>1 DEF Answer, Requests
  <2>3. \A q \in requests : q.at = "done" => q \in requests'
    BY <1>1, <1>2 DEF Answer
  <2>4. CASE at = "done" /\ r.kind \in {"create", "delete"}
    BY <2>2, <2>4 DEF NamesFollow
  <2>5. CASE workspaces' = workspaces
    BY <1>2, <2>3, <2>5 DEF IInv, NamesFollow, queries
  <2>6. r.kind \in {"push", "pull", "create", "delete"}
    BY <2>1 DEF Requests
  <2> QED
    BY <1>1, <2>4, <2>5, <2>6
<1> QED
  BY <1>2, <1>3, <1>4, <1>5 DEF IInv

LEMMA LoseRequestKeeps ==
  ASSUME IInv, NEW r \in requests, LoseRequest(r)
  PROVE  IInv'
<1>1. /\ DiffsOK' /\ PageOK' /\ NamesOK' /\ ModalInv' /\ RequestsInv'
      /\ SyncsDoNotOverlap' /\ SyncsSubmitting'
  BY AnsweredFacts DEF LoseRequest
<1>2. ServerOK' /\ CountsOK' /\ NamesFollow'
  BY DEF IInv, LoseRequest, server, ServerOK, CountsOK, NamesFollow
<1> QED
  BY <1>1, <1>2 DEF IInv

\* The answer of a request reaches the page.
LEMMA ReceiveKeeps ==
  ASSUME IInv, NEW r \in requests, Receive(r)
  PROVE  IInv'
<1> USE DEF IInv
<1>1. /\ r \in Requests /\ r.of \in Workspaces /\ r.at \in {"done", "failed"}
      /\ r.kind \in {"push", "pull", "create", "delete"}
      /\ requests' = requests \ {r} /\ UNCHANGED <<server, sent, events>>
  BY DEF RequestsInv, Requests, Receive
<1>2. ServerOK' /\ CountsOK' /\ RequestsInv'
  BY <1>1 DEF server, ServerOK, CountsOK, RequestsInv, PullsListed
<1>3. CASE r.kind \in {"create", "delete"}
  <2>1. ReceiveWorkspaceChange(r)
    BY <1>3 DEF Receive
  <2>2. DiffsOK' /\ PageOK' /\ ModalInv' /\ modal' = modal
    BY <2>1 DEF ReceiveWorkspaceChange, DiffsOK, PageOK, ModalInv, ChosenIn
  <2>3. Syncs' \subseteq Syncs
    BY <1>1 DEF Syncs
  <2>4. SyncInv'
    BY <2>2, <2>3, SameSyncs DEF SyncInv
  <2>5. CASE r.at = "done"
    <3>1. names' \in Entries(SUBSET Workspaces) /\ names'.fetch.at = "asked"
      BY <2>1, <2>5, InvalidateOK DEF ReceiveWorkspaceChange, NamesAfterChange, NamesOK
    <3> QED
      BY <1>2, <2>2, <2>4, <3>1 DEF NamesOK, NamesFollow, SyncInv
  <2>6. CASE r.at = "failed"
    <3>1. names' = names
      BY <2>1, <2>6 DEF ReceiveWorkspaceChange
    <3>2. \A q \in requests : q.at = "done" => q \in requests'
      BY <1>1, <2>6
    <3>3. NamesFollow'
      BY <1>1, <3>1, <3>2 DEF NamesFollow, server
    <3> QED
      BY <1>2, <2>2, <2>4, <3>1, <3>3 DEF NamesOK, SyncInv
  <2> QED
    BY <1>1, <2>5, <2>6
<1>4. CASE r.kind \in {"push", "pull"}
  <2>1. names' = names
    BY <1>4 DEF Receive, ReceiveWorkspaceSync, ReceiveCollectionSync
  <2>2. NamesOK'
    BY <2>1 DEF NamesOK
  <2>3. \A q \in requests : q.kind \in {"create", "delete"} => q \in requests'
    BY <1>1, <1>4
  <2>4. NamesFollow'
    BY <1>1, <2>1, <2>3 DEF NamesFollow, server
  <2>5. Syncs' = {}
    <3>1. r \in Syncs
      BY <1>4 DEF Syncs
    <3>2. Syncs = {r}
      BY <3>1, OverlapSplit
    <3> QED
      BY <1>1, <3>2 DEF Syncs
  <2>6. SyncInv'
    BY <2>5, NoSyncs
  <2>7. AfterSync(r, modal) \in Modals /\ ChosenIn(AfterSync(r, modal))
    BY AfterSyncOK DEF ModalInv
  <2>8. DiffsOK' /\ PageOK' /\ ModalInv'
    <3>1. CASE ReceiveWorkspaceSync(r)
      <4>1. ModalInv' /\ PageOK'
        BY <2>7, <3>1 DEF ReceiveWorkspaceSync, ModalInv, ChosenIn, PageOK
      <4>2. DiffsOK'
        <5>1. diffs[r.of] \in Entries(Diff)
          BY <1>1 DEF DiffsOK
        <5>2. Invalidate(diffs[r.of], FALSE) \in Entries(Diff)
          BY <5>1, InvalidateOK
        <5> QED
          BY <3>1, <5>2 DEF ReceiveWorkspaceSync, DiffsOK
      <4> QED
        BY <4>1, <4>2
    <3>2. CASE ReceiveCollectionSync(r)
      <4>1. CASE AskDiff(r.of, "list", AfterSync(r, modal))
        <5>1. DiffsOK' /\ PageOK'
          BY <1>1, <2>7, <4>1, AskDiffFacts
        <5>2. ModalInv'
          BY <1>1, <2>7, <4>1, AskDiffFacts
        <5> QED
          BY <5>1, <5>2
      <4>2. CASE modal' = AfterSync(r, modal) /\ UNCHANGED <<diffs, awaiting, page>>
        BY <2>7, <4>2 DEF ModalInv, ChosenIn, PageOK, DiffsOK
      <4> QED
        BY <3>2, <4>1, <4>2 DEF ReceiveCollectionSync
    <3> QED
      BY <1>4, <3>1, <3>2 DEF Receive
  <2> QED
    BY <1>2, <2>2, <2>4, <2>6, <2>8 DEF SyncInv
<1> QED
  BY <1>1, <1>3, <1>4

\* The list of workspaces is read.
LEMMA NamesKeep ==
  ASSUME IInv, ServeNames \/ ReceiveNames
  PROVE  IInv'
<1> USE DEF IInv
<1>1. UNCHANGED <<server, diffs, page, modal, awaiting, requests, sent, events>>
  BY DEF ServeNames, ReceiveNames
<1>2. /\ ServerOK' /\ DiffsOK' /\ PageOK' /\ CountsOK' /\ ModalInv' /\ RequestsInv'
      /\ SyncsDoNotOverlap' /\ SyncsSubmitting'
  BY <1>1 DEF server, ServerOK, DiffsOK, PageOK, CountsOK, ModalInv, ChosenIn, RequestsInv,
         PullsListed, SyncsDoNotOverlap, SyncsSubmitting, Syncs
<1>3. CASE ServeNames
  <2>1. names' = [names EXCEPT !.fetch = Answered(workspaces)]
    BY <1>3 DEF ServeNames
  <2>2. NamesOK' /\ names'.fetch = Answered(workspaces)
    BY <2>1 DEF NamesOK, Entries, Answered, ServerOK
  <2>3. NamesFollow'
    BY <1>1, <2>2 DEF NamesFollow, Answered, server
  <2> QED
    BY <1>2, <2>2, <2>3
<1>4. CASE ReceiveNames
  <2>1. names' = Arrived(names) /\ names.fetch.at = "answered"
    BY <1>4 DEF ReceiveNames, HasAnswer
  <2>2. NamesOK' /\ names'.fetch = Idle /\ names'.data = names.fetch.value
    BY <2>1, ArrivedOK DEF NamesOK
  <2>3. names.fetch # Idle
    BY <2>1 DEF Idle
  <2>4. NamesFollow'
    BY <1>1, <2>1, <2>2, <2>3 DEF NamesFollow, server
  <2> QED
    BY <1>2, <2>2, <2>4
<1> QED
  BY <1>3, <1>4

\* Differences are read, or lost, or grow old; authors go on editing.
LEMMA DiffsKeep ==
  ASSUME IInv, NEW w \in Workspaces, ReceiveDiff(w) \/ LoseDiff(w) \/ Age(w)
  PROVE  IInv'
<1> USE DEF IInv
<1>1. /\ UNCHANGED <<server, names, requests, sent>> /\ events' \in Nat
      /\ events' = 0 => events = 0
  BY DEF ReceiveDiff, LoseDiff, Age, CountsOK
<1>2. /\ ServerOK' /\ NamesOK' /\ CountsOK' /\ RequestsInv' /\ NamesFollow'
      /\ SyncsDoNotOverlap' /\ Syncs' = Syncs
  BY <1>1 DEF server, ServerOK, NamesOK, CountsOK, RequestsInv, PullsListed, NamesFollow,
         SyncsDoNotOverlap, Syncs
<1>3. diffs[w] \in Entries(Diff) /\ modal \in Modals /\ ChosenIn(modal)
  BY DEF DiffsOK, ModalInv
<1>4. CASE ReceiveDiff(w)
  <2> DEFINE x == DiffOf(rows[w], prod)
             q == SetData([diffs[w] EXCEPT !.fetch = Idle], x)
  <2>1. x \in Diff
    BY DEF DiffOf, Diff, Buckets
  <2> HIDE DEF x
  <2>2. q \in Entries(Diff) /\ q.data = x
    <3>1. [diffs[w] EXCEPT !.fetch = Idle] \in Entries(Diff)
      BY <1>3, IdledOK
    <3>2. x \in Diff \cup {None}
      BY <2>1
    <3> QED
      BY <3>1, <3>2, SetDataOK
  <2>3. diffs' = [diffs EXCEPT ![w] = q] /\ diffs'[w] = q
    BY <1>4 DEF ReceiveDiff, x, DiffsOK
  <2> HIDE DEF q
  <2>4. DiffsOK'
    BY <2>2, <2>3 DEF DiffsOK
  <2>5. PageOK'
    BY <1>4 DEF ReceiveDiff, PageOK, ListWithDiff
  <2>6. WithDiff(modal, x) \in Modals /\ ChosenIn(WithDiff(modal, x))
        /\ WithDiff(modal, x).submitting = modal.submitting
    BY <1>3, <2>1, WithDiffOK
  <2>7. modal' = IF Waits("modal", w) THEN WithDiff(modal, x) ELSE modal
    BY <1>4, <2>2, <2>3 DEF ReceiveDiff
  <2>8. ModalInv' /\ modal'.submitting = modal.submitting
    BY <1>3, <2>6, <2>7 DEF ModalInv, ChosenIn
  <2> QED
    BY <1>2, <2>4, <2>5, <2>8 DEF SyncsSubmitting
<1>5. CASE LoseDiff(w)
  <2>1. DiffsOK'
    BY <1>3, <1>5, FailedOK DEF LoseDiff, DiffsOK
  <2>2. PageOK'
    BY <1>5 DEF LoseDiff, PageOK, ListWithDiff
  <2>3. NotLoading(modal) \in Modals /\ ChosenIn(NotLoading(modal))
        /\ NotLoading(modal).submitting = modal.submitting
    BY <1>3 DEF NotLoading, Modals, ChosenIn
  <2>4. ModalInv' /\ modal'.submitting = modal.submitting
    BY <1>3, <1>5, <2>3 DEF LoseDiff, ModalInv, ChosenIn
  <2> QED
    BY <1>2, <2>1, <2>2, <2>4 DEF SyncsSubmitting
<1>6. CASE Age(w)
  <2>1. [diffs[w] EXCEPT !.stale = TRUE] \in Entries(Diff)
    BY <1>3 DEF Entries
  <2>2. DiffsOK' /\ PageOK' /\ ModalInv' /\ modal' = modal
    BY <1>6, <2>1 DEF Age, DiffsOK, PageOK, ModalInv, ChosenIn
  <2> QED
    BY <1>2, <2>2 DEF SyncsSubmitting
<1> QED
  BY <1>4, <1>5, <1>6

LEMMA OthersEditKeeps ==
  ASSUME IInv, NEW w \in Workspaces, NEW d \in Docs, NEW v \in Values \cup {None},
         OthersEdit(w, d, v)
  PROVE  IInv'
<1> USE DEF IInv
<1>1. /\ UNCHANGED <<workspaces, prod, queries, page, modal, awaiting, requests, sent>>
      /\ rows' = [rows EXCEPT ![w][d] = v] /\ events' = events + 1
  BY DEF OthersEdit
<1>2. ServerOK' /\ NamesFollow' /\ CountsOK'
  BY <1>1 DEF ServerOK, Rows, NamesFollow, CountsOK
<1>3. /\ NamesOK' /\ DiffsOK' /\ PageOK' /\ ModalInv' /\ RequestsInv'
      /\ SyncsDoNotOverlap' /\ SyncsSubmitting'
  BY <1>1 DEF queries, NamesOK, DiffsOK, PageOK, ModalInv, ChosenIn, RequestsInv, PullsListed,
         SyncsDoNotOverlap, SyncsSubmitting, Syncs
<1> QED
  BY <1>2, <1>3

LEMMA InitIInv == Init => IInv
<1> SUFFICES ASSUME Init PROVE IInv
  OBVIOUS
<1>1. Default \in Values /\ Existing \subseteq Workspaces
  BY SyncAssumption
<1>2. ServerOK
  BY <1>1 DEF Init, ServerOK, Rows
<1>3. NamesOK /\ names.fetch.at = "asked"
  <2>1. Ask(EmptyEntry).fetch.at = "asked"
    BY DEF Ask, EmptyEntry, Wanted, Idle
  <2> QED
    BY <2>1, EmptyEntryOK, AskOK DEF Init, NamesOK
<1>4. DiffsOK
  BY EmptyEntryOK, AskOK DEF Init, DiffsOK
<1>5. PageOK
  BY <1>1 DEF Init, PageOK
<1>6. ModalInv
  BY UnresolvedOK DEF Init, ModalInv, Modals, ClosedModal, ChosenIn
<1>7. RequestsInv /\ CountsOK /\ Syncs = {} /\ SyncsDoNotOverlap /\ SyncsSubmitting
  BY DEF Init, RequestsInv, PullsListed, CountsOK, Syncs, SyncsDoNotOverlap, SyncsSubmitting
<1> QED
  BY <1>2, <1>3, <1>4, <1>5, <1>6, <1>7 DEF IInv, NamesFollow

LEMMA NextIInv == IInv /\ [Next]_vars => IInv'
<1> SUFFICES ASSUME IInv, [Next]_vars PROVE IInv'
  OBVIOUS
<1>1. CASE UNCHANGED vars
  BY <1>1 DEF IInv, vars, server, queries, ServerOK, NamesOK, DiffsOK, PageOK, CountsOK,
         ModalInv, ChosenIn, RequestsInv, PullsListed, SyncsSubmitting, Syncs,
         SyncsDoNotOverlap, NamesFollow
<1>2. CASE Answers
  BY <1>2, NamesKeep, DiffsKeep, ServeKeeps, ReceiveKeeps DEF Answers
<1> QED
  BY <1>1, <1>2, UserStepFacts, OthersEditKeeps, DiffsKeep, LoseRequestKeeps DEF Next

LEMMA Invariant == Spec => []IInv
BY InitIInv, NextIInv, PTL DEF Spec

-----------------------------------------------------------------------------
(* The theorems.                                                           *)

\* The tables, the cached queries, the page and the dialog are well-formed, and
\* every conflict a dialog lists has a choice, and nothing else has one,
\* whichever answer fills the dialog.
THEOREM TypeCorrect == Spec => []TypeOK
<1>1. IInv => TypeOK
  <2> SUFFICES ASSUME IInv PROVE TypeOK
    OBVIOUS
  <2>1. page.at \in Workspaces \cup {ProjectPage} /\ modal.open \in Workspaces \cup {None}
    BY DEF IInv, PageOK, ModalInv, Modals
  <2>2. Listed => {d \in Docs : modal.resolutions[d] # None} = Modified(modal.diff)
    BY DEF IInv, ModalInv, ChosenIn, Listed
  <2> QED
    BY <2>1, <2>2 DEF IInv, TypeOK, ServerOK, NamesOK, DiffsOK
<1> QED
  BY <1>1, Invariant, PTL

\* However often a dialog is closed and opened while a push or a pull is on
\* its way, and whichever page it belongs to, it sends no second one before
\* the first is answered.
THEOREM NoSyncsOverlap == Spec => []SyncsDoNotOverlap
<1>1. IInv => SyncsDoNotOverlap
  BY DEF IInv
<1> QED
  BY <1>1, Invariant, PTL

\* Once nothing is under way, and nothing has been lost, the list of
\* workspaces is the server's: a read that overtakes the creation or the
\* archiving of a workspace is followed by another.
THEOREM NamesAreTheServers == Spec => []NamesTellTheServer
<1>1. IInv => NamesTellTheServer
  BY DEF IInv, NamesFollow, NamesTellTheServer, Idle
<1> QED
  BY <1>1, Invariant, PTL

\* A pull overwrites no document but those its dialog listed as conflicts to be
\* taken from production, however old the differences were and however much
\* the workspace and production have changed since.
THEOREM PullsOverwriteTheListed == Spec => PullsOverwriteOnlyWhatWasListed
<1> DEFINE Overwrites ==
      \A r \in requests : (r.kind = "pull" /\ r.at = "sent" /\ r \notin requests') =>
          \A d \in Docs :
              (rows[r.of][d] # None /\ rows'[r.of][d] # rows[r.of][d]) => d \in r.listed
<1>1. ASSUME IInv, Next
      PROVE  Overwrites
  <2> SUFFICES ASSUME NEW r \in requests, r.kind = "pull", r.at = "sent", r \notin requests',
                      NEW d \in Docs, rows[r.of][d] # None, rows'[r.of][d] # rows[r.of][d]
               PROVE  d \in r.listed
    OBVIOUS
  <2>1. Serve(r)
    <3>1. ASSUME NEW q \in requests, Serve(q) \/ Receive(q) \/ LoseRequest(q)
          PROVE  q = r
      BY <3>1 DEF Serve, Receive, LoseRequest, Answer
    <3>2. \E q \in requests : Serve(q) \/ Receive(q) \/ LoseRequest(q)
      BY <1>1 DEF Next, UserStep, Answers, CloseModal, Confirm, CreateWorkspace,
             ArchiveWorkspace, OpenModal, Choose, Send, ServeNames, ReceiveNames, ReceiveDiff,
             OthersEdit, LoseDiff, Age
    <3>3. ~Receive(r)
      BY DEF Receive
    <3>4. ~LoseRequest(r)
      BY DEF LoseRequest, server
    <3> QED
      BY <3>1, <3>2, <3>3, <3>4
  <2>2. r.of \in Workspaces
    BY <1>1 DEF IInv, RequestsInv, Requests
  <2>3. rows' = [rows EXCEPT ![r.of] = Pulled(@, prod, r.resolutions)]
    BY <2>1 DEF Serve, server
  <2>4. rows'[r.of][d] = Pulled(rows[r.of], prod, r.resolutions)[d]
    BY <1>1, <2>2, <2>3 DEF IInv, ServerOK
  <2>5. r.resolutions[d] = "production"
    BY <2>4 DEF Pulled, DiffOf
  <2> QED
    BY <1>1, <2>5 DEF IInv, RequestsInv, PullsListed
<1>2. IInv /\ [Next]_vars => [Overwrites]_vars
  BY <1>1
<1>3. Spec => [][Overwrites]_vars
  BY <1>2, Invariant, PTL DEF Spec
<1> QED
  BY <1>3 DEF PullsOverwriteOnlyWhatWasListed
=============================================================================
