------------------------- MODULE SequentialHandlers -------------------------
(***************************************************************************)
(* DocHandlers implements DocStore as long as requests have not overlapped *)
(* and nothing has crashed: a handler then takes effect at its last commit.*)
(***************************************************************************)
EXTENDS DocHandlers

VARIABLES
    before,    \* history: the tables when the last handler had ended
    alone      \* history: so far each request began after the end of the
               \* last one, and the process has not stopped in the middle

Tables == [rows |-> rows, meta |-> meta, versions |-> versions,
           workspaces |-> workspaces, collections |-> collections]

Rest == \A p \in Threads : Idle(p)

\* A step of a request that is alone.
LoneNext == Next /\ before' = IF Rest' THEN Tables' ELSE before

HistoryInit == Init /\ before = Tables /\ alone = TRUE
HistoryNext ==
    /\ Next
    /\ alone' = (alone /\ (Rest \/ \E p \in Threads : Exec(p)))
    /\ before' = IF alone' /\ ~Rest' THEN before ELSE Tables'
HistorySpec == HistoryInit /\ [][HistoryNext]_<<vars, before, alone>>

Store == INSTANCE DocStore WITH
    rows <- before.rows, meta <- before.meta, versions <- before.versions,
    workspaces <- before.workspaces, collections <- before.collections,
    MaxSequence <- Cardinality(Docs), ResentCreates <- FALSE

\* What a client sees between two requests is what DocStore allows, up to the
\* first overlap or crash: the commits of a handler add up to the one step
\* DocStore has for it.
ImplementsDocStore == Store!Init /\ [][alone' => Store!Next]_(Store!vars)
=============================================================================
