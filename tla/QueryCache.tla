---------------------------- MODULE QueryCache ----------------------------
(***************************************************************************)
(* One entry of the browser's query cache (TanStack Query, configured in   *)
(* main.tsx), as the pages use it.  A fetch in flight is shared by all who *)
(* ask for it, and data written meanwhile by a mutation does not stop it:  *)
(* its answer replaces that data when it comes.                            *)
(***************************************************************************)

CONSTANT None   \* no data, no value, no row

Idle == [at |-> "idle", value |-> None]
Answered(v) == [at |-> "answered", value |-> v]

\* data, whether staleTime has passed or it was invalidated, the last fetch's
\* error, and the fetch in flight.
EmptyEntry == [data |-> None, stale |-> TRUE, error |-> "no", fetch |-> Idle]

\* A query fetches when it is mounted, focused or asked for without fresh data.
Wanted(q) == q.data = None \/ q.stale
Ask(q) ==
    IF ~Wanted(q) \/ q.fetch # Idle THEN q
    ELSE [q EXCEPT !.fetch.at = "asked", !.error = IF q.data = None THEN "no" ELSE @]
Asked(q) == q.fetch.at = "asked"
HasAnswer(q) == q.fetch.at = "answered"

\* setQueryData.
SetData(q, v) == [q EXCEPT !.data = v, !.stale = FALSE, !.error = "no"]
Arrived(q) == SetData([q EXCEPT !.fetch = Idle], q.fetch.value)
Failed(q, error) == [q EXCEPT !.fetch = Idle, !.error = error]

\* invalidateQueries: the data is stale, and a query on screen is read again;
\* a read already in flight is given up.
Invalidate(q, shown) ==
    IF shown THEN [q EXCEPT !.stale = TRUE, !.fetch = [Idle EXCEPT !.at = "asked"]]
    ELSE [q EXCEPT !.stale = TRUE]

Entries(Data) ==
    [data : Data \cup {None}, stale : BOOLEAN, error : {"no", "gone", "failed"},
     fetch : [at : {"idle", "asked", "answered"}, value : Data \cup {None}]]
===========================================================================
