---------------------------- MODULE SchemaEditor ----------------------------
(***************************************************************************)
(* The schema pages of the dashboard (Schema, SchemaComponent, useSchema,  *)
(* schema.ts) against the handlers of routers/schema.py.  The page keeps   *)
(* each schema's fields and the list of schema names in the query cache    *)
(* and patches both itself from the answers to its own requests; a save    *)
(* sends one request per field, all at once, and the server's threads run  *)
(* them side by side: each handler first checks the project's cached       *)
(* fields and then writes its row.                                         *)
(*                                                                         *)
(* Of a field's attributes the model keeps _schema_name, _index and        *)
(* _display_name, the one value that other fields restrict.                *)
(***************************************************************************)
EXTENDS QueryCache, Integers, Sequences, FiniteSets, SequencesExt, FiniteSetsExt

CONSTANTS
    Schemas,
    Existing, StartFields,   \* the schema there is at first, with so many fields
    SchemaList,   \* the route that shows no schema
    Imports,      \* the field lists of the files a user may import
    MaxEdits, MaxRequests, MaxEvents, MaxTotal   \* bounds, of each and of all that happens

ASSUME SchemaAssumption ==
    /\ Existing \in Schemas /\ StartFields \in Nat \ {0}
    /\ Imports \subseteq Seq(BOOLEAN)
    /\ {MaxEdits, MaxRequests, MaxEvents, MaxTotal} \subseteq Nat

VARIABLES
    fields, made,     \* the server's fields, and the ids it has given out
    names, lists,     \* the query cache: the schema names, and each one's fields
    page, form,       \* the route, and the state of its SchemaComponent
    requests, sent, edits, events,   \* mutations in flight, and counters
    mishaps           \* history: what happened that the page does not expect

server == <<fields, made>>
queries == <<names, lists>>
vars == <<server, queries, page, form, requests, sent, edits, events, mishaps>>

\* Ids as the server draws them, one per create.
Ids == 1..(StartFields + MaxRequests)
ASSUME NoneAssumption ==
    /\ None \notin Ids /\ None \notin BOOLEAN
    /\ None \notin [schema : Schemas, index : Int, display : BOOLEAN]
    /\ None \notin Seq([id : Ids, index : Int, display : BOOLEAN])
Row == [schema : Schemas, index : Nat \ {0}, display : BOOLEAN]
\* A field as its schema's list has it.
Entry == [id : Ids, index : Nat \ {0}, display : BOOLEAN]
EntryOf(id, row) == [id |-> id, index |-> row.index, display |-> row.display]

---------------------------------------------------------------------------
(* Lists: filter and a stable sort, by the ranks of what is kept.          *)

\* The elements of S in the order R, a set of pairs.
InOrder(S, R) ==
    [k \in 1..Cardinality(S) |-> CHOOSE x \in S : Cardinality({y \in S : <<y, x>> \in R}) = k - 1]

\* The entries of a list at the places P, as they stand or sorted by index.
Kept(list, P) ==
    LET places == InOrder(P, {p \in P \X P : p[1] < p[2]})
    IN  [k \in DOMAIN places |-> list[places[k]]]
Before(i, a, j, b) == a < b \/ (a = b /\ i < j)
Sorted(list) ==
    LET D == DOMAIN list
        places == InOrder(D, {p \in D \X D : Before(p[1], list[p[1]].index, p[2], list[p[2]].index)})
    IN  [k \in D |-> list[places[k]]]

---------------------------------------------------------------------------
(* The server's fields.                                                    *)

Stored(fs) == {id \in Ids : fs[id] # None}
FieldsOf(fs, s) == {id \in Stored(fs) : fs[id].schema = s}
SchemaNames(fs) == {s \in Schemas : FieldsOf(fs, s) # {}}

NextIndex(fs, s) == Max({fs[id].index : id \in FieldsOf(fs, s)} \cup {0}) + 1

\* MUTANT: only the index is checked.
ConflictsByIndex(fs, id, row) ==
    \E other \in FieldsOf(fs, row.schema) \ {id} : fs[other].index = row.index
\* check_index_and_display_name_conflicts.
Conflicts(fs, id, row) ==
    \E other \in FieldsOf(fs, row.schema) \ {id} :
        fs[other].index = row.index \/ (row.display /\ fs[other].display)

\* reindex_schema_after_delete.
WithoutField(fs, id) ==
    [k \in Ids |->
        IF k = id THEN None
        ELSE IF k \in FieldsOf(fs, fs[id].schema) /\ fs[k].index > fs[id].index
        THEN [fs[k] EXCEPT !.index = @ - 1] ELSE fs[k]]

\* What GET /schema/<name>/ answers: the fields in the order of their indexes.
Answer(fs, s) ==
    LET F == FieldsOf(fs, s)
        ids == InOrder(F, {p \in F \X F : Before(p[1], fs[p[1]].index, p[2], fs[p[2]].index)})
    IN  [k \in DOMAIN ids |-> EntryOf(ids[k], fs[ids[k]])]

---------------------------------------------------------------------------
(* The page's copy of a schema's fields.                                   *)

Others(list, id) == Kept(list, {k \in DOMAIN list : list[k].id # id})
WithEntry(list, e) == Append(list, e)
Replaced(list, e) == Sorted(Append(Others(list, e.id), e))
\* MUTANT: the fields behind a deleted one keep their index.
RemovedInPlace(list, id) == Others(list, id)
Removed(list, id) ==
    LET at == {e.index : e \in {x \in Range(list) : x.id = id}}
    IN  IF at = {} THEN list
        ELSE [k \in 1..Len(Others(list, id)) |->
                 [Others(list, id)[k] EXCEPT !.index = IF @ > Max(at) THEN @ - 1 ELSE @]]

Known(q) == IF q.data = None THEN <<>> ELSE q.data
IsNew(ns, s) == s \notin ns.data
\* schemaNameData: a schema not in the list of names is not asked for.
Listed(ns, ls, s) == IF IsNew(ns, s) THEN <<>> ELSE Known(ls[s])

NoForm == [shown |-> <<>>, added |-> <<>>, edits |-> [id \in Ids |-> None]]

\* The effects of SchemaComponent once the cache has changed: what arrives
\* replaces the fields on screen and the entries not yet sent.
Rendered(f, s, ns, ls) ==
    LET wasNew == IsNew(names, s)
        new == IsNew(ns, s)
    IN  [f EXCEPT
            !.shown = IF ~new /\ (wasNew \/ Listed(ns, ls, s) # Listed(names, lists, s))
                      THEN Listed(ns, ls, s) ELSE @,
            !.added = IF new /\ ~wasNew THEN <<FALSE>>
                      ELSE IF ~new /\ (wasNew \/ Listed(ns, ls, s) # Listed(names, lists, s))
                           THEN <<>> ELSE @]

\* Mounting, or moving to another schema in the mounted page: what is shown of
\* the former schema stays under the name of one that is not listed.
Cleared(f, s, ns) == [f EXCEPT !.added = IF IsNew(ns, s) THEN <<FALSE>> ELSE <<>>]
Opened(f, s, ns, ls) ==
    [Cleared(f, s, ns) EXCEPT !.shown = IF IsNew(ns, s) THEN @ ELSE Listed(ns, ls, s)]

\* The query of the schema on screen.
Queried(ls, s, ns) == IF IsNew(ns, s) THEN ls ELSE [ls EXCEPT ![s] = Ask(@)]

\* The cache becomes ns, ls, and what is on screen, f, follows.
Cached(f, ns, ls) ==
    /\ names' = ns
    /\ IF page = SchemaList THEN lists' = ls /\ form' = form
       ELSE /\ lists' = IF IsNew(names, page) THEN Queried(ls, page, ns) ELSE ls
            /\ form' = Rendered(f, page, ns, ls)
    /\ UNCHANGED page

\* The same, and the route becomes the list of schemas.
CachedAndLeft(ns, ls) ==
    /\ names' = ns /\ lists' = ls
    /\ page' = SchemaList /\ form' = NoForm

---------------------------------------------------------------------------

Init ==
    /\ fields = [id \in Ids |->
          IF id > StartFields THEN None
          ELSE [schema |-> Existing, index |-> id, display |-> id = 1]]
    /\ made = StartFields
    /\ names = SetData(EmptyEntry, SchemaNames(fields))
    /\ lists = [s \in Schemas |-> EmptyEntry]
    /\ page = SchemaList /\ form = NoForm
    /\ requests = {} /\ sent = 0 /\ edits = 0 /\ events = 0
    /\ mishaps = {}

---------------------------------------------------------------------------
(* The user.                                                               *)

NoChange == [display |-> None, index |-> None]

\* What a request's promise keeps of the page that sent it; `place' tells apart
\* requests that are alike.
Request(op, id, place, change) ==
    [op |-> op, id |-> id, place |-> place, schema |-> page, change |-> change, known |-> names.data,
     last |-> op = "delete" /\ Len(Listed(names, lists, page)) = 1, whole |-> FALSE,
     spoiled |-> FALSE, batch |-> sent + 1, at |-> "sent", row |-> None, turn |-> 0]

\* The delete of a field that the list its answer will patch does not have.
Astray(r) == r.op = "delete" /\ \A e \in Range(Known(lists[r.schema])) : e.id # r.id

MayGoOn == edits + sent + events < MaxTotal

Send(batch) ==
    /\ MayGoOn
    /\ batch # {} /\ sent + Cardinality(batch) <= MaxRequests
    /\ requests' = requests \cup batch
    /\ sent' = sent + Cardinality(batch)
    /\ mishaps' = mishaps \cup (IF requests = {} THEN {} ELSE {"hurry"})
                          \cup (IF \E r \in batch : Astray(r) THEN {"astray"} ELSE {})

OnSchema == page # SchemaList

\* By the list, the sidebar, NewSchemaModal or the browser's Back: the route may
\* be of a schema that is not there yet, from anywhere.
Navigate(s) ==
    /\ s # page
    /\ IF s = SchemaList THEN form' = NoForm /\ lists' = lists
       ELSE /\ form' = Opened(form, s, names, lists)
            /\ lists' = Queried(lists, s, names)
    /\ page' = s
    /\ UNCHANGED <<server, names, requests, sent, edits, events, mishaps>>

Typing == MayGoOn /\ edits < MaxEdits /\ edits' = edits + 1

\* MUTANT: the change is kept for the field that has this place's number.
ChangedByPlace(f, k, value) ==
    [f EXCEPT !.shown[k].display = value, !.edits[k] = value]
\* SchemaEntry's change on a field on screen, shown and kept for the save.
Changed(f, k, value) ==
    [f EXCEPT !.shown[k].display = value, !.edits[f.shown[k].id] = value]

Edit(k) ==
    /\ Typing
    /\ OnSchema /\ k \in DOMAIN form.shown
    /\ form' = Changed(form, k, ~form.shown[k].display)
    /\ UNCHANGED <<server, queries, page, requests, sent, events, mishaps>>

AddEntry ==
    /\ Typing
    /\ OnSchema /\ (form.shown # <<>> \/ IsNew(names, page))
    /\ form' = [form EXCEPT !.added = Append(@, FALSE)]
    /\ UNCHANGED <<server, queries, page, requests, sent, events, mishaps>>

EditAdded(k) ==
    /\ Typing
    /\ k \in DOMAIN form.added
    /\ form' = [form EXCEPT !.added[k] = ~@]
    /\ UNCHANGED <<server, queries, page, requests, sent, events, mishaps>>

RemoveAdded(k) ==
    /\ Typing
    /\ k \in DOMAIN form.added
    /\ form' = [form EXCEPT !.added = RemoveAt(@, k)]
    /\ UNCHANGED <<server, queries, page, requests, sent, events, mishaps>>

Import(file) ==
    /\ Typing
    /\ OnSchema /\ IsNew(names, page)
    /\ form' = [form EXCEPT !.added = @ \o file]
    /\ UNCHANGED <<server, queries, page, requests, sent, events, mishaps>>

Edited(f) == {id \in Ids : f.edits[id] # None}

\* What handleSubmit sends: a PUT per edited field, a POST per entry added.
Saved(f) ==
    {Request("update", id, 0, [NoChange EXCEPT !.display = f.edits[id]]) : id \in Edited(f)}
    \cup {Request("create", None, k, [NoChange EXCEPT !.display = f.added[k]]) : k \in DOMAIN f.added}

Save ==
    /\ OnSchema
    /\ Send(Saved(form))
    /\ form' = [form EXCEPT !.edits = NoForm.edits]
    /\ UNCHANGED <<server, queries, page, edits, events>>

\* handleDragEnd over the fields on screen and the new entries behind them:
\* every field whose place is not its index is sent that place.
Moved(list, i, j) == InsertAt(RemoveAt(list, i), j, list[i])
Part(list, stored) ==
    LET part == Kept(list, {k \in DOMAIN list : list[k].stored = stored})
    IN  [k \in DOMAIN part |-> part[k].entry]
Places(f) ==
    [k \in DOMAIN f.shown |-> [stored |-> TRUE, entry |-> f.shown[k]]]
        \o [k \in DOMAIN f.added |-> [stored |-> FALSE, entry |-> f.added[k]]]
Drag(i, j) ==
    /\ Typing
    /\ OnSchema /\ {i, j} \subseteq DOMAIN Places(form) /\ i # j
    /\ LET order == Moved(Places(form), i, j)
           list == Part(order, TRUE)
           moved == {k \in 1..Len(list) : list[k].index # k}
       IN  /\ \/ Send({Request("update", list[k].id, 0, [NoChange EXCEPT !.index = k]) : k \in moved})
              \/ moved = {} /\ UNCHANGED <<requests, sent, mishaps>>
           /\ form' = [form EXCEPT !.shown = list, !.added = Part(order, FALSE)]
    /\ UNCHANGED <<server, queries, page, events>>

\* SchemaEntry's delete; deleting the only field on screen leaves for the list.
DeleteEntry(k) ==
    /\ OnSchema /\ k \in DOMAIN form.shown
    /\ Send({Request("delete", form.shown[k].id, 0, NoChange)})
    /\ IF Len(form.shown) <= 1 THEN page' = SchemaList /\ form' = NoForm
       ELSE UNCHANGED <<page, form>>
    /\ UNCHANGED <<server, queries, edits, events>>

\* DeleteSchemaDialog.
DeleteSchema ==
    /\ OnSchema /\ ~IsNew(names, page) /\ form.shown # <<>>
    /\ Send({[Request("delete", form.shown[k].id, k, NoChange) EXCEPT !.whole = TRUE] : k \in DOMAIN form.shown})
    /\ UNCHANGED <<server, queries, page, form, edits, events>>

---------------------------------------------------------------------------
(* The server's threads.                                                   *)

Checked(r) ==
    IF r.op = "create"
    THEN [schema |-> r.schema, index |-> NextIndex(fields, r.schema), display |-> r.change.display]
    ELSE [fields[r.id] EXCEPT !.index = IF r.change.index = None THEN @ ELSE r.change.index,
                              !.display = IF r.change.display = None THEN @ ELSE r.change.display]

Refused(r) ==
    \/ r.op # "create" /\ r.id \notin Stored(fields)
    \/ r.op # "delete" /\ Conflicts(fields, r.id, Checked(r))

Check(r) ==
    /\ r.at = "sent"
    /\ IF Refused(r)
       THEN /\ requests' = (requests \ {r}) \cup {[r EXCEPT !.at = "failed"]}
            /\ mishaps' = mishaps \cup {"refused"}
       ELSE /\ requests' = (requests \ {r}) \cup {[r EXCEPT !.at = "checked", !.row = IF r.op = "delete" THEN None ELSE Checked(r)]}
            /\ UNCHANGED mishaps
    /\ UNCHANGED <<server, queries, page, form, sent, edits, events>>

Unread == {r \in requests : r.at = "done"}
Fetched == HasAnswer(names) \/ \E s \in Schemas : HasAnswer(lists[s])

\* The row is written to the database and to the cached fields; a field
\* deleted since the check is there again.
Write(r) ==
    /\ r.at = "checked"
    /\ LET id == IF r.op = "create" THEN made + 1 ELSE r.id
       IN  /\ fields' = CASE r.op # "delete" -> [fields EXCEPT ![id] = r.row]
                          [] r.op = "delete" /\ id \in Stored(fields) -> WithoutField(fields, id)
                          [] OTHER -> fields
           /\ made' = IF r.op = "create" THEN id ELSE made
           /\ requests' = (requests \ {r}) \cup
                {[r EXCEPT !.at = "done", !.id = id, !.turn = Max({q.turn : q \in Unread} \cup {0}) + 1]}
    /\ mishaps' = mishaps
          \cup (IF \E q \in requests \ {r} : q.at = "checked" THEN {"overlap"} ELSE {})
          \cup (IF Fetched THEN {"disorder"} ELSE {})
    /\ UNCHANGED <<queries, page, form, sent, edits, events>>

---------------------------------------------------------------------------
(* Answers.                                                                *)

EndsBatch(r) == ~\E q \in requests \ {r} : q.batch = r.batch /\ q.op = r.op

\* MUTANT: the dialog leaves the name to deleteSchemaData.
NamesAfterFields(r, ok) ==
    IF r.op = "create" /\ EndsBatch(r) /\ r.schema \notin r.known
    THEN SetData(names, r.known \cup {r.schema})
    ELSE IF r.op = "delete" /\ ok /\ r.last THEN SetData(names, r.known \ {r.schema})
    ELSE names
\* The promises of addSchemaData, deleteSchemaData and the dialog, with the
\* names they were rendered with; a create that failed counts as settled.
NamesAfter(r, ok) ==
    IF r.op = "create" /\ EndsBatch(r) /\ r.schema \notin r.known
    THEN SetData(names, r.known \cup {r.schema})
    ELSE IF r.op = "delete" /\ ok /\ (r.last \/ (r.whole /\ ~r.spoiled /\ EndsBatch(r)))
    THEN SetData(names, r.known \ {r.schema})
    ELSE names

Patched(list, r) ==
    CASE r.op = "create" -> WithEntry(list, EntryOf(r.id, r.row))
      [] r.op = "update" -> Replaced(list, EntryOf(r.id, r.row))
      [] r.op = "delete" -> Removed(list, r.id)

\* The list an answer is for: a field's own schema, the page's for a delete.
ListOf(r) == IF r.op = "delete" THEN r.schema ELSE r.row.schema

Receive(r) ==
    /\ r.at = "done"
    /\ LET ls == [lists EXCEPT ![ListOf(r)] = SetData(@, Patched(Known(@), r))]
       IN  IF r.whole /\ ~r.spoiled /\ EndsBatch(r)
           THEN CachedAndLeft(NamesAfter(r, TRUE), ls)
           ELSE Cached(form, NamesAfter(r, TRUE), ls)
    /\ requests' = requests \ {r}
    /\ mishaps' = mishaps \cup (IF \E q \in Unread : q.turn < r.turn THEN {"disorder"} ELSE {})
    /\ UNCHANGED <<server, sent, edits, events>>

ReceiveFailure(r) ==
    /\ r.at = "failed"
    /\ Cached(form, NamesAfter(r, FALSE), lists)
    /\ requests' = {[q EXCEPT !.spoiled = @ \/ (q.batch = r.batch /\ r.whole)] : q \in requests \ {r}}
    /\ UNCHANGED <<server, sent, edits, events, mishaps>>

Lose(r) ==
    /\ r.at \in {"sent", "done"} /\ MayGoOn /\ events < MaxEvents
    /\ requests' = (requests \ {r}) \cup {[r EXCEPT !.at = "failed"]}
    /\ events' = events + 1
    /\ mishaps' = mishaps \cup {"lost"}
    /\ UNCHANGED <<server, queries, page, form, sent, edits>>

\* staleTime passes for a query on screen, and the window gets the focus back.
Focus ==
    /\ MayGoOn /\ events < MaxEvents /\ events' = events + 1
    /\ \/ /\ names' = Ask([names EXCEPT !.stale = TRUE])
          /\ UNCHANGED lists
       \/ /\ OnSchema /\ ~IsNew(names, page)
          /\ lists' = [lists EXCEPT ![page] = Ask([@ EXCEPT !.stale = TRUE])]
          /\ UNCHANGED names
    /\ UNCHANGED <<server, page, form, requests, sent, edits, mishaps>>

ServeFetch ==
    /\ \/ /\ Asked(names)
          /\ names' = [names EXCEPT !.fetch = Answered(SchemaNames(fields))]
          /\ UNCHANGED lists
       \/ \E s \in Schemas :
             /\ Asked(lists[s])
             /\ lists' = [lists EXCEPT ![s].fetch = Answered(Answer(fields, s))]
             /\ UNCHANGED names
    /\ mishaps' = mishaps \cup (IF Unread = {} THEN {} ELSE {"disorder"})
    /\ UNCHANGED <<server, page, form, requests, sent, edits, events>>

\* With the names come the schemaVariables, made of all there is to refer to;
\* if they are new, the entries not yet sent are gone.
ReceiveNames ==
    /\ HasAnswer(names)
    /\ LET ns == Arrived(names)
       IN  \E f \in {form, Cleared(form, page, ns)} : Cached(f, ns, lists)
    /\ UNCHANGED <<server, requests, sent, edits, events, mishaps>>

\* A schema without fields is not found.
ReceiveList(s) ==
    /\ HasAnswer(lists[s])
    /\ Cached(form, names, [lists EXCEPT ![s] = IF @.fetch.value = <<>> THEN Failed(@, "gone") ELSE Arrived(@)])
    /\ UNCHANGED <<server, requests, sent, edits, events, mishaps>>

---------------------------------------------------------------------------

UserStep ==
    \/ \E s \in Schemas \cup {SchemaList} : Navigate(s)
    \/ \E k \in Ids : Edit(k) \/ DeleteEntry(k)
    \/ AddEntry
    \/ \E k \in Ids : EditAdded(k) \/ RemoveAdded(k)
    \/ \E file \in Imports : Import(file)
    \/ Save
    \/ \E i, j \in DOMAIN Places(form) : Drag(i, j)
    \/ DeleteSchema

RequestStep == \E r \in requests : Check(r) \/ Write(r) \/ Receive(r) \/ ReceiveFailure(r) \/ Lose(r)

QueryStep == Focus \/ ServeFetch \/ ReceiveNames \/ \E s \in Schemas : ReceiveList(s)

Next == UserStep \/ RequestStep \/ QueryStep

Spec == Init /\ [][Next]_vars

---------------------------------------------------------------------------

FormType == [shown : Seq(Entry), added : Seq(BOOLEAN), edits : [Ids -> BOOLEAN \cup {None}]]
RequestType ==
    [op : {"create", "update", "delete"}, id : Ids \cup {None}, place : Nat, schema : Schemas,
     change : [display : BOOLEAN \cup {None}, index : (Nat \ {0}) \cup {None}],
     known : SUBSET Schemas, last : BOOLEAN, whole : BOOLEAN, spoiled : BOOLEAN, batch : Nat,
     at : {"sent", "checked", "done", "failed"}, row : Row \cup {None}, turn : Nat]

\* Only a field still to be created has no id, and a thread that has something
\* to write has a whole row.
TypeOK ==
    /\ fields \in [Ids -> Row \cup {None}] /\ made \in Ids
    /\ names \in Entries(SUBSET Schemas) /\ lists \in [Schemas -> Entries(Seq(Entry))]
    /\ page \in Schemas \cup {SchemaList} /\ form \in FormType
    /\ page = SchemaList => form = NoForm
    /\ requests \subseteq RequestType /\ sent \in 0..MaxRequests
    /\ \A r \in requests :
          /\ r.op # "create" \/ r.at = "done" => r.id \in Ids
          /\ r.at \in {"checked", "done"} /\ r.op # "delete" => r.row \in Row

Quiet ==
    /\ requests = {} /\ names.fetch = Idle
    /\ \A s \in Schemas : lists[s].fetch = Idle

Clash ==
    \E s \in Schemas : \E a, b \in FieldsOf(fields, s) :
        a # b /\ (fields[a].index = fields[b].index \/ (fields[a].display /\ fields[b].display))

\* Two fields of a schema with the same index, or both its display name, come
\* of one handler's write between another's check and write and of nothing
\* else: not of creates, moves or the shifts after deletes.
FieldsClashOnlyAfterOverlap == Clash => "overlap" \in mishaps

ListsAgree ==
    \A s \in Schemas : lists[s].data # None =>
        /\ Len(lists[s].data) = Cardinality(FieldsOf(fields, s))
        /\ Range(lists[s].data) = Range(Answer(fields, s))

\* The copies that schema.ts patches itself, new indexes and all, agree with
\* the server's when everything has been answered in the order it was served
\* and no field was deleted under another schema's name.
PatchedListsAgree ==
    (Quiet /\ mishaps \cap {"disorder", "lost", "astray"} = {}) => ListsAgree

\* A schema is in the list of names that the page keeps exactly while it has
\* fields, when the user waits for each answer, none is a failure and no field
\* was deleted under another schema's name.
NamesFollowTheFields ==
    (Quiet /\ mishaps \cap {"disorder", "lost", "refused", "hurry", "astray"} = {}) =>
        names.data = SchemaNames(fields)

\* What SchemaComponent shows of a field that the server does not have is in
\* the edits it will send, when nothing failed on the way and no field was
\* deleted under another schema's name.
ShownIsStoredOrPending ==
    (Quiet /\ mishaps \cap {"disorder", "lost", "refused", "astray"} = {} /\ OnSchema /\ ~IsNew(names, page)) =>
        \A e \in Range(form.shown) :
            e \in Range(Answer(fields, page)) \/ form.edits[e.id] = e.display

\* The code does otherwise than the following; SchemaClash.cfg checks the
\* first, no run the rest.

\* ARCHITECTURE.md: a field's uniqueness is "checked atomically against the
\* in-process data-client cache right before the write".
FieldsNeverClash == ~Clash

\* The copies agree in whichever order the answers arrive, and for a field
\* deleted under whichever schema's name.
PatchesNeedNoOrder == (Quiet /\ mishaps \cap {"lost", "astray"} = {}) => ListsAgree
DeletesFindTheirList == (Quiet /\ mishaps \cap {"lost", "disorder"} = {}) => ListsAgree

\* The names follow the fields although the user does not wait for answers.
NamesFollowTheHasty ==
    (Quiet /\ mishaps \cap {"disorder", "lost", "refused", "astray"} = {}) =>
        names.data = SchemaNames(fields)

\* What the next save will send for a field is what is on screen of it.
PendingEditsAreShown ==
    OnSchema => \A e \in Range(form.shown) : form.edits[e.id] \in {None, e.display}

\* A page shows the fields of its own schema.
ScreensShowTheirSchema ==
    \A e \in Range(form.shown) : fields[e.id] # None => fields[e.id].schema = page

\* ARCHITECTURE.md: "only an explicit reorder operation may set `_index`"; the
\* drag is that operation, and what it leaves on screen is the stored order
\* once the server has answered, nothing lost and nobody else at work.
ReordersAreStored ==
    (Quiet /\ mishaps \subseteq {"refused"} /\ OnSchema /\ ~IsNew(names, page)) =>
        [k \in DOMAIN form.shown |-> form.shown[k].id] =
            [k \in DOMAIN Listed(names, lists, page) |-> Answer(fields, page)[k].id]
===========================================================================
