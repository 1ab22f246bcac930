--------------------------- MODULE FieldEditors ---------------------------
(***************************************************************************)
(* The field editors of the document form (DocumentEntry and fields/): a   *)
(* plain field, an object such as an image or a file, and an array of such *)
(* objects with its three renderers.  A file is uploaded in the background *)
(* while the user types on; the answer is written by the callback of the   *)
(* render in which the file was chosen.                                    *)
(*                                                                         *)
(* What the page does with the form afterwards is in DocumentEditor.       *)
(***************************************************************************)
EXTENDS Naturals, Sequences, SequencesExt

CONSTANTS
    Texts, Urls,      \* what is typed, and what uploads are stored under
    Empty,            \* the empty text and url
    Unset,            \* "" or {}, for which an editor shows its defaults
    MaxItems, MaxEdits, MaxUploads

ASSUME FieldsAssumption == Empty \in Texts \cap Urls /\ {MaxItems, MaxEdits, MaxUploads} \subseteq Nat

VARIABLES
    kind,       \* which component renders the array
    new,        \* whether the page is that of a new document
    form,       \* the fields' values
    expanded,   \* the accordion that is open, 0 for none
    uploads,    \* uploads in flight
    edits, chosen,        \* counters
    typed                 \* history: the last text typed into the plain field

vars == <<kind, new, form, expanded, uploads, edits, chosen, typed>>

Kinds == {"simple", "compound", "nested"}
Object == [text : Texts, url : Urls]
Value == Object \cup {Unset}
Form == [plain : Texts, object : Value, list : UNION {[1..n -> Value] : n \in 0..MaxItems}]

\* parseValue.
Parsed(raw) == IF raw = Unset THEN [text |-> Empty, url |-> Empty] ELSE raw

Init ==
    /\ kind \in Kinds /\ new \in BOOLEAN
    /\ form = [plain |-> Empty, object |-> Unset, list |-> <<>>]
    /\ expanded = 0 /\ uploads = {} /\ edits = 0 /\ chosen = 0
    /\ typed = Empty

Items == DOMAIN form.list
TheObject == 0        \* an item is named by its index
Place == 0..MaxItems
At(f, p) == IF p = TheObject THEN f.object ELSE f.list[p]
Present(p) == p = TheObject \/ p \in Items
\* Only an open accordion can be edited.
Open(p) == Present(p) /\ (p = TheObject \/ kind = "simple" \/ expanded = p)

\* An item's editor lives as long as the array has its index, which is its key.
Surviving(us, list) ==
    {[u EXCEPT !.mounted = @ /\ (u.place = TheObject \/ u.place \in DOMAIN list)] : u \in us}

\* arrayMove.
Moved(s, i, j) == InsertAt(RemoveAt(s, i), j, s[i])

\* History: an upload's `now` follows the item its file was chosen for, where
\* an item is after another one was removed or dragged; TheObject if removed.
AfterRemoval(i) == [k \in Place |-> IF k = i THEN TheObject ELSE IF k > i THEN k - 1 ELSE k]
AfterDrag(i, j) ==
    [k \in Place |-> CASE k = i -> j
                       [] i < k /\ k <= j -> k - 1
                       [] j <= k /\ k < i -> k + 1
                       [] OTHER -> k]
Following(us, place) == {[u EXCEPT !.now = place[@]] : u \in us}

---------------------------------------------------------------------------
(* What the callbacks write.                                               *)

\* MUTANT: every array has the items of its render.
ItemsWrittenAsRendered(base, now, k, i, v) == [base EXCEPT ![i] = v]
\* A callback of the simple array has the items of its render, those of the
\* other two look them up; an index the array no longer has is not written.
ItemsWritten(base, now, k, i, v) ==
    LET list == IF k = "simple" THEN base ELSE now
    IN [j \in DOMAIN list |-> IF j = i THEN v ELSE list[j]]

Written(base, now, k, p, v) ==
    IF p = TheObject THEN [now EXCEPT !.object = v]
    ELSE [now EXCEPT !.list = ItemsWritten(base.list, now.list, k, p, v)]

\* MUTANT: the setter of an existing document's page has its render's data too.
StoredAsRendered(base, now, k, isNew, p, v) == Written(base, base, k, p, v)
\* The setter for a new document has the data of its render, that for an
\* existing one is given the data as it is.  The accordions look up the
\* setter too.
Stored(base, now, k, isNew, p, v) ==
    IF isNew /\ (p = TheObject \/ k = "simple") THEN Written(base, base, k, p, v)
    ELSE Written(base, now, k, p, v)

---------------------------------------------------------------------------
(* The user.                                                               *)

Edit ==
    /\ edits < MaxEdits /\ edits' = edits + 1
    /\ UNCHANGED <<kind, new, chosen>>

TypePlain(t) ==
    /\ Edit
    /\ form' = [form EXCEPT !.plain = t] /\ typed' = t
    /\ UNCHANGED <<expanded, uploads>>

\* A text of the object, or of an item; all current when it is typed.
TypeText(p, t) ==
    /\ Edit /\ Open(p)
    /\ form' = Stored(form, form, kind, new, p, [Parsed(At(form, p)) EXCEPT !.text = t])
    /\ UNCHANGED <<expanded, uploads, typed>>

\* The remove button of an image or a file.
Clear(p) ==
    /\ Edit /\ Open(p) /\ Parsed(At(form, p)).url # Empty
    /\ form' = Stored(form, form, kind, new, p, [Parsed(At(form, p)) EXCEPT !.url = Empty])
    /\ UNCHANGED <<expanded, uploads, typed>>

AddItem ==
    /\ Edit /\ Len(form.list) < MaxItems
    /\ form' = [form EXCEPT !.list =
                   Append(@, IF kind = "compound" THEN Parsed(Unset) ELSE Unset)]
    /\ expanded' = IF kind = "simple" THEN 0 ELSE Len(form'.list)
    /\ UNCHANGED <<uploads, typed>>

RemoveItem(i) ==
    /\ Edit /\ i \in Items
    /\ form' = [form EXCEPT !.list = RemoveAt(@, i)]
    /\ expanded' = 0
    /\ uploads' = Surviving(Following(uploads, AfterRemoval(i)), form'.list)
    /\ UNCHANGED typed

Drag(i, j) ==
    /\ Edit /\ {i, j} \subseteq Items /\ i # j
    /\ form' = [form EXCEPT !.list = Moved(@, i, j)]
    /\ expanded' = 0
    /\ uploads' = Following(uploads, AfterDrag(i, j))
    /\ UNCHANGED typed

Toggle(i) ==
    /\ Edit /\ kind # "simple" /\ i \in Items
    /\ expanded' = IF expanded = i THEN 0 ELSE i
    /\ UNCHANGED <<form, uploads, typed>>

---------------------------------------------------------------------------
(* Uploads.                                                                *)

ChooseFile(p) ==
    /\ chosen < MaxUploads /\ Open(p)
    /\ \A u \in uploads : ~(u.place = p /\ u.mounted)
    /\ chosen' = chosen + 1
    /\ uploads' = uploads \cup {[id |-> chosen, place |-> p, now |-> p, base |-> form,
                                 mounted |-> TRUE]}
    /\ UNCHANGED <<kind, new, form, expanded, edits, typed>>

\* The value as it was when the file was chosen, with the new url.
Uploaded(u, url) == [Parsed(At(u.base, u.place)) EXCEPT !.url = url]

ReceiveUpload(u, url) ==
    /\ form' = Stored(u.base, form, kind, new, u.place, Uploaded(u, url))
    /\ uploads' = Surviving(uploads \ {u}, form'.list)
    /\ UNCHANGED <<kind, new, expanded, edits, chosen, typed>>

UploadFails(u) ==
    /\ uploads' = uploads \ {u}
    /\ UNCHANGED <<kind, new, form, expanded, edits, chosen, typed>>

Next ==
    \/ \E t \in Texts : TypePlain(t)
    \/ \E p \in Place, t \in Texts : TypeText(p, t)
    \/ \E p \in Place : Clear(p) \/ ChooseFile(p)
    \/ AddItem
    \/ \E i \in 1..MaxItems : RemoveItem(i) \/ Toggle(i)
    \/ \E i, j \in 1..MaxItems : Drag(i, j)
    \/ \E u \in uploads : UploadFails(u) \/ \E url \in Urls \ {Empty} : ReceiveUpload(u, url)

Spec == Init /\ [][Next]_vars

---------------------------------------------------------------------------

TypeOK ==
    /\ form \in Form /\ expanded \in 0..MaxItems
    /\ \A u \in uploads : {u.place, u.now} \subseteq Place /\ u.base \in Form

\* The text of another field, typed while a file is uploaded, is not undone
\* by the answer, on the page of an existing document.
TextIsKept == ~new => form.plain = typed

\* The same of any document.  Violated: the setter for a new document writes
\* the whole form as it was when the file was chosen.
TextIsAlwaysKept == form.plain = typed

\* In the compound and the nested array an answer writes the object, or the item
\* its file was chosen for as long as that is where it was, and nothing else:
\* it brings no removed item back and loses none added since, and what was
\* written elsewhere meanwhile stays.
Changed == {p \in Place : p \in ({TheObject} \cup (DOMAIN form.list \cap DOMAIN form'.list))
                          /\ At(form, p) # At(form', p)}
AnswersReachUnmovedItems ==
    [][\A u \in uploads, url \in Urls :
          ReceiveUpload(u, url) /\ ~new /\ kind # "simple" =>
             /\ u.now = u.place => Changed \subseteq {u.now}
             /\ DOMAIN form'.list = DOMAIN form.list /\ form'.plain = form.plain]_vars

\* The same wherever the item is by now, as NestedDocumentArrayField's "refs so
\* callbacks always see the latest items ... without stale closures" lets one
\* expect.  Violated: the callback looks up the items and not the index, so
\* that after a removal or a drag the answer puts the item it was chosen for
\* in the place of another.
AnswersReachTheirItem ==
    [][\A u \in uploads, url \in Urls :
          ReceiveUpload(u, url) /\ ~new /\ kind # "simple" => Changed \subseteq {u.now}]_vars
===========================================================================
