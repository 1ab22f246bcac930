------------------------- MODULE FieldEditorsProofs -------------------------
(***************************************************************************)
(* Proofs about FieldEditors, for every length of the array and however    *)
(* many edits and uploads overlap.                                         *)
(***************************************************************************)
EXTENDS FieldEditors, SequenceTheorems, TLAPS

-----------------------------------------------------------------------------
(* The inductive invariant.                                                *)

Lists == UNION {[1..n -> Value] : n \in 0..MaxItems}

\* An upload remembers the form of the render in which its file was chosen,
\* and that form had the place it was chosen for.
Uploads == [id : Nat, place : Place, now : Place, base : Form, mounted : BOOLEAN]
Had(u)  == u.place = TheObject \/ u.place \in DOMAIN u.base.list

UploadsOK == \A u \in uploads : u \in Uploads /\ Had(u)
StateOK   == /\ kind \in Kinds /\ new \in BOOLEAN /\ form \in Form
             /\ expanded \in 0..MaxItems /\ {edits, chosen} \subseteq Nat /\ typed \in Texts

IInv == StateOK /\ UploadsOK /\ TextIsKept

-----------------------------------------------------------------------------
(* Arrays.                                                                 *)

LEMMA ConcatOK ==
  ASSUME NEW S, NEW a \in Seq(S), NEW b \in Seq(S), NEW m \in Int, NEW n \in Int,
         Len(a) = m, Len(b) = n
  PROVE  a \o b \in Seq(S) /\ Len(a \o b) = m + n
<1>1. a \o b \in Seq(S) /\ Len(a \o b) = Len(a) + Len(b)
  BY ConcatProperties
<1> QED
  BY <1>1

LEMMA ListsAreSequences ==
  ASSUME NEW s
  PROVE  s \in Lists <=> s \in Seq(Value) /\ Len(s) <= MaxItems
<1>1. MaxItems \in Nat
  BY FieldsAssumption
<1>2. ASSUME s \in Lists PROVE s \in Seq(Value) /\ Len(s) <= MaxItems
  <2>1. PICK n \in 0..MaxItems : s \in [1..n -> Value]
    BY <1>2 DEF Lists
  <2>2. s \in Seq(Value) /\ Len(s) = n
    BY <1>1, <2>1
  <2> QED
    BY <1>1, <2>1, <2>2
<1>3. ASSUME s \in Seq(Value), Len(s) <= MaxItems PROVE s \in Lists
  <2>1. Len(s) \in 0..MaxItems /\ s \in [1..Len(s) -> Value]
    BY <1>1, <1>3
  <2> QED
    BY <2>1 DEF Lists
<1> QED
  BY <1>2, <1>3

LEMMA FormsOfLists == Form = [plain : Texts, object : Value, list : Lists]
BY DEF Form, Lists

LEMMA RemoveOK ==
  ASSUME NEW s \in Lists, NEW i \in DOMAIN s
  PROVE  /\ RemoveAt(s, i) \in Seq(Value) /\ Len(RemoveAt(s, i)) = Len(s) - 1
         /\ RemoveAt(s, i) \in Lists
<1>1. s \in Seq(Value) /\ Len(s) <= MaxItems /\ i \in 1..Len(s) /\ MaxItems \in Nat
  BY ListsAreSequences, FieldsAssumption
<1>2. /\ SubSeq(s, 1, i - 1) \in Seq(Value) /\ Len(SubSeq(s, 1, i - 1)) = i - 1
      /\ SubSeq(s, i + 1, Len(s)) \in Seq(Value) /\ Len(SubSeq(s, i + 1, Len(s))) = Len(s) - i
  <2>1. Len(s) \in Nat /\ \A k \in 1..Len(s) : s[k] \in Value
    BY <1>1, LenProperties
  <2>2. (\A k \in 1..(i - 1) : s[k] \in Value) /\ (\A k \in (i + 1)..Len(s) : s[k] \in Value)
    BY <1>1, <2>1
  <2> QED
    BY <1>1, <2>1, <2>2, SubSeqProperties
<1>3. RemoveAt(s, i) \in Seq(Value) /\ Len(RemoveAt(s, i)) = Len(s) - 1
  <2>1. Len(s) \in Nat
    BY <1>1, LenProperties
  <2>2. i - 1 \in Int /\ Len(s) - i \in Int /\ (i - 1) + (Len(s) - i) = Len(s) - 1
    BY <1>1, <2>1
  <2>3. /\ RemoveAt(s, i) \in Seq(Value)
        /\ Len(RemoveAt(s, i)) = (i - 1) + (Len(s) - i)
    BY <1>2, <2>2, ConcatOK DEF RemoveAt
  <2> QED
    BY <2>2, <2>3
<1> QED
  BY <1>1, <1>3, ListsAreSequences

LEMMA InsertOK ==
  ASSUME NEW S, NEW r \in Seq(S), NEW j \in 1..(Len(r) + 1), NEW v \in S
  PROVE  InsertAt(r, j, v) \in Seq(S) /\ Len(InsertAt(r, j, v)) = Len(r) + 1
<1>1. Len(r) \in Nat /\ j \in Nat /\ \A k \in 1..Len(r) : r[k] \in S
  BY LenProperties
<1>2. /\ SubSeq(r, 1, j - 1) \in Seq(S) /\ Len(SubSeq(r, 1, j - 1)) = j - 1
      /\ SubSeq(r, j, Len(r)) \in Seq(S) /\ Len(SubSeq(r, j, Len(r))) = Len(r) - j + 1
  <2>1. (\A k \in 1..(j - 1) : r[k] \in S) /\ (\A k \in j..Len(r) : r[k] \in S)
    BY <1>1
  <2> QED
    BY <1>1, <2>1, SubSeqProperties
<1>3. <<v>> \in Seq(S) /\ Len(<<v>>) = 1
  OBVIOUS
<1>4. /\ SubSeq(r, 1, j - 1) \o <<v>> \in Seq(S)
      /\ Len(SubSeq(r, 1, j - 1) \o <<v>>) = (j - 1) + 1
  BY <1>1, <1>2, <1>3, ConcatOK
<1> DEFINE front == SubSeq(r, 1, j - 1) \o <<v>>
           rest  == SubSeq(r, j, Len(r))
<1>5. front \in Seq(S) /\ rest \in Seq(S) /\ Len(front) = j /\ Len(rest) = Len(r) - j + 1
  BY <1>1, <1>2, <1>4
<1>6. InsertAt(r, j, v) = front \o rest
  BY DEF InsertAt
<1> HIDE DEF front, rest
<1>7. j \in Int /\ Len(r) - j + 1 \in Int /\ j + (Len(r) - j + 1) = Len(r) + 1
  BY <1>1
<1>8. front \o rest \in Seq(S) /\ Len(front \o rest) = j + (Len(r) - j + 1)
  BY <1>5, <1>7, ConcatOK
<1> QED
  BY <1>6, <1>7, <1>8

LEMMA MovedOK ==
  ASSUME NEW s \in Lists, NEW i \in DOMAIN s, NEW j \in DOMAIN s
  PROVE  Moved(s, i, j) \in Lists
<1> DEFINE r == RemoveAt(s, i)
<1>1. /\ s \in Seq(Value) /\ Len(s) <= MaxItems /\ Len(s) \in Nat
      /\ i \in 1..Len(s) /\ j \in 1..Len(s) /\ s[i] \in Value
  BY ListsAreSequences, LenProperties
<1>2. r \in Seq(Value) /\ Len(r) = Len(s) - 1
  BY RemoveOK
<1>3. Moved(s, i, j) = InsertAt(r, j, s[i])
  BY DEF Moved
<1> HIDE DEF r
<1>4. j \in 1..(Len(r) + 1) /\ Len(r) + 1 = Len(s)
  BY <1>1, <1>2
<1>5. Moved(s, i, j) \in Seq(Value) /\ Len(Moved(s, i, j)) = Len(s)
  BY <1>1, <1>2, <1>3, <1>4, InsertOK
<1> QED
  BY <1>1, <1>5, ListsAreSequences

LEMMA AppendOK ==
  ASSUME NEW s \in Lists, Len(s) < MaxItems, NEW v \in Value
  PROVE  /\ Append(s, v) \in Lists /\ Len(Append(s, v)) \in 0..MaxItems
<1>1. s \in Seq(Value) /\ Len(s) <= MaxItems /\ MaxItems \in Nat
  BY ListsAreSequences, FieldsAssumption
<1>2. Append(s, v) \in Seq(Value) /\ Len(Append(s, v)) = Len(s) + 1 /\ Len(s) \in Nat
  BY <1>1, AppendProperties, LenProperties
<1>3. Len(s) + 1 <= MaxItems /\ Len(s) + 1 \in 0..MaxItems
  BY <1>1, <1>2
<1> QED
  BY <1>2, <1>3, ListsAreSequences

-----------------------------------------------------------------------------
(* What the callbacks write.                                               *)

LEMMA ParsedOK ==
  ASSUME NEW f \in Form, NEW p \in Place, p = TheObject \/ p \in DOMAIN f.list
  PROVE  Parsed(At(f, p)) \in Object
<1>1. At(f, p) \in Value
  <2>1. CASE p = TheObject
    BY <2>1, FormsOfLists DEF At
  <2>2. CASE p # TheObject
    <3>1. f.list \in Seq(Value) /\ p \in DOMAIN f.list
      BY <2>2, FormsOfLists, ListsAreSequences
    <3> QED
      BY <2>2, <3>1 DEF At
  <2> QED
    BY <2>1, <2>2
<1> QED
  BY <1>1, FieldsAssumption DEF Parsed, Value, Object

LEMMA ItemsWrittenOK ==
  ASSUME NEW base \in Lists, NEW now \in Lists, NEW k, NEW i, NEW v \in Value
  PROVE  ItemsWritten(base, now, k, i, v) \in Lists
<1> DEFINE list == IF k = "simple" THEN base ELSE now
<1>1. list \in Lists
  OBVIOUS
<1>2. ItemsWritten(base, now, k, i, v) = [j \in DOMAIN list |-> IF j = i THEN v ELSE list[j]]
  BY DEF ItemsWritten
<1> HIDE DEF list
<1>3. PICK n \in 0..MaxItems : list \in [1..n -> Value]
  BY <1>1 DEF Lists
<1>4. [j \in DOMAIN list |-> IF j = i THEN v ELSE list[j]] \in [1..n -> Value]
  BY <1>3
<1> QED
  BY <1>2, <1>4 DEF Lists

LEMMA WrittenOK ==
  ASSUME NEW base \in Form, NEW now \in Form, NEW k, NEW p, NEW v \in Value
  PROVE  Written(base, now, k, p, v) \in Form /\ Written(base, now, k, p, v).plain = now.plain
<1>1. base.list \in Lists /\ now.list \in Lists
  BY FormsOfLists
<1>2. ItemsWritten(base.list, now.list, k, p, v) \in Lists
  BY <1>1, ItemsWrittenOK
<1> QED
  BY <1>2, FormsOfLists DEF Written

\* What a callback stores is a form, and on an existing document's page has
\* the plain field as it is.
LEMMA StoredOK ==
  ASSUME NEW base \in Form, NEW now \in Form, NEW k, NEW isNew \in BOOLEAN, NEW p, NEW v \in Value
  PROVE  /\ Stored(base, now, k, isNew, p, v) \in Form
         /\ ~isNew => /\ Stored(base, now, k, isNew, p, v) = Written(base, now, k, p, v)
                      /\ Stored(base, now, k, isNew, p, v).plain = now.plain
BY WrittenOK DEF Stored

LEMMA SurvivingOK ==
  ASSUME NEW us, \A u \in us : u \in Uploads /\ Had(u), NEW list
  PROVE  \A u \in Surviving(us, list) : u \in Uploads /\ Had(u)
<1> SUFFICES ASSUME NEW u \in Surviving(us, list)
             PROVE  u \in Uploads /\ Had(u)
  OBVIOUS
<1>1. PICK w \in us :
         u = [w EXCEPT !.mounted = w.mounted /\ (w.place = TheObject \/ w.place \in DOMAIN list)]
  BY DEF Surviving
<1> DEFINE b == w.mounted /\ (w.place = TheObject \/ w.place \in DOMAIN list)
<1>2. w \in Uploads /\ Had(w) /\ b \in BOOLEAN /\ u = [w EXCEPT !.mounted = b]
  BY <1>1 DEF Uploads
<1> HIDE DEF b
<1>3. u \in Uploads /\ u.place = w.place /\ u.base = w.base
  BY <1>2 DEF Uploads
<1> QED
  BY <1>2, <1>3 DEF Had

LEMMA FollowingOK ==
  ASSUME NEW us, \A u \in us : u \in Uploads /\ Had(u), NEW place \in [Place -> Place]
  PROVE  \A u \in Following(us, place) : u \in Uploads /\ Had(u)
<1> SUFFICES ASSUME NEW u \in Following(us, place)
             PROVE  u \in Uploads /\ Had(u)
  OBVIOUS
<1>1. PICK w \in us : u = [w EXCEPT !.now = place[w.now]]
  BY DEF Following
<1>2. w \in Uploads /\ Had(w) /\ place[w.now] \in Place
  BY DEF Uploads
<1>3. u \in Uploads /\ u.place = w.place /\ u.base = w.base
  BY <1>1, <1>2 DEF Uploads
<1> QED
  BY <1>2, <1>3 DEF Had

LEMMA PlacesOK ==
  ASSUME NEW i \in 1..MaxItems, NEW j \in 1..MaxItems
  PROVE  AfterRemoval(i) \in [Place -> Place] /\ AfterDrag(i, j) \in [Place -> Place]
<1>1. MaxItems \in Nat
  BY FieldsAssumption
<1>2. AfterRemoval(i) \in [Place -> Place]
  BY <1>1 DEF AfterRemoval, Place, TheObject
<1>3. AfterDrag(i, j) \in [Place -> Place]
  <2>1. ASSUME NEW k \in Place
        PROVE  (CASE k = i -> j
                  [] i < k /\ k <= j -> k - 1
                  [] j <= k /\ k < i -> k + 1
                  [] OTHER -> k) \in Place
    BY <1>1 DEF Place
  <2> QED
    BY <2>1 DEF AfterDrag
<1> QED
  BY <1>2, <1>3

-----------------------------------------------------------------------------
(* One step.                                                               *)

LEMMA EditsKeep ==
  ASSUME IInv, NEW p \in Place, \/ \E t \in Texts : TypeText(p, t)
                                \/ Clear(p)
  PROVE  IInv'
<1>1. StateOK /\ UploadsOK /\ TextIsKept /\ form \in Form
  BY DEF IInv, StateOK
<1>2. PICK v \in Value : /\ form' = Stored(form, form, kind, new, p, v) /\ Edit
                         /\ UNCHANGED <<expanded, uploads, typed>>
  <2>1. Open(p) /\ (p = TheObject \/ p \in DOMAIN form.list)
    BY DEF TypeText, Clear, Open, Present, Items
  <2>2. Parsed(At(form, p)) \in Object
    BY <1>1, <2>1, ParsedOK
  <2>3. CASE \E t \in Texts : TypeText(p, t)
    <3>1. PICK t \in Texts : TypeText(p, t)
      BY <2>3
    <3>2. [Parsed(At(form, p)) EXCEPT !.text = t] \in Value
      BY <2>2 DEF Value, Object
    <3> QED
      BY <3>1, <3>2 DEF TypeText
  <2>4. CASE Clear(p)
    <3>1. [Parsed(At(form, p)) EXCEPT !.url = Empty] \in Value
      BY <2>2, FieldsAssumption DEF Value, Object
    <3> QED
      BY <2>4, <3>1 DEF Clear
  <2> QED
    BY <2>3, <2>4
<1>3. form' \in Form /\ (~new => form'.plain = form.plain)
  BY <1>1, <1>2, StoredOK DEF StateOK
<1>4. UNCHANGED <<kind, new, chosen>> /\ edits' = edits + 1
  BY <1>2 DEF Edit
<1> QED
  BY <1>1, <1>2, <1>3, <1>4 DEF IInv, StateOK, UploadsOK, TextIsKept

LEMMA ListEditsKeep ==
  ASSUME IInv, \/ AddItem
               \/ \E i \in 1..MaxItems : RemoveItem(i) \/ Toggle(i)
               \/ \E i, j \in 1..MaxItems : Drag(i, j)
  PROVE  IInv'
<1>1. StateOK /\ UploadsOK /\ TextIsKept /\ form \in Form /\ form.list \in Lists
      /\ MaxItems \in Nat
  BY FormsOfLists, FieldsAssumption DEF IInv, StateOK
<1>2. /\ UNCHANGED <<kind, new, chosen, typed>> /\ edits' = edits + 1 /\ edits \in Nat
  BY <1>1 DEF AddItem, RemoveItem, Toggle, Drag, Edit, StateOK
<1>3. ASSUME form' = form \/ (\E list \in Lists : form' = [form EXCEPT !.list = list]),
             expanded' \in 0..MaxItems, UploadsOK'
      PROVE  IInv'
  <2>1. form' \in Form /\ form'.plain = form.plain
    BY <1>1, <1>3, FormsOfLists
  <2> QED
    BY <1>1, <1>2, <1>3, <2>1 DEF IInv, StateOK, TextIsKept
<1>4. uploads' = uploads => UploadsOK'
  BY <1>1 DEF UploadsOK
<1>5. CASE AddItem
  <2> DEFINE v == IF kind = "compound" THEN Parsed(Unset) ELSE Unset
             list == Append(form.list, v)
  <2>1. v \in Value
    BY FieldsAssumption DEF Parsed, Value, Object
  <2>2. /\ form' = [form EXCEPT !.list = list] /\ Len(form.list) < MaxItems
        /\ expanded' = IF kind = "simple" THEN 0 ELSE Len(form'.list)
        /\ uploads' = uploads
    BY <1>5 DEF AddItem
  <2> HIDE DEF v
  <2>3. list \in Lists /\ Len(list) \in 0..MaxItems
    BY <1>1, <2>1, <2>2, AppendOK
  <2> HIDE DEF list
  <2>4. form'.list = list
    BY <1>1, <2>2, FormsOfLists
  <2> QED
    BY <1>1, <1>3, <1>4, <2>2, <2>3, <2>4
<1>6. ASSUME NEW i \in 1..MaxItems, RemoveItem(i)
      PROVE  IInv'
  <2>1. /\ form' = [form EXCEPT !.list = RemoveAt(form.list, i)] /\ i \in DOMAIN form.list
        /\ expanded' = 0
        /\ uploads' = Surviving(Following(uploads, AfterRemoval(i)), form'.list)
    BY <1>6 DEF RemoveItem, Items
  <2>2. RemoveAt(form.list, i) \in Lists
    BY <1>1, <2>1, RemoveOK
  <2>3. AfterRemoval(i) \in [Place -> Place]
    BY PlacesOK
  <2>4. \A u \in Following(uploads, AfterRemoval(i)) : u \in Uploads /\ Had(u)
    BY <1>1, <2>3, FollowingOK DEF UploadsOK
  <2>5. UploadsOK'
    BY <2>1, <2>4, SurvivingOK DEF UploadsOK
  <2> QED
    BY <1>1, <1>3, <2>1, <2>2, <2>5
<1>7. ASSUME NEW i \in 1..MaxItems, Toggle(i)
      PROVE  IInv'
  BY <1>1, <1>3, <1>4, <1>7 DEF Toggle
<1>8. ASSUME NEW i \in 1..MaxItems, NEW j \in 1..MaxItems, Drag(i, j)
      PROVE  IInv'
  <2>1. /\ form' = [form EXCEPT !.list = Moved(form.list, i, j)]
        /\ i \in DOMAIN form.list /\ j \in DOMAIN form.list
        /\ expanded' = 0 /\ uploads' = Following(uploads, AfterDrag(i, j))
    BY <1>8 DEF Drag, Items
  <2>2. Moved(form.list, i, j) \in Lists
    BY <1>1, <2>1, MovedOK
  <2>3. AfterDrag(i, j) \in [Place -> Place]
    BY PlacesOK
  <2>4. UploadsOK'
    BY <1>1, <2>1, <2>3, FollowingOK DEF UploadsOK
  <2> QED
    BY <1>1, <1>3, <2>1, <2>2, <2>4
<1> QED
  BY <1>5, <1>6, <1>7, <1>8

LEMMA ChooseKeeps ==
  ASSUME IInv, NEW p \in Place, ChooseFile(p)
  PROVE  IInv'
<1> DEFINE u == [id |-> chosen, place |-> p, now |-> p, base |-> form, mounted |-> TRUE]
<1>1. StateOK /\ UploadsOK /\ TextIsKept
  BY DEF IInv
<1>2. u \in Uploads /\ u.place = p /\ u.base = form
  BY <1>1 DEF StateOK, Uploads
<1>3. /\ uploads' = uploads \cup {u} /\ chosen' = chosen + 1
      /\ UNCHANGED <<kind, new, form, expanded, edits, typed>>
      /\ p = TheObject \/ p \in DOMAIN form.list
  BY DEF ChooseFile, Open, Present, Items
<1> HIDE DEF u
<1>4. UploadsOK'
  BY <1>1, <1>2, <1>3 DEF UploadsOK, Had
<1> QED
  BY <1>1, <1>3, <1>4 DEF IInv, StateOK, TextIsKept

\* The answer of an upload writes a value at the place it was chosen for.
LEMMA ReceiveFacts ==
  ASSUME StateOK, UploadsOK, NEW u \in uploads, NEW url \in Urls, ReceiveUpload(u, url)
  PROVE  /\ form' \in Form
         /\ ~new => \E v \in Value : form' = Written(u.base, form, kind, u.place, v)
         /\ ~new => form'.plain = form.plain
<1>1. u \in Uploads /\ Had(u) /\ u.base \in Form /\ u.place \in Place
  BY DEF UploadsOK, Uploads
<1> DEFINE v == Uploaded(u, url)
<1>2. v \in Value
  <2>1. Parsed(At(u.base, u.place)) \in Object
    BY <1>1, ParsedOK DEF Had
  <2> QED
    BY <2>1 DEF Uploaded, Value, Object
<1>3. form' = Stored(u.base, form, kind, new, u.place, v)
  BY DEF ReceiveUpload
<1> HIDE DEF v
<1> QED
  BY <1>1, <1>2, <1>3, StoredOK DEF StateOK

LEMMA UploadsKeep ==
  ASSUME IInv, NEW u \in uploads,
         UploadFails(u) \/ \E url \in Urls \ {Empty} : ReceiveUpload(u, url)
  PROVE  IInv'
<1>1. StateOK /\ UploadsOK /\ TextIsKept
  BY DEF IInv
<1>2. UNCHANGED <<kind, new, expanded, edits, chosen, typed>>
  BY DEF UploadFails, ReceiveUpload
<1>3. CASE UploadFails(u)
  BY <1>1, <1>2, <1>3 DEF UploadFails, IInv, StateOK, UploadsOK, TextIsKept
<1>4. ASSUME NEW url \in Urls \ {Empty}, ReceiveUpload(u, url)
      PROVE  IInv'
  <2>1. form' \in Form /\ (~new => form'.plain = form.plain)
    BY <1>1, <1>4, ReceiveFacts
  <2>2. UploadsOK'
    <3>1. uploads' = Surviving(uploads \ {u}, form'.list)
      BY <1>4 DEF ReceiveUpload
    <3> QED
      BY <1>1, <3>1, SurvivingOK DEF UploadsOK
  <2> QED
    BY <1>1, <1>2, <2>1, <2>2 DEF IInv, StateOK, TextIsKept
<1> QED
  BY <1>3, <1>4

LEMMA InitIInv == Init => IInv
<1> SUFFICES ASSUME Init
             PROVE  IInv
  OBVIOUS
<1>1. <<>> \in Lists
  <2>1. <<>> \in Seq(Value) /\ Len(<<>>) = 0 /\ MaxItems \in Nat
    BY EmptySeq, FieldsAssumption
  <2>2. Len(<<>>) <= MaxItems
    BY <2>1
  <2> QED
    BY <2>1, <2>2, ListsAreSequences
<1>2. form \in Form /\ form.plain = Empty
  BY <1>1, FormsOfLists, FieldsAssumption DEF Init, Value
<1> QED
  BY <1>2, FieldsAssumption DEF Init, IInv, StateOK, UploadsOK, TextIsKept

LEMMA NextIInv == IInv /\ [Next]_vars => IInv'
<1> SUFFICES ASSUME IInv, [Next]_vars
             PROVE  IInv'
  OBVIOUS
<1>1. ASSUME NEW t \in Texts, TypePlain(t)
      PROVE  IInv'
  <2>1. /\ form' = [form EXCEPT !.plain = t] /\ typed' = t /\ edits' = edits + 1
        /\ UNCHANGED <<kind, new, chosen, expanded, uploads>>
    BY <1>1 DEF TypePlain, Edit
  <2>2. form' \in Form /\ form'.plain = t
    BY <2>1, FormsOfLists DEF IInv, StateOK
  <2> QED
    BY <2>1, <2>2 DEF IInv, StateOK, UploadsOK, TextIsKept
<1>2. CASE \E p \in Place : (\E t \in Texts : TypeText(p, t)) \/ Clear(p)
  BY <1>2, EditsKeep
<1>3. CASE \E p \in Place : ChooseFile(p)
  BY <1>3, ChooseKeeps
<1>4. CASE AddItem \/ (\E i \in 1..MaxItems : RemoveItem(i) \/ Toggle(i))
           \/ (\E i, j \in 1..MaxItems : Drag(i, j))
  BY <1>4, ListEditsKeep
<1>5. CASE \E u \in uploads :
              UploadFails(u) \/ \E url \in Urls \ {Empty} : ReceiveUpload(u, url)
  BY <1>5, UploadsKeep
<1>6. CASE UNCHANGED vars
  BY <1>6 DEF vars, IInv, StateOK, UploadsOK, TextIsKept
<1> QED
  BY <1>1, <1>2, <1>3, <1>4, <1>5, <1>6 DEF Next

LEMMA Invariant == Spec => []IInv
BY InitIInv, NextIInv, PTL DEF Spec

-----------------------------------------------------------------------------

\* The editors keep the values' shapes, however arrays are edited while files
\* are on their way.
THEOREM TypeCorrect == Spec => []TypeOK
<1>1. IInv => TypeOK
  BY DEF IInv, StateOK, UploadsOK, Uploads, TypeOK
<1> QED
  BY <1>1, Invariant, PTL

\* On the page of an existing document no answer of an upload takes back what
\* was typed into another field after the file was chosen.
THEOREM TypedTextIsKept == Spec => []TextIsKept
<1>1. IInv => TextIsKept
  BY DEF IInv
<1> QED
  BY <1>1, Invariant, PTL

\* Writing a value at one place changes that place and no other.
LEMMA WrittenAtOnePlace ==
  ASSUME form \in Form, kind # "simple", NEW base, NEW p \in Place, NEW v,
         form' = Written(base, form, kind, p, v)
  PROVE  /\ Changed \subseteq {p} /\ DOMAIN form'.list = DOMAIN form.list
         /\ form'.plain = form.plain
<1>1. form.list \in Lists
  BY FormsOfLists
<1>2. CASE p = TheObject
  <2>1. form' = [form EXCEPT !.object = v]
    BY <1>2 DEF Written
  <2>2. form'.list = form.list /\ form'.plain = form.plain
    BY <2>1, FormsOfLists
  <2> QED
    BY <1>2, <2>2 DEF Changed, At
<1>3. CASE p # TheObject
  <2> DEFINE list == [j \in DOMAIN form.list |-> IF j = p THEN v ELSE form.list[j]]
  <2>1. form' = [form EXCEPT !.list = list]
    BY <1>3 DEF Written, ItemsWritten
  <2>2. DOMAIN list = DOMAIN form.list
        /\ \A q \in DOMAIN form.list : q # p => list[q] = form.list[q]
    OBVIOUS
  <2> HIDE DEF list
  <2>3. form'.list = list /\ form'.plain = form.plain /\ form'.object = form.object
    BY <2>1, FormsOfLists
  <2> QED
    BY <1>3, <2>2, <2>3 DEF Changed, At
<1> QED
  BY <1>2, <1>3

Reaches ==
    \A u \in uploads, url \in Urls :
       ReceiveUpload(u, url) /\ ~new /\ kind # "simple" =>
          /\ u.now = u.place => Changed \subseteq {u.now}
          /\ DOMAIN form'.list = DOMAIN form.list /\ form'.plain = form.plain

LEMMA AnswersReach == IInv => Reaches
<1> SUFFICES ASSUME IInv, NEW u \in uploads, NEW url \in Urls, ReceiveUpload(u, url),
                    ~new, kind # "simple"
             PROVE  /\ u.now = u.place => Changed \subseteq {u.now}
                    /\ DOMAIN form'.list = DOMAIN form.list /\ form'.plain = form.plain
  BY DEF Reaches
<1>1. StateOK /\ UploadsOK /\ form \in Form
  BY DEF IInv, StateOK
<1>2. PICK v \in Value : form' = Written(u.base, form, kind, u.place, v)
  BY <1>1, ReceiveFacts
<1>3. u.place \in Place
  BY <1>1 DEF UploadsOK, Uploads
<1>4. /\ Changed \subseteq {u.place} /\ DOMAIN form'.list = DOMAIN form.list
      /\ form'.plain = form.plain
  BY <1>1, <1>2, <1>3, WrittenAtOnePlace
<1> QED
  BY <1>4

\* In the compound and the nested array the answer of an upload writes the
\* object or, as long as the item its file was chosen for is at its index, that
\* item, brings no item back and loses none, for arrays of any length.
THEOREM AnswersReachWhatStayed == Spec => AnswersReachUnmovedItems
<1>1. Spec => [][Reaches]_vars
  BY Invariant, AnswersReach, PTL DEF Spec
<1> QED
  BY <1>1 DEF Reaches, AnswersReachUnmovedItems
=============================================================================
