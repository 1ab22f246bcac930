-------------------------- MODULE SchemaEditorProofs --------------------------
(***************************************************************************)
(* Proofs about SchemaEditor, for every set of schemas, whatever the user  *)
(* types, drags, imports and deletes, and however requests are delayed.    *)
(*                                                                         *)
(* IInv is about the server alone: what its checks leave true.  SyncInv    *)
(* adds the page's copies: a history h of the fields after each write      *)
(* whose answer is unread has the copies at its beginning and the server   *)
(* at its end.  ShownInv adds what is on screen, NamesInv the list of the  *)
(* schemas' names.  TypeInv, about every behaviour, is what the types rest *)
(* on.                                                                     *)
(***************************************************************************)
EXTENDS SchemaEditor, FiniteSetTheorems, SequenceTheorems, TLAPS

-----------------------------------------------------------------------------
(* The largest of finitely many numbers.                                   *)

LEMMA MaxFacts ==
  ASSUME NEW S \in SUBSET Int, IsFiniteSet(S), S # {}
  PROVE  Max(S) \in S /\ \A x \in S : Max(S) >= x
<1> DEFINE Above(x) == {y \in S : y > x}
           T == {Above(x) : x \in S}
<1>1. T \subseteq FiniteSubsetsOf(S) /\ T # {}
  <2>1. \A A \in SUBSET S : IsFiniteSet(A)
    BY FS_Subset
  <2> QED
    BY <2>1 DEF FiniteSubsetsOf
<1>2. PICK A \in T : \A B \in T : <<B, A>> \notin StrictSubsetOrdering(S)
  BY <1>1, FS_StrictSubsetOrderingWellFounded, WFMin
<1>3. PICK x \in S : A = Above(x)
  OBVIOUS
<1>4. ASSUME NEW y \in S, y > x
      PROVE  FALSE
  <2>1. Above(y) \subseteq Above(x) /\ y \in Above(x) /\ y \notin Above(y)
    <3>1. x \in Int /\ y \in Int /\ \A z \in S : z \in Int
      OBVIOUS
    <3>2. \A z \in S : z > y => z > x
      BY <1>4, <3>1
    <3>3. ~(y > y)
      BY <3>1
    <3> QED
      BY <1>4, <3>2, <3>3, Zenon
  <2>2. <<Above(y), Above(x)>> \in StrictSubsetOrdering(S)
    BY <2>1 DEF StrictSubsetOrdering
  <2> QED
    BY <1>2, <1>3, <2>2
<1>5. \A y \in S : x >= y
  BY <1>4
<1> QED
  BY <1>5 DEF Max

-----------------------------------------------------------------------------
(* The inductive invariant.                                                *)

\* A record of a field, whatever its display is.
IsRow(row) ==
    /\ row = [schema |-> row.schema, index |-> row.index, display |-> row.display]
    /\ row.index \in Int

RequestFields ==
    {"op", "id", "place", "schema", "change", "known", "last", "whole", "spoiled", "batch",
     "at", "row", "turn"}

\* A field that a PUT names keeps its id and schema; a created one has no id
\* until it is written.
IsRequest(r) ==
    /\ DOMAIN r = RequestFields
    /\ r.op \in {"create", "update", "delete"}
    /\ r.change.index \in Int \cup {None}
    /\ r.op = "create" /\ r.at \in {"sent", "checked"} => r.id = None
    /\ r.op # "create" /\ r.at = "checked" => r.id \in Ids
    /\ r.op # "delete" /\ r.at = "checked" => IsRow(r.row)

FieldsOK ==
    /\ fields = [id \in Ids |-> fields[id]]
    /\ \A id \in Stored(fields) : IsRow(fields[id])

RequestsOK == \A r \in requests : IsRequest(r)

\* Two rows of a schema that may not both be stored.
Collide(a, b) == a.schema = b.schema /\ (a.index = b.index \/ (a.display /\ b.display))

\* No two fields clash, and a row that was checked may still be written.
NoClash(fs) == \A a, b \in Stored(fs) : a # b => ~Collide(fs[a], fs[b])
Fits(r) ==
    r.at = "checked" /\ r.op # "delete" =>
        \A other \in Stored(fields) \ {r.id} : ~Collide(fields[other], r.row)

Checks == "overlap" \notin mishaps => NoClash(fields) /\ \A r \in requests : Fits(r)

IInv == FieldsOK /\ RequestsOK /\ Checks

-----------------------------------------------------------------------------
(* Steps that only send or drop requests.                                  *)

\* A request that is not with the server.
Outside(r) == IsRequest(r) /\ r.at # "checked"

LEMMA RequestsStep ==
  ASSUME IInv, UNCHANGED server, mishaps \subseteq mishaps',
         \A r \in requests' : r \in requests \/ Outside(r)
  PROVE  IInv'
<1>1. FieldsOK' /\ RequestsOK'
  BY DEF IInv, FieldsOK, RequestsOK, Outside, server, Stored
<1>2. Checks'
  BY DEF IInv, Checks, Outside, Fits, server, NoClash, Stored
<1> QED
  BY <1>1, <1>2 DEF IInv

LEMMA RequestFacts ==
  ASSUME NEW op \in {"create", "update", "delete"}, NEW id, NEW place, NEW change,
         change.index \in Int \cup {None}, op = "create" => id = None
  PROVE  /\ Outside(Request(op, id, place, change))
         /\ Outside([Request(op, id, place, change) EXCEPT !.whole = TRUE])
<1> DEFINE r == Request(op, id, place, change)
<1>1. DOMAIN r = RequestFields
  BY DEF Request, RequestFields
<1>2. r.op = op /\ r.id = id /\ r.change = change /\ r.at = "sent"
  BY DEF Request
<1> HIDE DEF r
<1>3. Outside(r)
  BY <1>1, <1>2 DEF Outside, IsRequest
<1> DEFINE q == [r EXCEPT !.whole = TRUE]
<1>4. DOMAIN q = RequestFields /\ q.op = op /\ q.id = id /\ q.change = change /\ q.at = "sent"
  BY <1>1, <1>2 DEF RequestFields
<1> HIDE DEF q
<1>5. Outside(q)
  BY <1>4 DEF Outside, IsRequest
<1> QED
  BY <1>3, <1>5 DEF q, r

LEMMA SendStep ==
  ASSUME IInv, NEW batch, Send(batch), UNCHANGED server, \A r \in batch : Outside(r)
  PROVE  IInv'
BY RequestsStep DEF Send

LEMMA NoChangeFacts ==
  /\ NoChange.index = None
  /\ \A d : [NoChange EXCEPT !.display = d].index = None
  /\ \A k \in Int : [NoChange EXCEPT !.index = k].index = k
BY DEF NoChange

LEMMA SaveKeeps == IInv /\ Save => IInv'
<1> SUFFICES ASSUME IInv, Save PROVE IInv'
  OBVIOUS
<1>1. \A r \in Saved(form) : Outside(r)
  <2>1. ASSUME NEW id, NEW d
        PROVE  Outside(Request("update", id, 0, [NoChange EXCEPT !.display = d]))
    BY RequestFacts, NoChangeFacts
  <2>2. ASSUME NEW k, NEW d
        PROVE  Outside(Request("create", None, k, [NoChange EXCEPT !.display = d]))
    BY RequestFacts, NoChangeFacts
  <2> QED
    BY <2>1, <2>2 DEF Saved
<1> QED
  BY <1>1, SendStep DEF Save

LEMMA DragKeeps ==
  ASSUME IInv, NEW i, NEW j, Drag(i, j)
  PROVE  IInv'
<1> DEFINE list == Part(Moved(Places(form), i, j), TRUE)
           moved == {k \in 1..Len(list) : list[k].index # k}
           batch == {Request("update", list[k].id, 0, [NoChange EXCEPT !.index = k]) : k \in moved}
<1>1. /\ UNCHANGED server
      /\ Send(batch) \/ UNCHANGED <<requests, sent, mishaps>>
  BY DEF Drag
<1>2. \A r \in batch : Outside(r)
  <2>1. ASSUME NEW id, NEW k \in Int
        PROVE  Outside(Request("update", id, 0, [NoChange EXCEPT !.index = k]))
    BY RequestFacts, NoChangeFacts
  <2>2. moved \subseteq Int
    <3> HIDE DEF list
    <3> QED
      OBVIOUS
  <2> HIDE DEF list, moved
  <2> QED
    BY <2>1, <2>2
<1> HIDE DEF batch
<1>3. CASE Send(batch)
  BY <1>1, <1>2, <1>3, SendStep
<1>4. CASE UNCHANGED <<requests, sent, mishaps>>
  BY <1>1, <1>4, RequestsStep
<1> QED
  BY <1>1, <1>3, <1>4

LEMMA DeleteEntryKeeps ==
  ASSUME IInv, NEW k, DeleteEntry(k)
  PROVE  IInv'
<1> DEFINE r == Request("delete", form.shown[k].id, 0, NoChange)
<1>1. Outside(r)
  BY RequestFacts, NoChangeFacts
<1>2. Send({r}) /\ UNCHANGED server
  BY DEF DeleteEntry
<1> HIDE DEF r
<1> QED
  BY <1>1, <1>2, SendStep

LEMMA DeleteSchemaKeeps == IInv /\ DeleteSchema => IInv'
<1> SUFFICES ASSUME IInv, DeleteSchema PROVE IInv'
  OBVIOUS
<1> DEFINE batch == {[Request("delete", form.shown[k].id, k, NoChange) EXCEPT !.whole = TRUE] :
                        k \in DOMAIN form.shown}
<1>1. \A r \in batch : Outside(r)
  BY RequestFacts, NoChangeFacts
<1>2. Send(batch) /\ UNCHANGED server
  BY DEF DeleteSchema
<1> HIDE DEF batch
<1> QED
  BY <1>1, <1>2, SendStep

LEMMA UserStepKeeps == IInv /\ UserStep => IInv'
<1> SUFFICES ASSUME IInv, UserStep PROVE IInv'
  OBVIOUS
<1>1. ASSUME UNCHANGED <<server, requests, mishaps>> PROVE IInv'
  BY <1>1, RequestsStep
<1>2. ASSUME NEW s, Navigate(s) PROVE IInv'
  BY <1>1, <1>2 DEF Navigate
<1>3. ASSUME NEW k, Edit(k) PROVE IInv'
  BY <1>1, <1>3 DEF Edit
<1>4. CASE AddEntry
  BY <1>1, <1>4 DEF AddEntry
<1>5. ASSUME NEW k, EditAdded(k) \/ RemoveAdded(k) PROVE IInv'
  BY <1>1, <1>5 DEF EditAdded, RemoveAdded
<1>6. ASSUME NEW file, Import(file) PROVE IInv'
  BY <1>1, <1>6 DEF Import
<1> QED
  BY <1>2, <1>3, <1>4, <1>5, <1>6, SaveKeeps, DragKeeps, DeleteEntryKeeps, DeleteSchemaKeeps
  DEF UserStep

LEMMA QueryStepKeeps == IInv /\ QueryStep => IInv'
<1> SUFFICES ASSUME IInv, QueryStep PROVE IInv'
  OBVIOUS
<1>1. UNCHANGED <<server, requests>> /\ mishaps \subseteq mishaps'
  BY DEF QueryStep, Focus, ServeFetch, ReceiveNames, ReceiveList
<1> QED
  BY <1>1, RequestsStep

-----------------------------------------------------------------------------
(* The server's threads.                                                   *)

LEMMA NextIndexFacts ==
  ASSUME FieldsOK, NEW s
  PROVE  /\ NextIndex(fields, s) \in Int /\ NextIndex(fields, s) > 0
         /\ \A id \in FieldsOf(fields, s) : fields[id].index < NextIndex(fields, s)
<1> DEFINE F == FieldsOf(fields, s)
           f == [id \in F |-> fields[id].index]
           S == {fields[id].index : id \in F}
<1>1. IsFiniteSet(F)
  <2>1. StartFields \in Int /\ MaxRequests \in Int
    BY SchemaAssumption
  <2>2. IsFiniteSet(Ids) /\ F \subseteq Ids
    BY <2>1, FS_Interval DEF Ids, FieldsOf, Stored
  <2> QED
    BY <2>2, FS_Subset
<1>2. S \subseteq Int
  BY DEF FieldsOK, IsRow, FieldsOf
<1>3. f \in Surjection(F, S)
  BY DEF Surjection
<1>4. IsFiniteSet(S)
  BY <1>1, <1>3, FS_Surjection
<1>5. IsFiniteSet(S \cup {0})
  BY <1>4, FS_AddElement
<1>6. S \cup {0} \subseteq Int
  BY <1>2
<1>7. Max(S \cup {0}) \in S \cup {0} /\ \A x \in S \cup {0} : Max(S \cup {0}) >= x
  BY <1>5, <1>6, MaxFacts
<1> DEFINE top == Max(S \cup {0})
<1>8. /\ NextIndex(fields, s) = top + 1 /\ top \in Int /\ top >= 0
      /\ \A x \in S : x \in Int /\ top >= x
  BY <1>2, <1>6, <1>7 DEF NextIndex
<1>9. \A id \in F : fields[id].index \in S
  OBVIOUS
<1> HIDE DEF top, S, F
<1>10. \A id \in F : fields[id].index < top + 1
  BY <1>8, <1>9
<1> QED
  BY <1>8, <1>10 DEF F

LEMMA CheckKeeps ==
  ASSUME IInv, NEW r \in requests, Check(r)
  PROVE  IInv'
<1>1. IsRequest(r) /\ r.at = "sent" /\ UNCHANGED server
  BY DEF IInv, RequestsOK, Check
<1>2. CASE Refused(r)
  <2> DEFINE q == [r EXCEPT !.at = "failed"]
  <2>1. Outside(q)
    BY <1>1 DEF IsRequest, Outside
  <2>2. requests' = (requests \ {r}) \cup {q} /\ mishaps \subseteq mishaps'
    BY <1>2 DEF Check
  <2> QED
    BY <1>1, <2>1, <2>2, RequestsStep
<1>3. CASE ~Refused(r)
  <2> DEFINE row == IF r.op = "delete" THEN None ELSE Checked(r)
             q == [r EXCEPT !.at = "checked", !.row = row]
  <2>1. requests' = (requests \ {r}) \cup {q} /\ mishaps' = mishaps
    BY <1>3 DEF Check
  <2>2. r.op # "create" => r.id \in Stored(fields)
    BY <1>3 DEF Refused
  <2>3. r.op # "delete" => IsRow(row)
    <3>1. CASE r.op = "create"
      BY <1>1, <3>1, NextIndexFacts DEF Checked, IsRow, IInv
    <3>2. CASE r.op = "update"
      <4>1. IsRow(fields[r.id])
        BY <2>2, <3>2 DEF IInv, FieldsOK
      <4> QED
        BY <1>1, <3>2, <4>1 DEF Checked, IsRow, IsRequest
    <3> QED
      BY <1>1, <3>1, <3>2 DEF IsRequest
  <2>4. r.op # "delete" => \A other \in Stored(fields) \ {r.id} : ~Collide(fields[other], row)
    BY <1>3 DEF Refused, Conflicts, Collide, FieldsOf
  <2> HIDE DEF row
  <2>5. /\ q.op = r.op /\ q.id = r.id /\ q.at = "checked" /\ q.row = row
        /\ IsRequest(q)
    <3> DEFINE p == [r EXCEPT !.at = "checked"]
    <3>1. /\ DOMAIN p = RequestFields /\ p.op = r.op /\ p.id = r.id /\ p.change = r.change
          /\ p.at = "checked"
      BY <1>1 DEF IsRequest, RequestFields
    <3>2. q = [p EXCEPT !.row = row]
      BY <1>1 DEF IsRequest
    <3> HIDE DEF p, q
    <3>3. /\ DOMAIN q = RequestFields /\ q.op = r.op /\ q.id = r.id /\ q.change = r.change
          /\ q.at = "checked" /\ q.row = row
      BY <3>1, <3>2 DEF RequestFields
    <3> QED
      BY <1>1, <2>2, <2>3, <3>3 DEF IsRequest, Stored
  <2> HIDE DEF q
  <2>6. Fits(q)
    BY <2>4, <2>5 DEF Fits
  <2>7. FieldsOK' /\ RequestsOK'
    BY <1>1, <2>1, <2>5 DEF IInv, FieldsOK, RequestsOK, server, Stored
  <2>8. Checks'
    BY <1>1, <2>1, <2>6 DEF IInv, Checks, Fits, NoClash, server, Stored
  <2> QED
    BY <2>7, <2>8 DEF IInv
<1> QED
  BY <1>2, <1>3

\* A deleted field's successors move up, and stay apart.
LEMMA WithoutFieldFacts ==
  ASSUME FieldsOK, NEW id \in Stored(fields)
  PROVE  LET fs == WithoutField(fields, id)
         IN  /\ fs = [k \in Ids |-> fs[k]]
             /\ \A k \in Stored(fs) : IsRow(fs[k])
             /\ NoClash(fields) => NoClash(fs)
<1> DEFINE fs == WithoutField(fields, id)
           up(k) == fields[k].schema = fields[id].schema /\ fields[k].index > fields[id].index
<1>1. fs = [k \in Ids |-> fs[k]]
  BY DEF WithoutField
<1>2. ASSUME NEW k \in Stored(fs)
      PROVE  /\ k \in Stored(fields) /\ k # id /\ IsRow(fields[k]) /\ IsRow(fs[k])
             /\ fs[k].schema = fields[k].schema /\ fs[k].display = fields[k].display
             /\ fs[k].index = IF up(k) THEN fields[k].index - 1 ELSE fields[k].index
  <2>1. k \in Ids /\ k # id /\ fs[k] # None
    BY DEF Stored, WithoutField
  <2>2. fs[k] = IF k \in FieldsOf(fields, fields[id].schema) /\ fields[k].index > fields[id].index
                THEN [fields[k] EXCEPT !.index = @ - 1] ELSE fields[k]
    BY <2>1 DEF WithoutField
  <2>3. k \in Stored(fields)
    BY <2>1, <2>2 DEF FieldsOf, Stored
  <2>4. IsRow(fields[k])
    BY <2>3 DEF FieldsOK
  <2>5. k \in FieldsOf(fields, fields[id].schema) <=> fields[k].schema = fields[id].schema
    BY <2>3 DEF FieldsOf
  <2> HIDE DEF fs
  <2> QED
    BY <2>1, <2>2, <2>3, <2>4, <2>5 DEF IsRow
<1>3. IsRow(fields[id])
  BY DEF FieldsOK
<1> HIDE DEF fs
<1>4. ASSUME NoClash(fields), NEW a \in Stored(fs), NEW b \in Stored(fs), a # b
      PROVE  ~Collide(fs[a], fs[b])
  <2>1. /\ ~Collide(fields[a], fields[b]) /\ ~Collide(fields[a], fields[id])
        /\ ~Collide(fields[b], fields[id])
    BY <1>2, <1>4 DEF NoClash
  <2>2. /\ fields[a].index \in Int /\ fields[b].index \in Int /\ fields[id].index \in Int
    BY <1>2, <1>3 DEF IsRow
  <2>3. fs[a].schema = fs[b].schema => fs[a].index # fs[b].index
    BY <1>2, <2>1, <2>2 DEF Collide
  <2>4. fs[a].schema = fs[b].schema => ~(fs[a].display /\ fs[b].display)
    BY <1>2, <2>1 DEF Collide
  <2> QED
    BY <2>3, <2>4 DEF Collide
<1> QED
  BY <1>1, <1>2, <1>4 DEF NoClash, fs

LEMMA WriteKeeps ==
  ASSUME IInv, NEW r \in requests, Write(r)
  PROVE  IInv'
<1> DEFINE id == IF r.op = "create" THEN made + 1 ELSE r.id
           q == [r EXCEPT !.at = "done", !.id = id,
                          !.turn = Max({x.turn : x \in Unread} \cup {0}) + 1]
<1>1. /\ IsRequest(r) /\ r.at = "checked" /\ FieldsOK
      /\ fields' = CASE r.op # "delete" -> [fields EXCEPT ![id] = r.row]
                     [] r.op = "delete" /\ id \in Stored(fields) -> WithoutField(fields, id)
                     [] OTHER -> fields
      /\ requests' = (requests \ {r}) \cup {q}
      /\ mishaps \subseteq mishaps'
      /\ (\E x \in requests \ {r} : x.at = "checked") => "overlap" \in mishaps'
  BY DEF IInv, RequestsOK, Write
<1>2. Outside(q)
  <2> DEFINE p == [r EXCEPT !.at = "done"]
             turn == Max({x.turn : x \in Unread} \cup {0}) + 1
  <2>1. /\ DOMAIN p = RequestFields /\ p.op = r.op /\ p.change = r.change /\ p.at = "done"
    BY <1>1 DEF IsRequest, RequestFields
  <2>2. q = [p EXCEPT !.id = id, !.turn = turn]
    BY <1>1 DEF IsRequest
  <2> HIDE DEF p, q, id, turn
  <2>3. /\ DOMAIN q = RequestFields /\ q.op = r.op /\ q.change = r.change /\ q.at = "done"
    BY <2>1, <2>2 DEF RequestFields
  <2> QED
    BY <1>1, <2>3 DEF IsRequest, Outside
<1> HIDE DEF q
<1>3. RequestsOK'
  BY <1>1, <1>2 DEF IInv, RequestsOK, Outside
<1>4. "overlap" \notin mishaps' => \A x \in requests' : Fits(x)'
  BY <1>1, <1>2 DEF Outside, Fits
<1>5. CASE r.op # "delete"
  <2>1. fields' = [fields EXCEPT ![id] = r.row] /\ IsRow(r.row)
    BY <1>1, <1>5 DEF IsRequest
  <2>2. /\ \A k \in Stored(fields') : k \in Ids
        /\ \A k \in Stored(fields') : k = id => fields'[k] = r.row
        /\ \A k \in Stored(fields') : k # id => k \in Stored(fields) /\ fields'[k] = fields[k]
    BY <1>1, <2>1 DEF FieldsOK, Stored
  <2>3. FieldsOK'
    BY <1>1, <2>1, <2>2 DEF FieldsOK
  <2>4. ASSUME "overlap" \notin mishaps', NEW a \in Stored(fields'), NEW b \in Stored(fields'), a # b
        PROVE  ~Collide(fields'[a], fields'[b])
    <3>1. NoClash(fields) /\ Fits(r)
      BY <1>1, <2>4 DEF IInv, Checks
    <3>2. \A other \in Stored(fields) : other # id => ~Collide(fields[other], r.row)
      <4>1. r.op = "create" => \A other \in Stored(fields) : other # r.id
        BY <1>1, NoneAssumption DEF IsRequest, Stored
      <4> QED
        BY <1>1, <1>5, <3>1, <4>1 DEF Fits
    <3> QED
      BY <2>2, <2>4, <3>1, <3>2 DEF NoClash, Collide
  <2> QED
    BY <1>3, <1>4, <2>3, <2>4 DEF IInv, Checks, NoClash
<1>6. CASE r.op = "delete" /\ id \in Stored(fields)
  <2>1. fields' = WithoutField(fields, id)
    BY <1>1, <1>6
  <2>2. FieldsOK' /\ (NoClash(fields) => NoClash(fields'))
    BY <1>1, <1>6, <2>1, WithoutFieldFacts DEF FieldsOK
  <2> QED
    BY <1>1, <1>3, <1>4, <2>2 DEF IInv, Checks, NoClash
<1>7. CASE r.op = "delete" /\ id \notin Stored(fields)
  <2>1. fields' = fields
    BY <1>1, <1>7
  <2> QED
    BY <1>1, <1>3, <1>4, <2>1 DEF IInv, Checks, NoClash, FieldsOK, Stored
<1> QED
  BY <1>5, <1>6, <1>7

-----------------------------------------------------------------------------
(* Answers.                                                                *)

LEMMA AnswersKeep ==
  ASSUME IInv, NEW r \in requests, Receive(r) \/ ReceiveFailure(r) \/ Lose(r)
  PROVE  IInv'
<1>1. CASE Receive(r)
  BY <1>1, RequestsStep DEF Receive
<1>2. CASE ReceiveFailure(r)
  <2>1. /\ UNCHANGED server /\ mishaps' = mishaps
        /\ requests' = {[q EXCEPT !.spoiled = @ \/ (q.batch = r.batch /\ r.whole)] : q \in requests \ {r}}
    BY <1>2 DEF ReceiveFailure
  <2>2. ASSUME NEW q \in requests, NEW b
        PROVE  /\ IsRequest([q EXCEPT !.spoiled = b])
               /\ Fits([q EXCEPT !.spoiled = b]) <=> Fits(q)
    BY DEF IInv, RequestsOK, IsRequest, Fits
  <2>3. FieldsOK' /\ RequestsOK'
    BY <2>1, <2>2 DEF IInv, FieldsOK, RequestsOK, server, Stored
  <2>4. \A q \in requests' : (\A x \in requests : Fits(x)) => Fits(q)
    BY <2>1, <2>2
  <2>5. Checks'
    BY <2>1, <2>4 DEF IInv, Checks, Fits, NoClash, server, Stored
  <2> QED
    BY <2>3, <2>5 DEF IInv
<1>3. CASE Lose(r)
  <2> DEFINE q == [r EXCEPT !.at = "failed"]
  <2>1. Outside(q)
    BY DEF IInv, RequestsOK, IsRequest, Outside
  <2>2. requests' = (requests \ {r}) \cup {q} /\ mishaps \subseteq mishaps' /\ UNCHANGED server
    BY <1>3 DEF Lose
  <2> QED
    BY <2>1, <2>2, RequestsStep
<1> QED
  BY <1>1, <1>2, <1>3

LEMMA RequestStepKeeps == IInv /\ RequestStep => IInv'
BY CheckKeeps, WriteKeeps, AnswersKeep DEF RequestStep

-----------------------------------------------------------------------------
(* The invariant, and what follows from it.                                *)

LEMMA InitHolds == Init => IInv
<1> SUFFICES ASSUME Init PROVE IInv
  OBVIOUS
<1> DEFINE first(id) == id = 1
<1>1. /\ fields = [id \in Ids |-> IF id > StartFields THEN None
                                  ELSE [schema |-> Existing, index |-> id, display |-> first(id)]]
      /\ requests = {}
  BY DEF Init
<1>2. \A a, b : first(a) /\ first(b) => a = b
  OBVIOUS
<1> HIDE DEF first
<1>3. ASSUME NEW id \in Stored(fields)
      PROVE  id \in Int /\ fields[id] = [schema |-> Existing, index |-> id, display |-> first(id)]
  BY <1>1 DEF Stored, Ids
<1>4. ASSUME NEW id \in Stored(fields)
      PROVE  /\ id \in Int /\ IsRow(fields[id])
             /\ fields[id].index = id /\ (fields[id].display => first(id))
  <2>1. id \in Int /\ fields[id] = [schema |-> Existing, index |-> id, display |-> first(id)]
    BY <1>3
  <2> QED
    BY <2>1 DEF IsRow
<1>5. FieldsOK
  BY <1>1, <1>4 DEF FieldsOK
<1>6. NoClash(fields)
  BY <1>2, <1>4 DEF NoClash, Collide
<1> QED
  BY <1>1, <1>5, <1>6 DEF IInv, RequestsOK, Checks

LEMMA NextKeeps == IInv /\ [Next]_vars => IInv'
<1>1. IInv /\ UNCHANGED vars => IInv'
  BY RequestsStep DEF vars
<1> QED
  BY <1>1, UserStepKeeps, RequestStepKeeps, QueryStepKeeps DEF Next

LEMMA InvariantHolds == Spec => []IInv
BY InitHolds, NextKeeps, PTL DEF Spec

\* As long as no handler writes between another's check and write, every
\* schema's indexes and its display name are one field's each, however many
\* requests the server checked, refused, and served late.
THEOREM ClashesNeedAnOverlap == Spec => []FieldsClashOnlyAfterOverlap
<1>1. IInv => FieldsClashOnlyAfterOverlap
  BY DEF IInv, Checks, NoClash, Collide, FieldsClashOnlyAfterOverlap, Clash, FieldsOf
<1> QED
  BY <1>1, InvariantHolds, PTL

-----------------------------------------------------------------------------
(* Lists by rank.                                                          *)

StrictOrder(S, R) ==
    /\ \A x \in S : <<x, x>> \notin R
    /\ \A x, y, z \in S : <<x, y>> \in R /\ <<y, z>> \in R => <<x, z>> \in R
    /\ \A x, y \in S : x = y \/ <<x, y>> \in R \/ <<y, x>> \in R

\* All elements of a finite set, each once.
LEMMA InOrderFacts ==
  ASSUME NEW S, IsFiniteSet(S), NEW R, StrictOrder(S, R)
  PROVE  /\ Cardinality(S) \in Nat
         /\ InOrder(S, R) \in [1..Cardinality(S) -> S]
         /\ \A i, j \in 1..Cardinality(S) : InOrder(S, R)[i] = InOrder(S, R)[j] => i = j
         /\ \A x \in S : \E k \in 1..Cardinality(S) : InOrder(S, R)[k] = x
<1> DEFINE n == Cardinality(S)
           Below(x) == {y \in S : <<y, x>> \in R}
           f == [x \in S |-> Cardinality(Below(x)) + 1]
<1>1. n \in Nat
  BY FS_CardinalityType
<1>2. ASSUME NEW x \in S
      PROVE  IsFiniteSet(Below(x)) /\ Cardinality(Below(x)) \in 0..(n - 1)
  <2>1. Below(x) \subseteq S \ {x}
    BY DEF StrictOrder
  <2>2. IsFiniteSet(S \ {x}) /\ Cardinality(S \ {x}) = n - 1
    BY FS_RemoveElement
  <2> DEFINE T == S \ {x}
  <2>3. IsFiniteSet(Below(x)) /\ Cardinality(Below(x)) <= n - 1
    <3>1. IsFiniteSet(T) /\ Cardinality(T) = n - 1 /\ Below(x) \in SUBSET T
      BY <2>1, <2>2
    <3> HIDE DEF T, n, Below
    <3> QED
      BY <3>1, FS_Subset
  <2>4. Cardinality(Below(x)) \in Nat
    BY <2>3, FS_CardinalityType
  <2> QED
    BY <1>1, <2>3, <2>4
<1>3. ASSUME NEW x \in S, NEW y \in S, <<x, y>> \in R
      PROVE  Cardinality(Below(x)) < Cardinality(Below(y))
  <2>1. Below(x) \cup {x} \subseteq Below(y) /\ x \notin Below(x)
    BY <1>3 DEF StrictOrder
  <2>2. IsFiniteSet(Below(x) \cup {x}) /\ Cardinality(Below(x) \cup {x}) = Cardinality(Below(x)) + 1
    BY <1>2, <2>1, FS_AddElement
  <2>3. Cardinality(Below(x) \cup {x}) <= Cardinality(Below(y))
    BY <1>2, <2>1, FS_Subset
  <2> DEFINE a == Cardinality(Below(x))
             b == Cardinality(Below(y))
  <2>4. a \in Int /\ b \in Int
    <3>1. IsFiniteSet(Below(x)) /\ IsFiniteSet(Below(y))
      BY <1>2
    <3> HIDE DEF Below
    <3> QED
      BY <3>1, FS_CardinalityType
  <2>5. a + 1 <= b
    BY <2>2, <2>3
  <2> HIDE DEF a, b
  <2>6. a < b
    BY <2>4, <2>5
  <2> QED
    BY <2>6 DEF a, b
<1> HIDE DEF Below
<1>4. ASSUME NEW x \in S, NEW y \in S, Cardinality(Below(x)) = Cardinality(Below(y))
      PROVE  x = y
  <2>1. Cardinality(Below(x)) \in Int /\ Cardinality(Below(y)) \in Int
    BY <1>2
  <2>2. ~(<<x, y>> \in R) /\ ~(<<y, x>> \in R)
    BY <1>3, <1>4, <2>1
  <2> QED
    BY <2>2 DEF StrictOrder
<1>5. f \in Injection(S, 1..n)
  <2>1. \A x \in S : f[x] \in 1..n
    BY <1>1, <1>2
  <2>2. \A x, y \in S : f[x] = f[y] => x = y
    BY <1>2, <1>4
  <2> QED
    BY <2>1, <2>2 DEF Injection, IsInjective
<1>6. f \in Surjection(S, 1..n)
  <2>1. IsFiniteSet(1..n) /\ Cardinality(1..n) = n
    BY <1>1, FS_Interval
  <2> QED
    BY <1>5, <2>1, FS_Injection
<1>7. ASSUME NEW k \in 1..n
      PROVE  /\ InOrder(S, R)[k] \in S
             /\ Cardinality(Below(InOrder(S, R)[k])) = k - 1
  <2>1. PICK x \in S : f[x] = k
    BY <1>6 DEF Surjection
  <2>2. Cardinality(Below(x)) = k - 1
    BY <1>2, <2>1
  <2>3. InOrder(S, R)[k] = CHOOSE y \in S : Cardinality(Below(y)) = k - 1
    BY DEF InOrder, Below
  <2> QED
    BY <2>2, <2>3
<1>8. InOrder(S, R) \in [1..n -> S]
  BY <1>7 DEF InOrder
<1>9. \A i, j \in 1..n : InOrder(S, R)[i] = InOrder(S, R)[j] => i = j
  BY <1>7
<1>10. ASSUME NEW x \in S
       PROVE  \E k \in 1..n : InOrder(S, R)[k] = x
  <2>1. f[x] \in 1..n /\ Cardinality(Below(x)) = f[x] - 1
    BY <1>1, <1>2
  <2> QED
    BY <1>4, <1>7, <2>1
<1> QED
  BY <1>1, <1>8, <1>9, <1>10

\* list is a list.
IsList(list) == Len(list) \in Nat /\ list = [k \in 1..Len(list) |-> list[k]]

LEMMA PlacesOrdered ==
  ASSUME NEW P, P \subseteq Int
  PROVE  StrictOrder(P, {p \in P \X P : p[1] < p[2]})
BY DEF StrictOrder

\* What is kept is at the places P, each once.
LEMMA KeptFacts ==
  ASSUME NEW list, IsList(list), NEW P \in SUBSET (DOMAIN list)
  PROVE  /\ IsList(Kept(list, P))
         /\ Len(Kept(list, P)) = Cardinality(P)
         /\ \E at \in [1..Len(Kept(list, P)) -> P] :
               /\ \A k \in 1..Len(Kept(list, P)) : Kept(list, P)[k] = list[at[k]]
               /\ \A i, j \in 1..Len(Kept(list, P)) : at[i] = at[j] => i = j
               /\ \A x \in P : \E k \in 1..Len(Kept(list, P)) : at[k] = x
<1> DEFINE n == Cardinality(P)
           R == {p \in P \X P : p[1] < p[2]}
           at == InOrder(P, R)
<1>1. P \subseteq 1..Len(list) /\ Len(list) \in Nat
  BY DEF IsList
<1>2. IsFiniteSet(P) /\ P \subseteq Int
  <2>1. IsFiniteSet(1..Len(list))
    BY <1>1, FS_Interval
  <2> QED
    BY <1>1, <2>1, FS_Subset
<1>3. /\ n \in Nat /\ at \in [1..n -> P]
      /\ \A i, j \in 1..n : at[i] = at[j] => i = j
      /\ \A x \in P : \E k \in 1..n : at[k] = x
  <2>1. StrictOrder(P, R)
    BY <1>2, PlacesOrdered
  <2> HIDE DEF R
  <2> QED
    BY <1>2, <2>1, InOrderFacts
<1>4. Kept(list, P) = [k \in DOMAIN at |-> list[at[k]]]
  BY DEF Kept
<1> HIDE DEF at, n
<1>5. Kept(list, P) = [k \in 1..n |-> list[at[k]]]
  BY <1>3, <1>4
<1>6. Len(Kept(list, P)) = n
  BY <1>3, <1>5
<1> QED
  BY <1>3, <1>5, <1>6 DEF IsList, n

-----------------------------------------------------------------------------
(* Lists of fields.                                                        *)

FieldRow == [schema : Schemas, index : Int, display : BOOLEAN]
FieldEntry == [id : Ids, index : Int, display : BOOLEAN]

\* Each field stands in the list once.
Distinct(list) == \A i, j \in DOMAIN list : list[i].id = list[j].id => i = j

LEMMA SeqFacts ==
  ASSUME NEW S, NEW list \in Seq(S)
  PROVE  /\ IsList(list) /\ Len(list) \in Nat /\ DOMAIN list = 1..Len(list)
         /\ \A k \in DOMAIN list : list[k] \in S
BY DEF IsList

LEMMA ListIsSeq ==
  ASSUME NEW S, NEW n \in Nat, NEW list \in [1..n -> S]
  PROVE  list \in Seq(S) /\ Len(list) = n /\ DOMAIN list = 1..n
OBVIOUS

LEMMA RangeFacts ==
  ASSUME NEW list
  PROVE  /\ \A k \in DOMAIN list : list[k] \in Range(list)
         /\ \A x \in Range(list) : \E k \in DOMAIN list : x = list[k]
BY DEF Range

\* What filter keeps.
LEMMA KeptEntries ==
  ASSUME NEW S, NEW list \in Seq(S), NEW P \in SUBSET (DOMAIN list)
  PROVE  /\ Kept(list, P) \in Seq(S)
         /\ \E at \in [DOMAIN Kept(list, P) -> P] :
               /\ \A k \in DOMAIN Kept(list, P) : Kept(list, P)[k] = list[at[k]]
               /\ \A i, j \in DOMAIN Kept(list, P) : at[i] = at[j] => i = j
               /\ \A x \in P : \E k \in DOMAIN Kept(list, P) : at[k] = x
<1> DEFINE new == Kept(list, P)
           n == Len(new)
<1>1. IsList(list) /\ \A k \in DOMAIN list : list[k] \in S
  BY SeqFacts
<1>2. IsList(new)
  BY <1>1, KeptFacts
<1>3. PICK at \in [1..n -> P] :
            /\ \A k \in 1..n : new[k] = list[at[k]]
            /\ \A i, j \in 1..n : at[i] = at[j] => i = j
            /\ \A x \in P : \E k \in 1..n : at[k] = x
  BY <1>1, KeptFacts
<1>4. n \in Nat /\ new = [k \in 1..n |-> new[k]]
  BY <1>2 DEF IsList
<1> HIDE DEF new, n
<1>5. new \in [1..n -> S]
  BY <1>1, <1>3, <1>4
<1>6. new \in Seq(S) /\ DOMAIN new = 1..n
  BY <1>4, <1>5, ListIsSeq
<1>7. \E pick \in [DOMAIN new -> P] :
            /\ \A k \in DOMAIN new : new[k] = list[pick[k]]
            /\ \A i, j \in DOMAIN new : pick[i] = pick[j] => i = j
            /\ \A x \in P : \E k \in DOMAIN new : pick[k] = x
  <2> DEFINE X == 1..n
  <2>1. DOMAIN new = X
    BY <1>6
  <2>2. /\ at \in [X -> P]
        /\ \A k \in X : new[k] = list[at[k]]
        /\ \A i, j \in X : at[i] = at[j] => i = j
        /\ \A x \in P : \E k \in X : at[k] = x
    BY <1>3
  <2> HIDE DEF X
  <2>3. \E pick \in [X -> P] :
            /\ \A k \in X : new[k] = list[pick[k]]
            /\ \A i, j \in X : pick[i] = pick[j] => i = j
            /\ \A x \in P : \E k \in X : pick[k] = x
    BY <2>2
  <2> QED
    BY <2>1, <2>3
<1> QED
  BY <1>6, <1>7 DEF new

LEMMA OthersFacts ==
  ASSUME NEW list \in Seq(FieldEntry), Distinct(list), NEW id
  PROVE  /\ Others(list, id) \in Seq(FieldEntry)
         /\ Distinct(Others(list, id))
         /\ \A x : x \in Range(Others(list, id)) <=> x \in Range(list) /\ x.id # id
<1> DEFINE P == {k \in DOMAIN list : list[k].id # id}
           new == Kept(list, P)
<1>1. Others(list, id) = new
  BY DEF Others
<1>2. P \in SUBSET (DOMAIN list)
  OBVIOUS
<1>3. \A k \in P : k \in DOMAIN list /\ list[k].id # id
  OBVIOUS
<1>4. \A k \in DOMAIN list : list[k].id # id => k \in P
  OBVIOUS
<1> HIDE DEF P
<1>5. new \in Seq(FieldEntry)
  BY <1>2, KeptEntries
<1>6. PICK at \in [DOMAIN new -> P] :
            /\ \A k \in DOMAIN new : new[k] = list[at[k]]
            /\ \A i, j \in DOMAIN new : at[i] = at[j] => i = j
            /\ \A x \in P : \E k \in DOMAIN new : at[k] = x
  BY <1>2, KeptEntries
<1> HIDE DEF new
<1>7. Distinct(new)
  BY <1>3, <1>6 DEF Distinct
<1>8. ASSUME NEW x \in Range(new)
      PROVE  x \in Range(list) /\ x.id # id
  BY <1>3, <1>6, RangeFacts
<1>9. ASSUME NEW x \in Range(list), x.id # id
      PROVE  x \in Range(new)
  BY <1>4, <1>6, <1>9, RangeFacts
<1> QED
  BY <1>1, <1>5, <1>7, <1>8, <1>9

LEMMA BeforeFacts ==
  ASSUME NEW D \in SUBSET Int, NEW f \in [D -> Int]
  PROVE  StrictOrder(D, {p \in D \X D : Before(p[1], f[p[1]], p[2], f[p[2]])})
<1> DEFINE R == {p \in D \X D : Before(p[1], f[p[1]], p[2], f[p[2]])}
<1>1. \A x, y \in D : <<x, y>> \in R <=> (f[x] < f[y] \/ (f[x] = f[y] /\ x < y))
  BY DEF Before
<1>2. \A x \in D : x \in Int /\ f[x] \in Int
  OBVIOUS
<1> HIDE DEF R
<1>3. \A x \in D : <<x, x>> \notin R
  BY <1>1, <1>2
<1>4. ASSUME NEW x \in D, NEW y \in D, NEW z \in D, <<x, y>> \in R, <<y, z>> \in R
      PROVE  <<x, z>> \in R
  <2> DEFINE a == f[x]
             b == f[y]
             c == f[z]
  <2>1. /\ x \in Int /\ y \in Int /\ z \in Int /\ a \in Int /\ b \in Int /\ c \in Int
        /\ a < b \/ (a = b /\ x < y)
        /\ b < c \/ (b = c /\ y < z)
    BY <1>1, <1>2, <1>4
  <2>2. <<x, z>> \in R <=> (a < c \/ (a = c /\ x < z))
    BY <1>1
  <2> HIDE DEF a, b, c
  <2> QED
    BY <2>1, <2>2
<1>5. ASSUME NEW x \in D, NEW y \in D
      PROVE  x = y \/ <<x, y>> \in R \/ <<y, x>> \in R
  <2> DEFINE a == f[x]
             b == f[y]
  <2>1. x \in Int /\ y \in Int /\ a \in Int /\ b \in Int
    BY <1>2
  <2>2. /\ <<x, y>> \in R <=> (a < b \/ (a = b /\ x < y))
        /\ <<y, x>> \in R <=> (b < a \/ (b = a /\ y < x))
    BY <1>1
  <2> HIDE DEF a, b
  <2> QED
    BY <2>1, <2>2
<1> QED
  BY <1>3, <1>4, <1>5 DEF StrictOrder, R

\* The places 1..n of new are those of list in another order.
Reorders(new, list, n, at) ==
    /\ at \in [1..n -> 1..n]
    /\ \A k \in 1..n : new[k] = list[at[k]]
    /\ \A k, l \in 1..n : at[k] = at[l] => k = l
    /\ \A x \in 1..n : \E k \in 1..n : at[k] = x

\* Sorting only reorders.
LEMMA SortedPlaces ==
  ASSUME NEW S, NEW list \in Seq(S), \A x \in S : x.index \in Int
  PROVE  /\ Sorted(list) \in Seq(S) /\ DOMAIN Sorted(list) = 1..Len(list)
         /\ \E at : Reorders(Sorted(list), list, Len(list), at)
<1> DEFINE D == DOMAIN list
           n == Len(list)
           f == [k \in D |-> list[k].index]
           R == {p \in D \X D : Before(p[1], list[p[1]].index, p[2], list[p[2]].index)}
           at == InOrder(D, R)
           new == [k \in D |-> list[at[k]]]
<1>1. n \in Nat /\ D = 1..n /\ \A k \in D : list[k] \in S
  BY SeqFacts
<1>2. f \in [D -> Int]
  BY <1>1
<1>3. StrictOrder(D, R)
  <2>1. D \in SUBSET Int
    BY <1>1
  <2>2. StrictOrder(D, {p \in D \X D : Before(p[1], f[p[1]], p[2], f[p[2]])})
    <3> HIDE DEF D, f
    <3> QED
      BY <1>2, <2>1, BeforeFacts
  <2>3. R = {p \in D \X D : Before(p[1], f[p[1]], p[2], f[p[2]])}
    OBVIOUS
  <2> HIDE DEF R, f, D
  <2> QED
    BY <2>2, <2>3
<1>4. IsFiniteSet(D) /\ Cardinality(D) = n
  <2>1. IsFiniteSet(1..n) /\ Cardinality(1..n) = n
    <3> HIDE DEF n
    <3> QED
      BY <1>1, FS_Interval
  <2> QED
    BY <1>1, <2>1, Zenon
<1>5. Sorted(list) = new
  BY DEF Sorted
<1> HIDE DEF R, n
<1>6. /\ at \in [1..n -> D]
      /\ \A i, j \in 1..n : at[i] = at[j] => i = j
      /\ \A x \in D : \E k \in 1..n : at[k] = x
  BY <1>3, <1>4, InOrderFacts
<1> HIDE DEF at, D
<1>7. new \in [1..n -> S]
  BY <1>1, <1>6
<1>8. new \in Seq(S) /\ DOMAIN new = 1..n
  BY <1>1, <1>7, ListIsSeq
<1>9. \A k \in 1..n : new[k] = list[at[k]]
  BY <1>1
<1> HIDE DEF new
<1>10. Reorders(new, list, n, at)
  BY <1>1, <1>6, <1>9 DEF Reorders
<1> QED
  BY <1>5, <1>8, <1>10 DEF n

LEMMA SortedFacts ==
  ASSUME NEW list \in Seq(FieldEntry), Distinct(list)
  PROVE  /\ Sorted(list) \in Seq(FieldEntry)
         /\ Distinct(Sorted(list))
         /\ Range(Sorted(list)) = Range(list)
<1> DEFINE n == Len(list)
           new == Sorted(list)
<1>1. \A x \in FieldEntry : x.index \in Int
  BY DEF FieldEntry
<1>2. new \in Seq(FieldEntry) /\ DOMAIN new = 1..n
  BY <1>1, SortedPlaces
<1>3. PICK at : Reorders(new, list, n, at)
  BY <1>1, SortedPlaces
<1>4. DOMAIN list = 1..n
  BY SeqFacts
<1>5. /\ at \in [1..n -> 1..n]
      /\ \A k \in 1..n : new[k] = list[at[k]]
      /\ \A k, l \in 1..n : at[k] = at[l] => k = l
      /\ \A x \in 1..n : \E k \in 1..n : at[k] = x
  BY <1>3 DEF Reorders
<1> HIDE DEF new, n
<1>6. Distinct(new)
  <2>1. ASSUME NEW i \in DOMAIN new, NEW j \in DOMAIN new, new[i].id = new[j].id
        PROVE  i = j
    <3>1. i \in 1..n /\ j \in 1..n
      BY <1>2
    <3>2. list[at[i]].id = list[at[j]].id /\ at[i] \in DOMAIN list /\ at[j] \in DOMAIN list
      BY <1>4, <1>5, <2>1, <3>1
    <3> QED
      BY <1>5, <3>1, <3>2 DEF Distinct
  <2> QED
    BY <2>1 DEF Distinct
<1>7. ASSUME NEW x \in Range(new)
      PROVE  x \in Range(list)
  <2>1. PICK k \in DOMAIN new : x = new[k]
    BY RangeFacts
  <2>2. k \in 1..n /\ x = list[at[k]] /\ at[k] \in DOMAIN list
    BY <1>2, <1>4, <1>5, <2>1
  <2> QED
    BY <2>2, RangeFacts
<1>8. ASSUME NEW x \in Range(list)
      PROVE  x \in Range(new)
  <2>1. PICK i \in DOMAIN list : x = list[i]
    BY RangeFacts
  <2>2. PICK k \in 1..n : at[k] = i
    BY <1>4, <1>5, <2>1
  <2>3. k \in DOMAIN new /\ new[k] = x
    BY <1>2, <1>5, <2>1, <2>2
  <2> QED
    BY <2>3, RangeFacts
<1> QED
  BY <1>2, <1>6, <1>7, <1>8 DEF new

-----------------------------------------------------------------------------
(* The page's copy of a schema's fields.                                   *)

RowsOK(fs) == fs \in [Ids -> FieldRow \cup {None}]

\* list is the fields of s in fs, in whatever order.
Mirrors(list, fs, s) ==
    /\ list \in Seq(FieldEntry) /\ Distinct(list)
    /\ Range(list) = {EntryOf(id, fs[id]) : id \in FieldsOf(fs, s)}

LEMMA EntryFacts ==
  ASSUME NEW id, NEW row
  PROVE  /\ EntryOf(id, row).id = id
         /\ EntryOf(id, row).index = row.index
         /\ EntryOf(id, row).display = row.display
         /\ id \in Ids /\ row \in FieldRow => EntryOf(id, row) \in FieldEntry
BY DEF EntryOf, FieldEntry, FieldRow

LEMMA RowFacts ==
  ASSUME NEW fs, RowsOK(fs)
  PROVE  /\ \A id \in Stored(fs) : id \in Ids /\ fs[id] \in FieldRow
         /\ \A id \in Ids : fs[id] \in FieldRow => id \in Stored(fs)
         /\ \A s : \A id \in FieldsOf(fs, s) :
               /\ id \in Ids /\ fs[id] \in FieldRow
               /\ id \in Stored(fs) /\ fs[id].schema = s
BY NoneAssumption DEF RowsOK, Stored, FieldsOf, FieldRow

LEMMA FieldsFinite ==
  ASSUME NEW fs, NEW s
  PROVE  IsFiniteSet(FieldsOf(fs, s)) /\ FieldsOf(fs, s) \subseteq Ids /\ Ids \subseteq Int
<1>1. StartFields \in Int /\ MaxRequests \in Int
  BY SchemaAssumption
<1>2. IsFiniteSet(Ids) /\ FieldsOf(fs, s) \subseteq Ids /\ Ids \subseteq Int
  BY <1>1, FS_Interval DEF Ids, FieldsOf, Stored
<1> QED
  BY <1>2, FS_Subset

LEMMA MirrorsFacts ==
  ASSUME NEW list, NEW fs, NEW s, Mirrors(list, fs, s)
  PROVE  /\ list \in Seq(FieldEntry) /\ Distinct(list)
         /\ \A x \in Range(list) : x.id \in FieldsOf(fs, s) /\ x = EntryOf(x.id, fs[x.id])
         /\ \A id \in FieldsOf(fs, s) : EntryOf(id, fs[id]) \in Range(list)
BY EntryFacts DEF Mirrors

LEMMA MirrorsBy ==
  ASSUME NEW list \in Seq(FieldEntry), Distinct(list), NEW fs, NEW s,
         \A x \in Range(list) : x.id \in FieldsOf(fs, s) /\ x = EntryOf(x.id, fs[x.id]),
         \A id \in FieldsOf(fs, s) : EntryOf(id, fs[id]) \in Range(list)
  PROVE  Mirrors(list, fs, s)
<1> DEFINE S == {EntryOf(id, fs[id]) : id \in FieldsOf(fs, s)}
<1>1. Range(list) \subseteq S
  OBVIOUS
<1>2. S \subseteq Range(list)
  OBVIOUS
<1> QED
  BY <1>1, <1>2 DEF Mirrors

\* What the server answers is a copy.
LEMMA AnswerMirrors ==
  ASSUME NEW fs, RowsOK(fs), NEW s
  PROVE  Mirrors(Answer(fs, s), fs, s)
<1> DEFINE F == FieldsOf(fs, s)
           n == Cardinality(F)
           f == [k \in F |-> fs[k].index]
           R == {p \in F \X F : Before(p[1], fs[p[1]].index, p[2], fs[p[2]].index)}
           ids == InOrder(F, R)
           new == [k \in DOMAIN ids |-> EntryOf(ids[k], fs[ids[k]])]
<1>1. IsFiniteSet(F) /\ F \in SUBSET Int /\ \A id \in F : id \in Ids /\ fs[id] \in FieldRow
  BY FieldsFinite, RowFacts
<1>2. f \in [F -> Int]
  BY <1>1 DEF FieldRow
<1>3. StrictOrder(F, R)
  <2>1. StrictOrder(F, {p \in F \X F : Before(p[1], f[p[1]], p[2], f[p[2]])})
    <3> HIDE DEF F, f
    <3> QED
      BY <1>1, <1>2, BeforeFacts
  <2>2. R = {p \in F \X F : Before(p[1], f[p[1]], p[2], f[p[2]])}
    OBVIOUS
  <2> HIDE DEF R, f, F
  <2> QED
    BY <2>1, <2>2
<1>4. Answer(fs, s) = new
  BY DEF Answer
<1> HIDE DEF R, n
<1>5. /\ n \in Nat /\ ids \in [1..n -> F]
      /\ \A i, j \in 1..n : ids[i] = ids[j] => i = j
      /\ \A x \in F : \E k \in 1..n : ids[k] = x
  BY <1>1, <1>3, InOrderFacts DEF n
<1> HIDE DEF ids, F
<1>6. new \in [1..n -> FieldEntry]
  BY <1>1, <1>5, EntryFacts
<1>7. new \in Seq(FieldEntry) /\ DOMAIN new = 1..n
  BY <1>5, <1>6, ListIsSeq
<1>8. \A k \in 1..n : new[k] = EntryOf(ids[k], fs[ids[k]]) /\ new[k].id = ids[k]
  BY <1>5, EntryFacts
<1> HIDE DEF new
<1>9. Distinct(new)
  BY <1>5, <1>7, <1>8 DEF Distinct
<1>10. ASSUME NEW x \in Range(new)
       PROVE  x.id \in F /\ x = EntryOf(x.id, fs[x.id])
  <2>1. PICK k \in DOMAIN new : x = new[k]
    BY RangeFacts
  <2> QED
    BY <1>5, <1>7, <1>8, <2>1
<1>11. ASSUME NEW id \in F
       PROVE  EntryOf(id, fs[id]) \in Range(new)
  <2>1. PICK k \in 1..n : ids[k] = id
    BY <1>5
  <2>2. k \in DOMAIN new /\ new[k] = EntryOf(id, fs[id])
    BY <1>7, <1>8, <2>1
  <2> QED
    BY <2>2, RangeFacts
<1> QED
  BY <1>4, <1>7, <1>9, <1>10, <1>11, MirrorsBy DEF F

\* A copy has as many entries as the schema has fields.
LEMMA MirrorsCount ==
  ASSUME NEW list, NEW fs, NEW s, Mirrors(list, fs, s)
  PROVE  Len(list) = Cardinality(FieldsOf(fs, s))
<1> DEFINE F == FieldsOf(fs, s)
           n == Len(list)
           D == 1..n
           f == [k \in D |-> list[k].id]
<1>1. n \in Nat /\ DOMAIN list = D /\ \A k \in D : list[k] \in Range(list)
  BY MirrorsFacts, SeqFacts, RangeFacts
<1>2. f \in [D -> F]
  BY <1>1, MirrorsFacts
<1>3. \A i, j \in D : f[i] = f[j] => i = j
  BY <1>1, MirrorsFacts DEF Distinct
<1>4. ASSUME NEW id \in F
      PROVE  \E k \in D : f[k] = id
  <2>1. EntryOf(id, fs[id]) \in Range(list)
    BY MirrorsFacts
  <2>2. PICK k \in DOMAIN list : EntryOf(id, fs[id]) = list[k]
    BY <2>1, RangeFacts
  <2> QED
    BY <1>1, <2>2, EntryFacts
<1>5. IsFiniteSet(D) /\ Cardinality(D) = n
  BY <1>1, FS_Interval
<1> HIDE DEF f, D, F
<1>6. f \in Bijection(D, F)
  BY <1>2, <1>3, <1>4 DEF Bijection, Injection, Surjection, IsInjective
<1>7. ExistsBijection(D, F)
  BY <1>6 DEF ExistsBijection
<1>8. Cardinality(F) = Cardinality(D)
  BY <1>5, <1>7, FS_Bijection
<1> QED
  BY <1>5, <1>8 DEF F

\* One entry written: as it is in the list and nowhere else.
LEMMA PutMirrors ==
  ASSUME NEW list, NEW a, NEW s, Mirrors(list, a, s), RowsOK(a),
         NEW id \in Ids, NEW row \in FieldRow, row.schema = s,
         NEW new \in Seq(FieldEntry), Distinct(new),
         \A x : x \in Range(new) <=>
            x = EntryOf(id, row) \/ (x \in Range(list) /\ x.id # id)
  PROVE  Mirrors(new, [a EXCEPT ![id] = row], s)
<1> DEFINE b == [a EXCEPT ![id] = row]
<1>1. RowsOK(b) /\ b[id] = row /\ \A k \in Ids : k # id => b[k] = a[k]
  BY DEF RowsOK
<1>2. id \in FieldsOf(b, s) /\ \A k \in Ids : k # id
         => (k \in FieldsOf(b, s) <=> k \in FieldsOf(a, s))
  BY <1>1, RowFacts DEF FieldsOf, Stored
<1>3. \A k \in FieldsOf(a, s) \cup FieldsOf(b, s) : k \in Ids
  BY DEF FieldsOf, Stored
<1> HIDE DEF b
<1>4. ASSUME NEW x \in Range(new)
      PROVE  x.id \in FieldsOf(b, s) /\ x = EntryOf(x.id, b[x.id])
  <2>1. CASE x = EntryOf(id, row)
    BY <1>1, <1>2, <2>1, EntryFacts
  <2>2. CASE x \in Range(list) /\ x.id # id
    <3>1. x.id \in FieldsOf(a, s) /\ x = EntryOf(x.id, a[x.id])
      BY <2>2, MirrorsFacts
    <3> QED
      BY <1>1, <1>2, <1>3, <2>2, <3>1
  <2> QED
    BY <2>1, <2>2
<1>5. ASSUME NEW k \in FieldsOf(b, s)
      PROVE  EntryOf(k, b[k]) \in Range(new)
  <2>1. CASE k = id
    BY <1>1, <2>1
  <2>2. CASE k # id
    <3>1. k \in FieldsOf(a, s) /\ b[k] = a[k]
      BY <1>1, <1>2, <1>3, <2>2
    <3>2. EntryOf(k, a[k]) \in Range(list) /\ EntryOf(k, a[k]).id = k
      BY <3>1, MirrorsFacts, EntryFacts
    <3> QED
      BY <2>2, <3>1, <3>2
  <2> QED
    BY <2>1, <2>2
<1> QED
  BY <1>4, <1>5, MirrorsBy DEF b

LEMMA AppendFacts ==
  ASSUME NEW list \in Seq(FieldEntry), Distinct(list), NEW e \in FieldEntry,
         \A x \in Range(list) : x.id # e.id
  PROVE  /\ Append(list, e) \in Seq(FieldEntry) /\ Distinct(Append(list, e))
         /\ \A x : x \in Range(Append(list, e)) <=> x = e \/ (x \in Range(list) /\ x.id # e.id)
<1> DEFINE new == Append(list, e)
           n == Len(list)
<1>1. n \in Nat /\ DOMAIN list = 1..n
  BY SeqFacts
<1>2. new \in Seq(FieldEntry) /\ DOMAIN new = 1..(n + 1)
  OBVIOUS
<1>3. new[n + 1] = e /\ \A k \in 1..n : new[k] = list[k]
  OBVIOUS
<1> HIDE DEF new, n
<1>4. \A k \in 1..(n + 1) : k = n + 1 \/ k \in 1..n
  BY <1>1
<1>5. \A k \in 1..n : k \in 1..(n + 1) /\ new[k] \in Range(list) /\ k # n + 1
  BY <1>1, <1>3, RangeFacts
<1>6. n + 1 \in 1..(n + 1)
  BY <1>1
<1>7. Distinct(new)
  <2>1. ASSUME NEW i \in 1..(n + 1), NEW j \in 1..(n + 1), new[i].id = new[j].id
        PROVE  i = j
    <3>1. CASE i \in 1..n /\ j \in 1..n
      BY <1>1, <1>3, <2>1, <3>1 DEF Distinct
    <3>2. CASE i = n + 1 /\ j = n + 1
      BY <3>2
    <3>3. CASE i = n + 1 /\ j \in 1..n
      BY <1>3, <1>5, <2>1, <3>3
    <3>4. CASE j = n + 1 /\ i \in 1..n
      BY <1>3, <1>5, <2>1, <3>4
    <3> QED
      BY <1>4, <3>1, <3>2, <3>3, <3>4
  <2> QED
    BY <1>2, <2>1 DEF Distinct
<1>8. ASSUME NEW x \in Range(new)
      PROVE  x = e \/ (x \in Range(list) /\ x.id # e.id)
  <2>1. PICK k \in DOMAIN new : x = new[k]
    BY RangeFacts
  <2> QED
    BY <1>2, <1>3, <1>4, <1>5, <2>1
<1>9. e \in Range(new)
  BY <1>2, <1>3, <1>6, RangeFacts
<1>10. ASSUME NEW x \in Range(list)
       PROVE  x \in Range(new)
  <2>1. PICK k \in DOMAIN list : x = list[k]
    BY RangeFacts
  <2>2. k \in DOMAIN new /\ new[k] = x
    BY <1>1, <1>2, <1>3, <1>5, <2>1
  <2> QED
    BY <2>2, RangeFacts
<1> QED
  BY <1>2, <1>7, <1>8, <1>9, <1>10 DEF new

\* A created field behind the others.
LEMMA WithEntryMirrors ==
  ASSUME NEW list, NEW a, NEW s, Mirrors(list, a, s), RowsOK(a),
         NEW id \in Ids, id \notin Stored(a), NEW row \in FieldRow, row.schema = s
  PROVE  Mirrors(WithEntry(list, EntryOf(id, row)), [a EXCEPT ![id] = row], s)
<1> DEFINE e == EntryOf(id, row)
           new == Append(list, e)
<1>1. e \in FieldEntry /\ e.id = id
  BY EntryFacts
<1>2. \A x \in Range(list) : x.id # id
  BY MirrorsFacts DEF FieldsOf
<1>3. list \in Seq(FieldEntry) /\ Distinct(list)
  BY MirrorsFacts
<1>4. WithEntry(list, e) = new
  BY DEF WithEntry
<1>5. new \in Seq(FieldEntry) /\ Distinct(new)
  <2> HIDE DEF e
  <2> QED
    BY <1>1, <1>2, <1>3, AppendFacts
<1>6. \A x : x \in Range(new) <=> x = e \/ (x \in Range(list) /\ x.id # id)
  <2> HIDE DEF e
  <2> QED
    BY <1>1, <1>2, <1>3, AppendFacts
<1> HIDE DEF new
<1> QED
  BY <1>4, <1>5, <1>6, PutMirrors

\* A changed field, or a deleted one that was written again, sorted in.
LEMMA ReplacedMirrors ==
  ASSUME NEW list, NEW a, NEW s, Mirrors(list, a, s), RowsOK(a),
         NEW id \in Ids, NEW row \in FieldRow, row.schema = s
  PROVE  Mirrors(Replaced(list, EntryOf(id, row)), [a EXCEPT ![id] = row], s)
<1> DEFINE e == EntryOf(id, row)
           rest == Others(list, id)
           all == Append(rest, e)
           new == Sorted(all)
<1>1. e \in FieldEntry /\ e.id = id
  BY EntryFacts
<1>2. list \in Seq(FieldEntry) /\ Distinct(list)
  BY MirrorsFacts
<1>3. /\ rest \in Seq(FieldEntry) /\ Distinct(rest)
      /\ \A x : x \in Range(rest) <=> x \in Range(list) /\ x.id # id
  BY <1>2, OthersFacts
<1>4. Replaced(list, e) = new
  BY <1>1 DEF Replaced
<1> HIDE DEF e, rest
<1>5. /\ all \in Seq(FieldEntry) /\ Distinct(all)
      /\ \A x : x \in Range(all) <=> x = e \/ (x \in Range(rest) /\ x.id # id)
  BY <1>1, <1>3, AppendFacts
<1> HIDE DEF all
<1>6. new \in Seq(FieldEntry) /\ Distinct(new) /\ Range(new) = Range(all)
  BY <1>5, SortedFacts
<1>7. \A x : x \in Range(new) <=> x = e \/ (x \in Range(list) /\ x.id # id)
  BY <1>3, <1>5, <1>6
<1> HIDE DEF new
<1> QED
  BY <1>4, <1>6, <1>7, PutMirrors DEF e

\* A deleted field, the ones behind it moved up.
LEMMA RemovedMirrors ==
  ASSUME NEW list, NEW a, NEW s, Mirrors(list, a, s), RowsOK(a), NEW id \in FieldsOf(a, s)
  PROVE  Mirrors(Removed(list, id), WithoutField(a, id), s)
<1> DEFINE b == WithoutField(a, id)
           rest == Others(list, id)
           at == {e.index : e \in {x \in Range(list) : x.id = id}}
           up(x) == [x EXCEPT !.index = IF @ > a[id].index THEN @ - 1 ELSE @]
           D == 1..Len(rest)
           new == [k \in D |-> up(rest[k])]
<1>1. id \in Ids /\ a[id] \in FieldRow /\ id \in Stored(a) /\ a[id].schema = s
  BY RowFacts
<1>2. list \in Seq(FieldEntry) /\ Distinct(list) /\ EntryOf(id, a[id]) \in Range(list)
  BY MirrorsFacts
<1>3. at = {a[id].index}
  <2>1. \A x \in Range(list) : x.id = id => x.index = a[id].index
    BY MirrorsFacts, EntryFacts
  <2>2. \E x \in Range(list) : x.id = id /\ x.index = a[id].index
    BY <1>2, EntryFacts
  <2> QED
    BY <2>1, <2>2
<1>4. Max(at) = a[id].index
  <2>1. a[id].index \in Int
    BY <1>1 DEF FieldRow
  <2> QED
    BY <1>3, <2>1 DEF Max
<1>5. Removed(list, id) = new
  <2>1. Removed(list, id) =
          [k \in 1..Len(rest) |-> [rest[k] EXCEPT !.index = IF @ > Max(at) THEN @ - 1 ELSE @]]
    BY <1>3 DEF Removed
  <2> HIDE DEF at
  <2> QED
    BY <1>4, <2>1
<1>6. /\ rest \in Seq(FieldEntry) /\ Distinct(rest)
      /\ \A x : x \in Range(rest) <=> x \in Range(list) /\ x.id # id
  BY <1>2, OthersFacts
<1>7. ASSUME NEW x \in FieldEntry
      PROVE  /\ up(x) \in FieldEntry /\ up(x).id = x.id /\ up(x).display = x.display
             /\ up(x).index = IF x.index > a[id].index THEN x.index - 1 ELSE x.index
  BY <1>1 DEF FieldEntry, FieldRow
<1>8. ASSUME NEW k \in FieldsOf(a, s), k # id
      PROVE  k \in FieldsOf(b, s) /\ EntryOf(k, b[k]) = up(EntryOf(k, a[k]))
  <2>1. k \in Ids /\ a[k] \in FieldRow /\ a[k].schema = s
    BY RowFacts
  <2>2. b[k] = IF a[k].index > a[id].index THEN [a[k] EXCEPT !.index = @ - 1] ELSE a[k]
    BY <1>1, <1>8, <2>1 DEF WithoutField
  <2>3. b[k] \in FieldRow /\ b[k].schema = s /\ b[k].display = a[k].display
    BY <2>1, <2>2 DEF FieldRow
  <2>4. b[k].index = IF a[k].index > a[id].index THEN a[k].index - 1 ELSE a[k].index
    BY <2>1, <2>2 DEF FieldRow
  <2>5. k \in FieldsOf(b, s)
    BY <2>1, <2>3, NoneAssumption DEF FieldsOf, Stored, FieldRow
  <2> HIDE DEF b
  <2> QED
    BY <2>3, <2>4, <2>5 DEF EntryOf
<1>9. ASSUME NEW k \in FieldsOf(b, s)
      PROVE  k \in FieldsOf(a, s) /\ k # id
  <2>1. k \in Ids /\ b[k] # None /\ b[k].schema = s
    BY DEF FieldsOf, Stored
  <2>2. b[k] = IF k = id THEN None
               ELSE IF k \in FieldsOf(a, a[id].schema) /\ a[k].index > a[id].index
               THEN [a[k] EXCEPT !.index = @ - 1] ELSE a[k]
    BY <2>1 DEF WithoutField
  <2>3. k # id
    BY <2>1, <2>2
  <2>4. CASE k \in FieldsOf(a, a[id].schema)
    BY <1>1, <2>3, <2>4
  <2>5. CASE k \notin FieldsOf(a, a[id].schema)
    BY <2>1, <2>2, <2>3, <2>5 DEF FieldsOf, Stored
  <2> QED
    BY <2>4, <2>5
<1>10. Len(rest) \in Nat /\ DOMAIN rest = D /\ \A k \in D : rest[k] \in FieldEntry
  BY <1>6, SeqFacts
<1> HIDE DEF b, rest, up
<1>11. new \in Seq(FieldEntry) /\ DOMAIN new = D /\ \A k \in D : new[k] = up(rest[k])
  <2>1. new \in [1..Len(rest) -> FieldEntry]
    BY <1>7, <1>10
  <2> QED
    BY <1>10, <2>1, ListIsSeq
<1> HIDE DEF new, D
<1>12. Distinct(new)
  BY <1>6, <1>7, <1>10, <1>11 DEF Distinct
<1>13. ASSUME NEW x \in Range(new)
       PROVE  x.id \in FieldsOf(b, s) /\ x = EntryOf(x.id, b[x.id])
  <2>1. PICK k \in DOMAIN new : x = new[k]
    BY RangeFacts
  <2>2. x = up(rest[k]) /\ rest[k] \in FieldEntry /\ rest[k] \in Range(rest)
    BY <1>10, <1>11, <2>1, RangeFacts
  <2> DEFINE y == rest[k]
  <2>3. y \in Range(list) /\ y.id # id
    BY <1>6, <2>2
  <2>4. y.id \in FieldsOf(a, s) /\ y = EntryOf(y.id, a[y.id])
    BY <2>3, MirrorsFacts
  <2>5. x.id = y.id /\ x = up(y)
    BY <1>7, <2>2
  <2> HIDE DEF y
  <2> QED
    BY <1>8, <2>3, <2>4, <2>5
<1>14. ASSUME NEW k \in FieldsOf(b, s)
       PROVE  EntryOf(k, b[k]) \in Range(new)
  <2>1. k \in FieldsOf(a, s) /\ k # id
    BY <1>9
  <2>2. EntryOf(k, a[k]) \in Range(list) /\ EntryOf(k, a[k]).id = k
    BY <2>1, MirrorsFacts, EntryFacts
  <2>3. EntryOf(k, a[k]) \in Range(rest)
    BY <1>6, <2>1, <2>2
  <2>4. PICK i \in DOMAIN rest : EntryOf(k, a[k]) = rest[i]
    BY <2>3, RangeFacts
  <2>5. i \in DOMAIN new /\ new[i] = EntryOf(k, b[k])
    BY <1>8, <1>10, <1>11, <2>1, <2>4
  <2> QED
    BY <2>5, RangeFacts
<1> QED
  BY <1>5, <1>11, <1>12, <1>13, <1>14, MirrorsBy DEF b

LEMMA RemovedOfNothing ==
  ASSUME NEW list, NEW id, \A x \in Range(list) : x.id # id
  PROVE  Removed(list, id) = list
BY DEF Removed

-----------------------------------------------------------------------------
(* What a request writes, at the server and in the page's copies.          *)

\* home says which schema each id is or will be of.
Homes(home, fs) == \A id \in Stored(fs) : fs[id].schema = home[id]

\* r's handler made b of the fields a.
Wrote(home, r, a, b) ==
    /\ r.op \in {"create", "update", "delete"} /\ r.id \in Ids
    /\ r.op = "delete" =>
          /\ r.schema = home[r.id]
          /\ b = IF r.id \in Stored(a) THEN WithoutField(a, r.id) ELSE a
    /\ r.op # "delete" =>
          r.row \in FieldRow /\ r.row.schema = home[r.id] /\ b = [a EXCEPT ![r.id] = r.row]
    /\ r.op = "create" => r.id \notin Stored(a)

LEMMA WithoutFieldRows ==
  ASSUME NEW a, RowsOK(a), NEW id \in Stored(a)
  PROVE  /\ RowsOK(WithoutField(a, id))
         /\ \A k \in Ids : k # id => /\ k \in Stored(WithoutField(a, id)) <=> k \in Stored(a)
                                     /\ k \in Stored(a)
                                         => WithoutField(a, id)[k].schema = a[k].schema
         /\ id \notin Stored(WithoutField(a, id))
         /\ \A k \in Ids : k # id /\ (k \in Stored(a) => a[k].schema # a[id].schema) =>
               WithoutField(a, id)[k] = a[k]
<1> DEFINE b == WithoutField(a, id)
<1>1. id \in Ids /\ a[id] \in FieldRow
  BY RowFacts
<1>2. ASSUME NEW k \in Ids
      PROVE  b[k] = IF k = id THEN None
                    ELSE IF k \in FieldsOf(a, a[id].schema) /\ a[k].index > a[id].index
                    THEN [a[k] EXCEPT !.index = @ - 1] ELSE a[k]
  BY DEF WithoutField
<1>3. ASSUME NEW k \in Stored(a), k # id
      PROVE  b[k] \in FieldRow /\ b[k].schema = a[k].schema
  <2>1. k \in Ids /\ a[k] \in FieldRow
    BY RowFacts
  <2> DEFINE old == a[k]
  <2>2. b[k] = [old EXCEPT !.index = @ - 1] \/ b[k] = old
    BY <1>2, <1>3, <2>1
  <2>3. old \in FieldRow
    BY <2>1
  <2> HIDE DEF b, old
  <2>4. b[k] \in FieldRow /\ b[k].schema = old.schema
    BY <2>2, <2>3 DEF FieldRow
  <2> QED
    BY <2>4 DEF old
<1>4. ASSUME NEW k \in Ids, k \notin Stored(a)
      PROVE  b[k] = None
  BY <1>2, <1>4 DEF FieldsOf, Stored
<1>5. ASSUME NEW k \in Ids, k # id, k \in Stored(a) => a[k].schema # a[id].schema
      PROVE  b[k] = a[k]
  BY <1>2, <1>5 DEF FieldsOf
<1>6. b[id] = None
  BY <1>1, <1>2
<1>7. ASSUME NEW k \in Ids
      PROVE  b[k] \in FieldRow \cup {None}
  BY <1>3, <1>4, <1>6
<1>8. RowsOK(b)
  BY <1>7 DEF RowsOK, WithoutField
<1>9. ASSUME NEW k \in Ids, k # id
      PROVE  k \in Stored(b) <=> k \in Stored(a)
  BY <1>3, <1>4, <1>9, NoneAssumption DEF Stored, FieldRow
<1> QED
  BY <1>3, <1>5, <1>6, <1>8, <1>9 DEF Stored

LEMMA PutRows ==
  ASSUME NEW a, RowsOK(a), NEW id \in Ids, NEW row \in FieldRow
  PROVE  /\ RowsOK([a EXCEPT ![id] = row])
         /\ Stored([a EXCEPT ![id] = row]) = Stored(a) \cup {id}
         /\ [a EXCEPT ![id] = row][id] = row
         /\ \A k \in Ids : k # id => [a EXCEPT ![id] = row][k] = a[k]
<1> DEFINE b == [a EXCEPT ![id] = row]
<1>1. RowsOK(b) /\ b[id] = row /\ \A k \in Ids : k # id => b[k] = a[k]
  BY DEF RowsOK
<1> HIDE DEF b
<1>2. \A k \in Ids : b[k] # None <=> (k = id \/ a[k] # None)
  BY <1>1, NoneAssumption DEF FieldRow
<1>3. \A k : k \in Stored(b) <=> (k \in Stored(a) \/ k = id)
  BY <1>2 DEF Stored
<1> QED
  BY <1>1, <1>3 DEF b

\* Rows stay of their schema, and no other id becomes stored.
LEMMA WroteRows ==
  ASSUME NEW home, NEW r, NEW a, NEW b, RowsOK(a), Homes(home, a), Wrote(home, r, a, b)
  PROVE  RowsOK(b) /\ Homes(home, b) /\ Stored(b) \subseteq Stored(a) \cup {r.id}
<1>0. \A k \in Stored(a) \cup Stored(b) : k \in Ids
  BY DEF Stored
<1>1. CASE r.op # "delete"
  <2>1. r.id \in Ids /\ r.row \in FieldRow /\ r.row.schema = home[r.id]
           /\ b = [a EXCEPT ![r.id] = r.row]
    BY <1>1 DEF Wrote
  <2>2. /\ RowsOK(b) /\ Stored(b) = Stored(a) \cup {r.id} /\ b[r.id] = r.row
        /\ \A k \in Ids : k # r.id => b[k] = a[k]
    <3> DEFINE id == r.id
               row == r.row
    <3>1. id \in Ids /\ row \in FieldRow /\ b = [a EXCEPT ![id] = row]
      BY <2>1
    <3> HIDE DEF id, row
    <3> DEFINE c == [a EXCEPT ![id] = row]
    <3>2. /\ RowsOK(c) /\ Stored(c) = Stored(a) \cup {id} /\ c[id] = row
          /\ \A k \in Ids : k # id => c[k] = a[k]
      <4>1. RowsOK(c)
        BY <3>1, PutRows
      <4>2. Stored(c) = Stored(a) \cup {id}
        BY <3>1, PutRows
      <4>3. c[id] = row
        BY <3>1, PutRows
      <4>4. \A k \in Ids : k # id => c[k] = a[k]
        BY <3>1, PutRows
      <4> QED
        BY <4>1, <4>2, <4>3, <4>4
    <3>3. b = c
      BY <3>1
    <3> HIDE DEF c
    <3> QED
      BY <3>2, <3>3 DEF id, row
  <2>3. Homes(home, b)
    BY <1>0, <2>1, <2>2 DEF Homes
  <2> QED
    BY <2>2, <2>3
<1>2. CASE r.op = "delete" /\ r.id \in Stored(a)
  <2>1. b = WithoutField(a, r.id)
    BY <1>2 DEF Wrote
  <2>2. /\ RowsOK(b) /\ r.id \notin Stored(b)
        /\ \A k \in Ids : k # r.id => /\ k \in Stored(b) <=> k \in Stored(a)
                                      /\ k \in Stored(a) => b[k].schema = a[k].schema
    BY <1>2, <2>1, WithoutFieldRows
  <2>3. Homes(home, b)
    BY <1>0, <2>2 DEF Homes
  <2> QED
    BY <1>0, <2>2, <2>3
<1>3. CASE r.op = "delete" /\ r.id \notin Stored(a)
  BY <1>3 DEF Wrote
<1> QED
  BY <1>1, <1>2, <1>3

\* The answer's patch brings the schema's copy up to date ...
LEMMA PatchedMirrors ==
  ASSUME NEW home, NEW r, NEW a, NEW b, RowsOK(a), Homes(home, a), Wrote(home, r, a, b),
         NEW list, Mirrors(list, a, home[r.id])
  PROVE  ListOf(r) = home[r.id] /\ Mirrors(Patched(list, r), b, home[r.id])
<1>1. CASE r.op = "create"
  <2>1. /\ r.id \in Ids /\ r.id \notin Stored(a) /\ r.row \in FieldRow
        /\ r.row.schema = home[r.id] /\ b = [a EXCEPT ![r.id] = r.row]
    BY <1>1 DEF Wrote
  <2>2. Patched(list, r) = WithEntry(list, EntryOf(r.id, r.row)) /\ ListOf(r) = r.row.schema
    BY <1>1 DEF Patched, ListOf
  <2> DEFINE id == r.id
             row == r.row
             s == home[r.id]
  <2>3. id \in Ids /\ id \notin Stored(a) /\ row \in FieldRow /\ row.schema = s
           /\ b = [a EXCEPT ![id] = row]
    BY <2>1
  <2>4. Mirrors(list, a, s)
    OBVIOUS
  <2> HIDE DEF id, row, s
  <2>5. Mirrors(WithEntry(list, EntryOf(id, row)), b, s)
    BY <2>3, <2>4, WithEntryMirrors
  <2> QED
    BY <2>1, <2>2, <2>5 DEF id, row, s
<1>2. CASE r.op = "update"
  <2>1. /\ r.id \in Ids /\ r.row \in FieldRow
        /\ r.row.schema = home[r.id] /\ b = [a EXCEPT ![r.id] = r.row]
    BY <1>2 DEF Wrote
  <2>2. Patched(list, r) = Replaced(list, EntryOf(r.id, r.row)) /\ ListOf(r) = r.row.schema
    BY <1>2 DEF Patched, ListOf
  <2> DEFINE id == r.id
             row == r.row
             s == home[r.id]
  <2>3. id \in Ids /\ row \in FieldRow /\ row.schema = s /\ b = [a EXCEPT ![id] = row]
    BY <2>1
  <2>4. Mirrors(list, a, s)
    OBVIOUS
  <2> HIDE DEF id, row, s
  <2>5. Mirrors(Replaced(list, EntryOf(id, row)), b, s)
    BY <2>3, <2>4, ReplacedMirrors
  <2> QED
    BY <2>1, <2>2, <2>5 DEF id, row, s
<1>3. CASE r.op = "delete"
  <2>1. r.schema = home[r.id] /\ b = IF r.id \in Stored(a) THEN WithoutField(a, r.id) ELSE a
    BY <1>3 DEF Wrote
  <2>2. Patched(list, r) = Removed(list, r.id) /\ ListOf(r) = r.schema
    BY <1>3 DEF Patched, ListOf
  <2>3. CASE r.id \in Stored(a)
    <3>1. r.id \in FieldsOf(a, home[r.id])
      BY <2>3 DEF Homes, FieldsOf
    <3> QED
      BY <2>1, <2>2, <2>3, <3>1, RemovedMirrors
  <2>4. CASE r.id \notin Stored(a)
    <3>1. \A x \in Range(list) : x.id # r.id
      BY <2>4, MirrorsFacts DEF FieldsOf
    <3> QED
      BY <2>1, <2>2, <2>4, <3>1, RemovedOfNothing
  <2> QED
    BY <2>1, <2>2, <2>3, <2>4
<1> QED
  BY <1>1, <1>2, <1>3 DEF Wrote

\* ... and the other schemas' copies are as good as before.
LEMMA OtherSchemas ==
  ASSUME NEW home, NEW r, NEW a, NEW b, RowsOK(a), Homes(home, a), Wrote(home, r, a, b),
         NEW s, s # home[r.id]
  PROVE  /\ FieldsOf(b, s) = FieldsOf(a, s)
         /\ \A list : Mirrors(list, a, s) => Mirrors(list, b, s)
<1>0. \A k \in Stored(a) \cup Stored(b) : k \in Ids
  BY DEF Stored
<1>1. \A k \in Ids : a[k] # None \/ b[k] # None =>
         b[k] = a[k] \/ ((a[k] # None => a[k].schema # s) /\ (b[k] # None => b[k].schema # s))
  <2>1. CASE r.op # "delete"
    <3>1. /\ r.id \in Ids /\ r.row \in FieldRow /\ r.row.schema = home[r.id]
          /\ b = [a EXCEPT ![r.id] = r.row]
      BY <2>1 DEF Wrote
    <3>2. b[r.id] = r.row /\ \A k \in Ids : k # r.id => b[k] = a[k]
      BY <3>1, PutRows
    <3> QED
      BY <3>1, <3>2 DEF Homes, Stored
  <2>2. CASE r.op = "delete" /\ r.id \in Stored(a)
    <3>1. b = WithoutField(a, r.id)
      BY <2>2 DEF Wrote
    <3>2. /\ r.id \notin Stored(b)
          /\ \A k \in Ids : k # r.id =>
                /\ k \in Stored(b) <=> k \in Stored(a)
                /\ k \in Stored(a) => b[k].schema = a[k].schema
          /\ \A k \in Ids : k # r.id /\ (k \in Stored(a) => a[k].schema # a[r.id].schema) =>
                b[k] = a[k]
      BY <2>2, <3>1, WithoutFieldRows
    <3>3. a[r.id].schema = home[r.id]
      BY <2>2 DEF Homes
    <3> QED
      BY <3>2, <3>3 DEF Stored
  <2>3. CASE r.op = "delete" /\ r.id \notin Stored(a)
    BY <2>3 DEF Wrote
  <2> QED
    BY <2>1, <2>2, <2>3
<1>2. ASSUME NEW k
      PROVE  /\ k \in FieldsOf(b, s) <=> k \in FieldsOf(a, s)
             /\ k \in FieldsOf(a, s) => b[k] = a[k]
  BY <1>1 DEF FieldsOf, Stored
<1>3. FieldsOf(b, s) = FieldsOf(a, s)
  BY <1>2
<1>4. ASSUME NEW list, Mirrors(list, a, s)
      PROVE  Mirrors(list, b, s)
  <2>1. list \in Seq(FieldEntry) /\ Distinct(list)
    BY <1>4, MirrorsFacts
  <2>2. \A x \in Range(list) : x.id \in FieldsOf(b, s) /\ x = EntryOf(x.id, b[x.id])
    BY <1>2, <1>4, MirrorsFacts
  <2>3. \A id \in FieldsOf(b, s) : EntryOf(id, b[id]) \in Range(list)
    BY <1>2, <1>4, MirrorsFacts
  <2> QED
    BY <2>1, <2>2, <2>3, MirrorsBy
<1> QED
  BY <1>3, <1>4

LEMMA NothingMirrors ==
  ASSUME NEW fs, NEW s, FieldsOf(fs, s) = {}
  PROVE  Mirrors(<<>>, fs, s)
BY DEF Mirrors, Distinct, Range

-----------------------------------------------------------------------------
(* Dragging.                                                               *)

LEMMA MovedFacts ==
  ASSUME NEW S, NEW list \in Seq(S), NEW i \in DOMAIN list, NEW j \in DOMAIN list
  PROVE  /\ Moved(list, i, j) \in Seq(S) /\ Len(list) \in Nat
         /\ Len(Moved(list, i, j)) = Len(list)
         /\ \E at : Reorders(Moved(list, i, j), list, Len(list), at)
<1> DEFINE n == Len(list)
           rest == RemoveAt(list, i)
           new == InsertAt(rest, j, list[i])
           D == 1..n
           skip(p) == IF p < i THEN p ELSE p + 1
           at == [k \in D |-> IF k = j THEN i ELSE IF k < j THEN skip(k) ELSE skip(k - 1)]
<1>1. n \in Nat /\ DOMAIN list = D /\ i \in D /\ j \in D /\ list[i] \in S
  BY SeqFacts
<1>2. rest \in Seq(S) /\ Len(rest) = n - 1 /\ \A k \in 1..(n - 1) : rest[k] = list[skip(k)]
  <2>1. SubSeq(list, 1, i - 1) \in Seq(S) /\ Len(SubSeq(list, 1, i - 1)) = i - 1
    BY <1>1
  <2>2. SubSeq(list, i + 1, n) \in Seq(S) /\ Len(SubSeq(list, i + 1, n)) = n - i
    BY <1>1
  <2>3. \A k \in 1..(i - 1) : SubSeq(list, 1, i - 1)[k] = list[k]
    BY <1>1
  <2>4. \A k \in 1..(n - i) : SubSeq(list, i + 1, n)[k] = list[i + k]
    BY <1>1
  <2> DEFINE front == SubSeq(list, 1, i - 1)
             back == SubSeq(list, i + 1, n)
  <2>5. rest = front \o back
    BY DEF RemoveAt
  <2> HIDE DEF front, back, rest
  <2>6. rest \in Seq(S) /\ Len(rest) = n - 1
    BY <1>1, <2>1, <2>2, <2>5 DEF front, back
  <2>7. ASSUME NEW k \in 1..(n - 1)
        PROVE  rest[k] = list[skip(k)]
    <3>1. k \in Int /\ i \in Int /\ n \in Int
      BY <1>1
    <3>2. front \in Seq(S) /\ back \in Seq(S) /\ Len(front) = i - 1 /\ Len(back) = n - i
      BY <2>1, <2>2 DEF front, back
    <3>3. CASE k < i
      BY <1>1, <2>3, <2>5, <3>1, <3>2, <3>3 DEF front
    <3>4. CASE ~(k < i)
      <4> HIDE DEF n, new, at
      <4>a. k - (i - 1) \in 1..(n - i)
        BY <3>1, <3>4
      <4>b. \A p \in 1..(Len(front) + Len(back)) :
               rest[p] = IF p <= Len(front) THEN front[p] ELSE back[p - Len(front)]
        BY <2>5, <3>2, ConcatProperties
      <4>c. k \in 1..(Len(front) + Len(back)) /\ ~(k <= Len(front))
        BY <3>1, <3>2, <3>4
      <4>1. rest[k] = back[k - (i - 1)] /\ k - (i - 1) \in 1..(n - i)
        BY <3>2, <4>a, <4>b, <4>c
      <4>2. i + (k - (i - 1)) = k + 1
        BY <3>1
      <4> QED
        BY <2>4, <3>4, <4>1, <4>2 DEF back
    <3> QED
      BY <3>3, <3>4
  <2> QED
    BY <2>6, <2>7
<1>3. /\ new \in Seq(S) /\ Len(new) = n
      /\ \A k \in D : new[k] = IF k = j THEN list[i] ELSE IF k < j THEN rest[k] ELSE rest[k - 1]
  <2>1. SubSeq(rest, 1, j - 1) \in Seq(S) /\ Len(SubSeq(rest, 1, j - 1)) = j - 1
    BY <1>1, <1>2
  <2>2. SubSeq(rest, j, n - 1) \in Seq(S) /\ Len(SubSeq(rest, j, n - 1)) = n - j
    BY <1>1, <1>2
  <2>3. \A k \in 1..(j - 1) : SubSeq(rest, 1, j - 1)[k] = rest[k]
    BY <1>1, <1>2
  <2>4. \A k \in 1..(n - j) : SubSeq(rest, j, n - 1)[k] = rest[j + k - 1]
    BY <1>1, <1>2
  <2> DEFINE front == SubSeq(rest, 1, j - 1)
             back == SubSeq(rest, j, n - 1)
             e == list[i]
             head == front \o <<e>>
  <2>5. new = head \o back
    BY <1>2 DEF InsertAt
  <2> HIDE DEF front, back, new, e
  <2>6. front \in Seq(S) /\ back \in Seq(S) /\ e \in S /\ Len(front) = j - 1 /\ Len(back) = n - j
    BY <1>1, <2>1, <2>2 DEF front, back, e
  <2>7. /\ head \in Seq(S) /\ Len(head) = j /\ head[j] = e
        /\ \A k \in 1..(j - 1) : head[k] = front[k]
    BY <1>1, <2>6
  <2> HIDE DEF head
  <2>8. new \in Seq(S) /\ Len(new) = n
    <3>1. head \in Seq(S) /\ back \in Seq(S)
      BY <2>6, <2>7
    <3>2. new \in Seq(S)
      BY <2>5, <3>1
    <3>3. Len(new) = Len(head) + Len(back)
      BY <2>5, <3>1
    <3> HIDE DEF n
    <3> QED
      BY <1>1, <2>6, <2>7, <3>2, <3>3
  <2>9. ASSUME NEW k \in D
        PROVE  new[k] = IF k = j THEN e ELSE IF k < j THEN rest[k] ELSE rest[k - 1]
    <3>1. k \in Int /\ j \in Int /\ n \in Int
      BY <1>1
    <3>2. CASE k = j
      BY <1>1, <2>5, <2>6, <2>7, <3>1, <3>2
    <3>3. CASE k < j
      <4>1. new[k] = head[k] /\ k \in 1..(j - 1)
        BY <1>1, <2>5, <2>6, <2>7, <3>1, <3>3
      <4> QED
        BY <2>3, <2>7, <3>1, <3>3, <4>1 DEF front
    <3>4. CASE k > j
      <4>1. new[k] = back[k - j] /\ k - j \in 1..(n - j)
        BY <1>1, <2>5, <2>6, <2>7, <3>1, <3>4
      <4>2. j + (k - j) - 1 = k - 1
        BY <3>1
      <4>3. back[k - j] = rest[j + (k - j) - 1]
        BY <2>4, <4>1 DEF back
      <4> QED
        BY <3>1, <3>4, <4>1, <4>2, <4>3
    <3> QED
      BY <3>1, <3>2, <3>3, <3>4
  <2> QED
    BY <2>8, <2>9 DEF e
<1> HIDE DEF rest, new
<1>4. at \in [D -> D]
  BY <1>1
<1>5. \A k \in D : new[k] = list[at[k]]
  <2>1. ASSUME NEW k \in D
        PROVE  new[k] = list[at[k]]
    <3>1. CASE k = j
      BY <1>3, <3>1
    <3>2. CASE k < j
      <4>1. k \in 1..(n - 1)
        BY <1>1, <3>2
      <4> QED
        BY <1>1, <1>2, <1>3, <3>2, <4>1
    <3>3. CASE k > j
      <4>1. k - 1 \in 1..(n - 1) /\ ~(k < j) /\ k # j
        BY <1>1, <3>3
      <4> QED
        BY <1>2, <1>3, <4>1
    <3> QED
      BY <1>1, <3>1, <3>2, <3>3
  <2> QED
    BY <2>1
<1>6. \A k, l \in D : at[k] = at[l] => k = l
  BY <1>1
<1>7. ASSUME NEW x \in D
      PROVE  \E k \in D : at[k] = x
  <2> DEFINE p == IF x < i THEN x ELSE x - 1
             k == IF x = i THEN j ELSE IF p < j THEN p ELSE p + 1
  <2>1. k \in D
    BY <1>1
  <2>2. at[k] = x
    BY <1>1
  <2> QED
    BY <2>1, <2>2
<1>8. Moved(list, i, j) = new
  BY DEF Moved, new, rest
<1>9. new \in Seq(S) /\ Len(new) = n
  BY <1>3
<1>10. Reorders(new, list, n, at)
  BY <1>4, <1>5, <1>6, <1>7 DEF Reorders
<1> QED
  BY <1>1, <1>8, <1>9, <1>10

\* part has the entries of list that are stored, or those that are not.
Picks(part, list, stored, n, at) ==
    /\ n \in Nat /\ at \in [1..n -> DOMAIN list]
    /\ part = [k \in 1..n |-> list[at[k]].entry]
    /\ \A k \in 1..n : list[at[k]].stored = stored
    /\ \A k, l \in 1..n : at[k] = at[l] => k = l
    /\ \A x \in DOMAIN list : list[x].stored = stored => \E k \in 1..n : at[k] = x

LEMMA PartFacts ==
  ASSUME NEW S, NEW list \in Seq(S), NEW stored
  PROVE  \E n, at : Picks(Part(list, stored), list, stored, n, at)
<1> DEFINE P == {k \in DOMAIN list : list[k].stored = stored}
           part == Kept(list, P)
           n == Len(part)
<1>1. Part(list, stored) = [k \in DOMAIN part |-> part[k].entry]
  BY DEF Part
<1>2. P \in SUBSET (DOMAIN list) /\ IsList(list)
  BY SeqFacts
<1>3. \A k \in P : k \in DOMAIN list /\ list[k].stored = stored
  OBVIOUS
<1>4. \A k \in DOMAIN list : list[k].stored = stored => k \in P
  OBVIOUS
<1> HIDE DEF P
<1>5. IsList(part)
  BY <1>2, KeptFacts
<1>6. PICK at \in [1..n -> P] :
            /\ \A k \in 1..n : part[k] = list[at[k]]
            /\ \A i, j \in 1..n : at[i] = at[j] => i = j
            /\ \A x \in P : \E k \in 1..n : at[k] = x
  BY <1>2, KeptFacts
<1>7. n \in Nat /\ DOMAIN part = 1..n
  BY <1>5 DEF IsList
<1> HIDE DEF part, n
<1>8. Part(list, stored) = [k \in 1..n |-> list[at[k]].entry]
  BY <1>1, <1>6, <1>7
<1>9. at \in [1..n -> DOMAIN list]
  BY <1>2, <1>6
<1>10. \A k \in 1..n : list[at[k]].stored = stored
  BY <1>3, <1>6
<1>11. \A x \in DOMAIN list : list[x].stored = stored => \E k \in 1..n : at[k] = x
  BY <1>4, <1>6
<1>12. Picks(Part(list, stored), list, stored, n, at)
  BY <1>6, <1>7, <1>8, <1>9, <1>10, <1>11 DEF Picks
<1> QED
  BY <1>12

LEMMA ConcatFacts ==
  ASSUME NEW S, NEW one \in Seq(S), NEW two \in Seq(S), NEW m, m = Len(one), NEW n, n = Len(two)
  PROVE  /\ one \o two \in Seq(S) /\ m \in Nat /\ n \in Nat
         /\ DOMAIN (one \o two) = 1..(m + n) /\ Len(one \o two) = m + n
         /\ \A k \in 1..m : (one \o two)[k] = one[k]
         /\ \A k \in 1..n : (one \o two)[m + k] = two[k]
OBVIOUS

\* Whatever the fields on screen are, a drag leaves some of them.
LEMMA DragTypes ==
  ASSUME NEW S, NEW f, f.shown \in Seq(S), f.added \in Seq(BOOLEAN),
         NEW i \in DOMAIN Places(f), NEW j \in DOMAIN Places(f),
         NEW order, order = Moved(Places(f), i, j)
  PROVE  Part(order, TRUE) \in Seq(S) /\ Part(order, FALSE) \in Seq(BOOLEAN)
<1> DEFINE shown == f.shown
           added == f.added
           X == [stored : {TRUE}, entry : S] \cup [stored : {FALSE}, entry : BOOLEAN]
           one == [k \in DOMAIN shown |-> [stored |-> TRUE, entry |-> shown[k]]]
           two == [k \in DOMAIN added |-> [stored |-> FALSE, entry |-> added[k]]]
<1>1. one \in Seq(X) /\ two \in Seq(X)
  <2>1. one \in [1..Len(shown) -> X] /\ two \in [1..Len(added) -> X]
    BY SeqFacts
  <2>2. Len(shown) \in Nat /\ Len(added) \in Nat
    BY SeqFacts
  <2> HIDE DEF X, one, two
  <2> QED
    BY <2>1, <2>2, ListIsSeq
<1>2. Places(f) = one \o two
  BY DEF Places
<1>3. /\ \A x \in X : x.stored = TRUE => x.entry \in S
      /\ \A x \in X : x.stored = FALSE => x.entry \in BOOLEAN
  OBVIOUS
<1> HIDE DEF one, two, X
<1>4. Places(f) \in Seq(X)
  BY <1>1, <1>2, ConcatFacts
<1>5. order \in Seq(X)
  BY <1>4, MovedFacts
<1>6. ASSUME NEW stored, NEW T, \A x \in X : x.stored = stored => x.entry \in T
      PROVE  Part(order, stored) \in Seq(T)
  <2>1. PICK n, at : Picks(Part(order, stored), order, stored, n, at)
    BY <1>5, PartFacts
  <2>2. /\ n \in Nat /\ at \in [1..n -> DOMAIN order]
        /\ Part(order, stored) = [k \in 1..n |-> order[at[k]].entry]
        /\ \A k \in 1..n : order[at[k]].stored = stored
    BY <2>1 DEF Picks
  <2>3. \A k \in DOMAIN order : order[k] \in X
    BY <1>5, SeqFacts
  <2>4. Part(order, stored) \in [1..n -> T]
    BY <1>6, <2>2, <2>3
  <2> QED
    BY <2>2, <2>4, ListIsSeq
<1> QED
  BY <1>3, <1>6

\* A drag shows the same fields, and the same number of entries added.
LEMMA DragFacts ==
  ASSUME NEW f, f.shown \in Seq(FieldEntry), Distinct(f.shown), f.added \in Seq(BOOLEAN),
         NEW i \in DOMAIN Places(f), NEW j \in DOMAIN Places(f),
         NEW order, order = Moved(Places(f), i, j)
  PROVE  /\ Part(order, TRUE) \in Seq(FieldEntry) /\ Distinct(Part(order, TRUE))
         /\ Range(Part(order, TRUE)) = Range(f.shown)
         /\ Part(order, FALSE) \in Seq(BOOLEAN)
         /\ Part(order, FALSE) # <<>> => f.added # <<>>
<1> DEFINE shown == f.shown
           added == f.added
           m == Len(shown)
           a == Len(added)
           X == [stored : {TRUE}, entry : FieldEntry] \cup [stored : {FALSE}, entry : BOOLEAN]
           one == [k \in DOMAIN shown |-> [stored |-> TRUE, entry |-> shown[k]]]
           two == [k \in DOMAIN added |-> [stored |-> FALSE, entry |-> added[k]]]
           places == Places(f)
<1>1. /\ m \in Nat /\ DOMAIN shown = 1..m /\ \A k \in 1..m : shown[k] \in FieldEntry
      /\ a \in Nat /\ DOMAIN added = 1..a /\ \A k \in 1..a : added[k] \in BOOLEAN
  BY SeqFacts
<1>2. one \in Seq(X) /\ Len(one) = m
         /\ \A k \in 1..m : one[k] = [stored |-> TRUE, entry |-> shown[k]]
  <2>1. one \in [1..m -> X]
    BY <1>1
  <2> HIDE DEF X
  <2> QED
    BY <1>1, <2>1, ListIsSeq
<1>3. two \in Seq(X) /\ Len(two) = a
         /\ \A k \in 1..a : two[k] = [stored |-> FALSE, entry |-> added[k]]
  <2>1. two \in [1..a -> X]
    BY <1>1
  <2> HIDE DEF X
  <2> QED
    BY <1>1, <2>1, ListIsSeq
<1>4. places = one \o two
  BY DEF Places
<1> HIDE DEF one, two, X, places, shown, added, m, a
<1>5. /\ places \in Seq(X) /\ Len(places) = m + a /\ DOMAIN places = 1..(m + a)
      /\ \A k \in 1..m : places[k] = [stored |-> TRUE, entry |-> shown[k]]
      /\ \A k \in 1..(m + a) : k > m => places[k] = [stored |-> FALSE, entry |-> added[k - m]]
  <2>1. /\ places \in Seq(X) /\ Len(places) = m + a /\ DOMAIN places = 1..(m + a)
        /\ \A k \in 1..m : places[k] = one[k]
        /\ \A k \in 1..a : places[m + k] = two[k]
    <3>1. m = Len(one) /\ a = Len(two) /\ one \in Seq(X) /\ two \in Seq(X)
      BY <1>2, <1>3
    <3>2. one \o two \in Seq(X) /\ Len(one \o two) = m + a /\ DOMAIN (one \o two) = 1..(m + a)
      BY <3>1, ConcatFacts
    <3>3. /\ \A k \in 1..m : (one \o two)[k] = one[k]
          /\ \A k \in 1..a : (one \o two)[m + k] = two[k]
      BY <3>1, ConcatFacts
    <3> QED
      BY <1>4, <3>2, <3>3
  <2>3. ASSUME NEW k \in 1..m
        PROVE  places[k] = [stored |-> TRUE, entry |-> shown[k]]
    BY <1>2, <2>1
  <2>4. ASSUME NEW k \in 1..(m + a), k > m
        PROVE  places[k] = [stored |-> FALSE, entry |-> added[k - m]]
    <3>1. k - m \in 1..a
      BY <1>1, <2>4
    <3>2. places[m + (k - m)] = two[k - m] /\ m + (k - m) = k
      BY <1>1, <2>1, <3>1
    <3> QED
      BY <1>3, <3>1, <3>2
  <2> QED
    BY <2>1, <2>3, <2>4
<1> DEFINE D == 1..(m + a)
<1>6. order \in Seq(X) /\ DOMAIN order = D /\ \E at : Reorders(order, places, m + a, at)
  <2>1. i \in DOMAIN places /\ j \in DOMAIN places /\ order = Moved(places, i, j)
    BY DEF places
  <2> DEFINE moved == Moved(places, i, j)
  <2>2. moved \in Seq(X) /\ DOMAIN moved = 1..Len(places)
    <3>1. moved \in Seq(X)
      BY <1>5, <2>1, MovedFacts
    <3>2. Len(moved) = Len(places)
      BY <1>5, <2>1, MovedFacts
    <3>3. DOMAIN moved = 1..Len(moved)
      BY <3>1, SeqFacts
    <3> QED
      BY <3>1, <3>2, <3>3
  <2>3. \E at : Reorders(moved, places, Len(places), at)
    BY <1>5, <2>1, MovedFacts
  <2>4. order = moved
    BY <2>1
  <2> HIDE DEF moved
  <2> QED
    BY <1>5, <2>2, <2>3, <2>4
<1>x. PICK at : Reorders(order, places, m + a, at)
  BY <1>6
<1>7. /\ at \in [D -> D]
      /\ \A k \in D : order[k] = places[at[k]]
      /\ \A k, l \in D : at[k] = at[l] => k = l
      /\ \A x \in D : \E k \in D : at[k] = x
  BY <1>x DEF Reorders
<1>8. \A k \in D : /\ order[k].stored \in BOOLEAN
                   /\ order[k].stored = TRUE => at[k] \in 1..m /\ order[k].entry = shown[at[k]]
                   /\ order[k].stored = FALSE =>
                         /\ at[k] - m \in 1..a /\ order[k].entry = added[at[k] - m]
  <2>1. ASSUME NEW k \in D
        PROVE  at[k] \in D /\ order[k] = places[at[k]]
    BY <1>7
  <2>2. ASSUME NEW p \in D
        PROVE  /\ p \in 1..m \/ (p > m /\ p - m \in 1..a)
               /\ p \in Int
    BY <1>1
  <2> HIDE DEF D
  <2>3. ASSUME NEW k \in D
        PROVE  /\ order[k].stored \in BOOLEAN
               /\ order[k].stored = TRUE => at[k] \in 1..m /\ order[k].entry = shown[at[k]]
               /\ order[k].stored = FALSE => at[k] - m \in 1..a /\ order[k].entry = added[at[k] - m]
    <3> DEFINE p == at[k]
    <3>1. p \in D /\ order[k] = places[p]
      BY <2>1
    <3> HIDE DEF p
    <3>2. CASE p \in 1..m
      <4>1. places[p] = [stored |-> TRUE, entry |-> shown[p]]
        BY <1>5, <3>2
      <4> QED
        BY <3>1, <3>2, <4>1 DEF p
    <3>3. CASE p > m /\ p - m \in 1..a
      <4>1. places[p] = [stored |-> FALSE, entry |-> added[p - m]]
        BY <1>5, <3>1, <3>3 DEF D
      <4> QED
        BY <3>1, <3>3, <4>1 DEF p
    <3> QED
      BY <2>2, <3>1, <3>2, <3>3
  <2> QED
    BY <2>3
<1>9. PICK n, from : Picks(Part(order, TRUE), order, TRUE, n, from)
  BY <1>6, PartFacts
<1>10. PICK n2, from2 : Picks(Part(order, FALSE), order, FALSE, n2, from2)
  BY <1>6, PartFacts
<1>14. /\ Part(order, TRUE) = [k \in 1..n |-> order[from[k]].entry]
       /\ \A k \in 1..n : order[from[k]].stored = TRUE
       /\ \A k, l \in 1..n : from[k] = from[l] => k = l
       /\ \A x \in DOMAIN order : order[x].stored = TRUE => \E k \in 1..n : from[k] = x
       /\ n \in Nat /\ from \in [1..n -> DOMAIN order]
  BY <1>9 DEF Picks
<1>15. /\ Part(order, FALSE) = [k \in 1..n2 |-> order[from2[k]].entry]
       /\ \A k \in 1..n2 : order[from2[k]].stored = FALSE
       /\ n2 \in Nat /\ from2 \in [1..n2 -> DOMAIN order]
  BY <1>10 DEF Picks
<1> DEFINE new == Part(order, TRUE)
           rest == Part(order, FALSE)
<1>16. DOMAIN order = D
  BY <1>6
<1> HIDE DEF D, new, rest
<1>17. \A k \in 1..n : /\ from[k] \in D /\ at[from[k]] \in 1..m
                       /\ new[k] = shown[at[from[k]]]
  <2>1. ASSUME NEW k \in 1..n
        PROVE  from[k] \in D /\ order[from[k]].stored = TRUE /\ new[k] = order[from[k]].entry
    BY <1>14, <1>16 DEF new
  <2>2. ASSUME NEW k \in 1..n
        PROVE  at[from[k]] \in 1..m /\ order[from[k]].entry = shown[at[from[k]]]
    BY <1>8, <2>1
  <2> QED
    BY <2>1, <2>2
<1>18. new \in [1..n -> FieldEntry]
  <2>1. \A k \in 1..n : new[k] \in FieldEntry
    BY <1>1, <1>17
  <2>2. new = [k \in 1..n |-> new[k]]
    BY <1>14 DEF new
  <2> QED
    BY <2>1, <2>2
<1>19. new \in Seq(FieldEntry) /\ DOMAIN new = 1..n
  BY <1>14, <1>18, ListIsSeq
<1>20. Distinct(new)
  <2>1. ASSUME NEW k \in 1..n, NEW l \in 1..n, new[k].id = new[l].id
        PROVE  k = l
    <3>1. shown[at[from[k]]].id = shown[at[from[l]]].id
      BY <1>17, <2>1
    <3>2. at[from[k]] = at[from[l]]
      BY <1>1, <1>17, <3>1 DEF Distinct, shown
    <3> QED
      BY <1>7, <1>14, <1>17, <3>2
  <2> QED
    BY <1>19, <2>1 DEF Distinct
<1>21. ASSUME NEW x \in Range(new)
       PROVE  x \in Range(shown)
  <2>1. PICK k \in DOMAIN new : x = new[k]
    BY RangeFacts
  <2> QED
    BY <1>1, <1>17, <1>19, <2>1, RangeFacts
<1>22. ASSUME NEW x \in Range(shown)
       PROVE  x \in Range(new)
  <2>1. PICK p \in DOMAIN shown : x = shown[p]
    BY RangeFacts
  <2>2. p \in 1..m /\ p \in D
    BY <1>1, <2>1 DEF D
  <2>3. PICK k \in D : at[k] = p
    BY <1>7, <2>2
  <2>4. order[k] = [stored |-> TRUE, entry |-> shown[p]]
    BY <1>5, <1>7, <2>2, <2>3
  <2>5. PICK l \in 1..n : from[l] = k
    BY <1>14, <1>16, <2>4
  <2>6. new[l] = x
    BY <1>17, <2>1, <2>3, <2>5
  <2> QED
    BY <1>19, <2>6, RangeFacts
<1>23. rest \in [1..n2 -> BOOLEAN]
  <2>1. ASSUME NEW k \in 1..n2
        PROVE  rest[k] \in BOOLEAN
    <3>1. from2[k] \in D /\ order[from2[k]].stored = FALSE /\ rest[k] = order[from2[k]].entry
      BY <1>15, <1>16 DEF rest
    <3> QED
      BY <1>1, <1>8, <3>1
  <2> QED
    BY <1>15, <2>1 DEF rest
<1>24. rest \in Seq(BOOLEAN) /\ DOMAIN rest = 1..n2 /\ Len(rest) = n2
  BY <1>15, <1>23, ListIsSeq
<1>25. ASSUME rest # <<>>
       PROVE  added # <<>>
  <2>1. n2 # 0
    BY <1>24, <1>25
  <2>2. 1 \in 1..n2
    BY <1>15, <2>1
  <2>3. from2[1] \in D /\ order[from2[1]].stored = FALSE
    BY <1>15, <1>16, <2>2
  <2>4. at[from2[1]] - m \in 1..a
    BY <1>8, <2>3
  <2>5. a # 0
    BY <2>4
  <2> QED
    BY <1>1, <2>5 DEF a
<1> QED
  BY <1>19, <1>20, <1>21, <1>22, <1>24, <1>25 DEF new, rest, shown, added

-----------------------------------------------------------------------------
(* The page, some answers behind the server.                               *)

\* The page has a copy of s, or has never seen a field of it.
Tracked(base, ls, s) == ls[s].data # None \/ FieldsOf(base, s) = {}

IsEntry(q) ==
    DOMAIN q = {"data", "stale", "error", "fetch"} /\ DOMAIN q.fetch = {"at", "value"}

\* The copies are of the fields the page has been told of, and the names omit
\* no schema whose fields it would have to ask for.
CopiesOK(base, ns, ls) ==
    /\ IsEntry(ns) /\ ls = [s \in Schemas |-> ls[s]]
    /\ \A s \in Schemas :
          IsEntry(ls[s]) /\ (ls[s].data # None => Mirrors(ls[s].data, base, s))
    /\ \A s \in Schemas \ ns.data : Tracked(base, ls, s)

\* An answer on its way is what the server has, and no write's answer is late.
AnswersOK(ns, ls) ==
    /\ HasAnswer(ns) => Unread = {} /\ ns.fetch.value = SchemaNames(fields)
    /\ \A s \in Schemas :
          HasAnswer(ls[s]) => Unread = {} /\ ls[s].fetch.value = Answer(fields, s)

\* n is the last id given out.
FormOK(home, n, base, ls, f, p) ==
    /\ DOMAIN f = {"shown", "added", "edits"}
    /\ f.shown \in Seq(FieldEntry) /\ Distinct(f.shown)
    /\ f.added \in Seq(BOOLEAN) /\ f.edits \in [Ids -> BOOLEAN \cup {None}]
    /\ IF p = SchemaList THEN f.shown = <<>> /\ f.added = <<>> ELSE p \in Schemas
    /\ \A e \in Range(f.shown) : e.id <= n /\ Tracked(base, ls, home[e.id]) /\ Tracked(base, ls, p)
    /\ f.added # <<>> => Tracked(base, ls, p)
    /\ \A id \in Ids : f.edits[id] # None => id <= n /\ Tracked(base, ls, home[id])

\* What a request still has to do, it does to fields of its own schema.
Aimed(home, n, base, ls, r) ==
    /\ r.op = "create" =>
          r.schema \in Schemas /\ r.change.display \in BOOLEAN /\ Tracked(base, ls, r.schema)
    /\ r.op # "create" =>
          /\ r.id \in Ids /\ r.id <= n /\ Tracked(base, ls, home[r.id])
          /\ r.change.display \in BOOLEAN \cup {None}
    /\ r.op = "delete" => r.schema = home[r.id]
    /\ r.at \in {"checked", "done"} =>
          /\ r.op # "delete" => r.row \in FieldRow
          /\ r.op = "create" => r.row.schema = r.schema
          /\ r.op = "update" => r.row.schema = home[r.id]
    /\ r.at = "done" /\ r.op = "create" => r.id \in Ids /\ r.id <= n /\ home[r.id] = r.schema

RequestOK(home, n, base, ls, r) ==
    /\ r.at # "failed" => Aimed(home, n, base, ls, r)
    /\ \A s \in Schemas \ r.known : Tracked(base, ls, s)

\* h is what the server's fields were after each write whose answer is still
\* to come: h[lo] when the last answer the page has read was given, h[hi] now.
Behind(home, h, lo, hi, n) ==
    /\ lo \in Nat /\ hi \in Nat /\ lo <= hi /\ n \in Nat
    /\ home \in [Ids -> Schemas] /\ h = [k \in Nat |-> h[k]]
    /\ \A k \in lo..hi :
          RowsOK(h[k]) /\ Homes(home, h[k]) /\ \A id \in Stored(h[k]) : id <= n
    /\ \A r \in Unread : r.turn \in (lo + 1)..hi /\ Wrote(home, r, h[r.turn - 1], h[r.turn])
    /\ \A r, q \in Unread : r.turn = q.turn => r = q
    /\ \A k \in (lo + 1)..hi : \E r \in Unread : r.turn = k

Synced(home, h, lo, hi) ==
    /\ Behind(home, h, lo, hi, made) /\ h[hi] = fields
    /\ Unread = {} => hi = 0
    /\ CopiesOK(h[lo], names, lists) /\ AnswersOK(names, lists)
    /\ FormOK(home, made, h[lo], lists, form, page)
    /\ \A r \in requests : RequestOK(home, made, h[lo], lists, r)

Peaceful == mishaps \cap {"disorder", "lost", "astray"} = {}

\* Each create still to be written has an id left.
Pending(rs) == {r \in rs : r.op = "create" /\ r.at \in {"sent", "checked"}}
CountOK ==
    /\ made \in Nat /\ sent \in Nat /\ IsFiniteSet(requests)
    /\ sent <= MaxRequests /\ made + Cardinality(Pending(requests)) <= StartFields + sent

SyncInv == Peaceful => CountOK /\ \E home, h, lo, hi : Synced(home, h, lo, hi)

-----------------------------------------------------------------------------
(* What the page knows stays known.                                        *)

Later(base, ls, base2, ls2) ==
    \A s \in Schemas : Tracked(base, ls, s) => Tracked(base2, ls2, s)

LEMMA FormLater ==
  ASSUME NEW home \in [Ids -> Schemas], NEW n, NEW base, NEW ls, NEW base2, NEW ls2,
         Later(base, ls, base2, ls2), NEW f, NEW p, FormOK(home, n, base, ls, f, p)
  PROVE  FormOK(home, n, base2, ls2, f, p)
<1>1. \A id \in Ids : home[id] \in Schemas
  OBVIOUS
<1>2. ASSUME NEW e \in Range(f.shown)
      PROVE  e.id <= n /\ Tracked(base2, ls2, home[e.id]) /\ Tracked(base2, ls2, p)
  <2>1. p \in Schemas
    BY DEF FormOK, Range
  <2>2. e.id \in Ids
    <3> DEFINE list == f.shown
    <3>1. list \in Seq(FieldEntry) /\ e \in Range(list)
      BY DEF FormOK
    <3> HIDE DEF list
    <3>2. e \in FieldEntry
      BY <3>1, SeqFacts, RangeFacts
    <3> QED
      BY <3>2 DEF FieldEntry
  <2>3. home[e.id] \in Schemas
    BY <2>2
  <2> QED
    BY <2>1, <2>3 DEF FormOK, Later
<1>3. f.added # <<>> => Tracked(base2, ls2, p)
  BY DEF FormOK, Later
<1>4. \A id \in Ids : f.edits[id] # None => id <= n /\ Tracked(base2, ls2, home[id])
  BY <1>1 DEF FormOK, Later
<1> QED
  BY <1>2, <1>3, <1>4 DEF FormOK

LEMMA RequestLater ==
  ASSUME NEW home \in [Ids -> Schemas], NEW n, NEW base, NEW ls, NEW base2, NEW ls2,
         Later(base, ls, base2, ls2), NEW r, RequestOK(home, n, base, ls, r)
  PROVE  RequestOK(home, n, base2, ls2, r)
<1>1. \A id \in Ids : home[id] \in Schemas
  OBVIOUS
<1>2. ASSUME Aimed(home, n, base, ls, r)
      PROVE  Aimed(home, n, base2, ls2, r)
  BY <1>1, <1>2 DEF Aimed, Later
<1> QED
  BY <1>2 DEF RequestOK, Later

\* An id that has just been given out is known to nobody.
Extends(home, n, home2, n2) ==
    /\ n \in Nat /\ n2 \in Nat /\ n <= n2 /\ home2 \in [Ids -> Schemas]
    /\ \A id \in Ids : id <= n => home2[id] = home[id]

LEMMA FormExtends ==
  ASSUME NEW home, NEW n, NEW home2, NEW n2, Extends(home, n, home2, n2),
         NEW base, NEW ls, NEW f, NEW p, FormOK(home, n, base, ls, f, p)
  PROVE  FormOK(home2, n2, base, ls, f, p)
<1>1. Ids \subseteq Int
  BY FieldsFinite
<1>2. ASSUME NEW e \in Range(f.shown)
      PROVE  e.id \in Ids
  <2> DEFINE list == f.shown
  <2>1. list \in Seq(FieldEntry) /\ e \in Range(list)
    BY DEF FormOK
  <2> HIDE DEF list
  <2>2. e \in FieldEntry
    BY <2>1, SeqFacts, RangeFacts
  <2> QED
    BY <2>2 DEF FieldEntry
<1>3. ASSUME NEW e \in Range(f.shown)
      PROVE  e.id <= n2 /\ Tracked(base, ls, home2[e.id]) /\ Tracked(base, ls, p)
  <2> DEFINE id == e.id
  <2>1. id \in Ids /\ id <= n /\ Tracked(base, ls, home[id]) /\ Tracked(base, ls, p)
    BY <1>2 DEF FormOK
  <2> HIDE DEF id
  <2>2. id <= n2 /\ home2[id] = home[id]
    BY <1>1, <2>1 DEF Extends
  <2> QED
    BY <2>1, <2>2 DEF id
<1>4. \A id \in Ids : f.edits[id] # None => id <= n2 /\ Tracked(base, ls, home2[id])
  BY <1>1 DEF FormOK, Extends
<1> QED
  BY <1>3, <1>4 DEF FormOK

LEMMA RequestExtends ==
  ASSUME NEW home, NEW n, NEW home2, NEW n2, Extends(home, n, home2, n2),
         NEW base, NEW ls, NEW r, RequestOK(home, n, base, ls, r)
  PROVE  RequestOK(home2, n2, base, ls, r)
<1>1. Ids \subseteq Int
  BY FieldsFinite
<1>2. ASSUME NEW id \in Ids, id <= n
      PROVE  id <= n2 /\ home2[id] = home[id]
  BY <1>1, <1>2 DEF Extends
<1>3. ASSUME Aimed(home, n, base, ls, r)
      PROVE  Aimed(home2, n2, base, ls, r)
  BY <1>2, <1>3 DEF Aimed
<1> QED
  BY <1>3 DEF RequestOK

-----------------------------------------------------------------------------
(* The cache.                                                              *)

LEMMA CacheFacts ==
  ASSUME NEW q, IsEntry(q)
  PROVE  /\ IsEntry(Ask(q)) /\ Ask(q).data = q.data
         /\ HasAnswer(Ask(q)) => HasAnswer(q) /\ Ask(q).fetch = q.fetch
         /\ \A v : IsEntry(SetData(q, v)) /\ SetData(q, v).data = v /\ SetData(q, v).fetch = q.fetch
         /\ IsEntry(Arrived(q)) /\ Arrived(q).data = q.fetch.value /\ ~HasAnswer(Arrived(q))
         /\ \A e : IsEntry(Failed(q, e)) /\ Failed(q, e).data = q.data /\ ~HasAnswer(Failed(q, e))
         /\ LET old == [q EXCEPT !.stale = TRUE]
            IN  IsEntry(old) /\ old.data = q.data /\ old.fetch = q.fetch
         /\ \A v : LET new == [q EXCEPT !.fetch = Answered(v)]
                   IN  IsEntry(new) /\ new.data = q.data /\ new.fetch.value = v
<1>1. ASSUME NEW v
      PROVE  IsEntry(SetData(q, v)) /\ SetData(q, v).data = v /\ SetData(q, v).fetch = q.fetch
  BY DEF IsEntry, SetData
<1>2. IsEntry(Ask(q)) /\ Ask(q).data = q.data
      /\ (HasAnswer(Ask(q)) => HasAnswer(q) /\ Ask(q).fetch = q.fetch)
  <2>1. CASE Ask(q) = q
    BY <2>1
  <2>2. CASE Ask(q) # q
    <3> DEFINE error == IF q.data = None THEN "no" ELSE q.error
    <3>1. Ask(q) = [q EXCEPT !.fetch.at = "asked", !.error = error]
      BY <2>2 DEF Ask, IsEntry
    <3> HIDE DEF error
    <3> QED
      BY <3>1 DEF IsEntry, HasAnswer
  <2> QED
    BY <2>1, <2>2
<1>3. IsEntry(Arrived(q)) /\ Arrived(q).data = q.fetch.value /\ ~HasAnswer(Arrived(q))
  BY DEF IsEntry, Arrived, SetData, HasAnswer, Idle
<1>4. ASSUME NEW e
      PROVE  IsEntry(Failed(q, e)) /\ Failed(q, e).data = q.data /\ ~HasAnswer(Failed(q, e))
  BY DEF IsEntry, Failed, HasAnswer, Idle
<1>5. LET old == [q EXCEPT !.stale = TRUE]
      IN  IsEntry(old) /\ old.data = q.data /\ old.fetch = q.fetch
  BY DEF IsEntry
<1>6. ASSUME NEW v
      PROVE  LET new == [q EXCEPT !.fetch = Answered(v)]
             IN  IsEntry(new) /\ new.data = q.data /\ new.fetch.value = v
  BY DEF IsEntry, Answered
<1> QED
  BY <1>1, <1>2, <1>3, <1>4, <1>5, <1>6

\* The same data, and no answer that was not there before.
SameData(ls, ls2) ==
    /\ ls2 = [s \in Schemas |-> ls2[s]]
    /\ \A s \in Schemas :
          /\ IsEntry(ls2[s]) /\ ls2[s].data = ls[s].data
          /\ HasAnswer(ls2[s]) => HasAnswer(ls[s]) /\ ls2[s].fetch = ls[s].fetch

LEMMA SameCopies ==
  ASSUME NEW base, NEW ns, NEW ls, NEW ls2, CopiesOK(base, ns, ls), SameData(ls, ls2)
  PROVE  CopiesOK(base, ns, ls2) /\ Later(base, ls, base, ls2)
BY DEF CopiesOK, SameData, Later, Tracked

LEMMA ReflexiveSame ==
  ASSUME NEW base, NEW ns, NEW ls, CopiesOK(base, ns, ls)
  PROVE  SameData(ls, ls)
BY DEF CopiesOK, SameData

LEMMA QueriedSame ==
  ASSUME NEW ns, NEW ls, SameData(ls, ls), NEW s \in Schemas
  PROVE  SameData(ls, Queried(ls, s, ns)) /\ SameData(ls, [ls EXCEPT ![s] = Ask(@)])
<1> DEFINE new == [ls EXCEPT ![s] = Ask(@)]
<1>1. /\ ls = [t \in Schemas |-> ls[t]] /\ \A t \in Schemas : IsEntry(ls[t])
  BY DEF SameData
<1>2. new = [t \in Schemas |-> new[t]] /\ new[s] = Ask(ls[s]) /\ \A t \in Schemas : t # s
         => new[t] = ls[t]
  BY <1>1
<1> HIDE DEF new
<1>3. SameData(ls, new)
  <2>1. ASSUME NEW t \in Schemas
        PROVE  /\ IsEntry(new[t]) /\ new[t].data = ls[t].data
               /\ HasAnswer(new[t]) => HasAnswer(ls[t]) /\ new[t].fetch = ls[t].fetch
    <3>1. CASE t = s
      <4> DEFINE q == ls[s]
      <4>1. IsEntry(q)
        BY <1>1
      <4> HIDE DEF q
      <4>2. /\ IsEntry(Ask(q)) /\ Ask(q).data = q.data
            /\ HasAnswer(Ask(q)) => HasAnswer(q) /\ Ask(q).fetch = q.fetch
        BY <4>1, CacheFacts
      <4>3. new[t] = Ask(q) /\ ls[t] = q
        BY <1>2, <3>1 DEF q
      <4> QED
        BY <4>2, <4>3
    <3>2. CASE t # s
      BY <1>1, <1>2, <3>2
    <3> QED
      BY <3>1, <3>2
  <2> QED
    BY <1>2, <2>1 DEF SameData
<1> QED
  BY <1>3 DEF Queried, new

\* What is listed of a schema are its fields, each once.
LEMMA ListedFacts ==
  ASSUME NEW base, NEW ns, NEW ls, CopiesOK(base, ns, ls), NEW s \in Schemas
  PROVE  /\ Listed(ns, ls, s) \in Seq(FieldEntry) /\ Distinct(Listed(ns, ls, s))
         /\ \A e \in Range(Listed(ns, ls, s)) : e.id \in FieldsOf(base, s) /\ Tracked(base, ls, s)
         /\ IsNew(ns, s) => Tracked(base, ls, s)
<1>1. CASE Listed(ns, ls, s) = <<>>
  BY <1>1 DEF Distinct, Range, IsNew, CopiesOK
<1>2. CASE Listed(ns, ls, s) # <<>>
  <2>1. Listed(ns, ls, s) = ls[s].data /\ ls[s].data # None /\ ~IsNew(ns, s)
    BY <1>2 DEF Listed, Known
  <2>2. Mirrors(ls[s].data, base, s)
    BY <2>1 DEF CopiesOK
  <2> QED
    BY <2>1, <2>2, MirrorsFacts DEF Tracked
<1> QED
  BY <1>1, <1>2

LEMMA EmptyFacts ==
  ASSUME NEW S
  PROVE  <<>> \in Seq(S) /\ Distinct(<<>>) /\ Range(<<>>) = {}
BY DEF Distinct, Range

\* SchemaComponent's effects show what is listed, and offer an entry only for a
\* schema that the page need not ask for.
LEMMA RenderedOK ==
  ASSUME NEW home \in [Ids -> Schemas], NEW n, NEW base, NEW base2, NEW ns, NEW ls, NEW g,
         FormOK(home, n, base, lists, g, page), page # SchemaList,
         CopiesOK(base2, ns, ls), Later(base, lists, base2, ls),
         Homes(home, base2), \A id \in Stored(base2) : id <= n
  PROVE  FormOK(home, n, base2, ls, Rendered(g, page, ns, ls), page)
<1> DEFINE f == Rendered(g, page, ns, ls)
           listed == Listed(ns, ls, page)
<1>1. FormOK(home, n, base2, ls, g, page) /\ page \in Schemas
  <2>1. FormOK(home, n, base2, ls, g, page)
    BY FormLater
  <2>2. page \in Schemas
    BY DEF FormOK
  <2> QED
    BY <2>1, <2>2
<1>2. /\ listed \in Seq(FieldEntry) /\ Distinct(listed)
      /\ \A e \in Range(listed) : e.id \in FieldsOf(base2, page) /\ Tracked(base2, ls, page)
      /\ IsNew(ns, page) => Tracked(base2, ls, page)
  BY <1>1, ListedFacts
<1>3. \A e \in Range(listed) : e.id <= n /\ home[e.id] = page
  BY <1>2 DEF FieldsOf, Homes
<1>4. /\ DOMAIN f = DOMAIN g /\ f.edits = g.edits
      /\ f.shown = g.shown \/ f.shown = listed
      /\ f.added = g.added \/ f.added = <<>> \/ (f.added = <<FALSE>> /\ IsNew(ns, page))
  BY <1>1 DEF Rendered, FormOK
<1> HIDE DEF f, listed
<1>5. f.shown \in Seq(FieldEntry) /\ Distinct(f.shown)
  BY <1>1, <1>2, <1>4 DEF FormOK
<1>6. \A e \in Range(f.shown) : 
             e.id <= n /\ Tracked(base2, ls, home[e.id]) /\ Tracked(base2, ls, page)
  BY <1>1, <1>2, <1>3, <1>4 DEF FormOK
<1>7. f.added \in Seq(BOOLEAN)
  <2>1. <<>> \in Seq(BOOLEAN) /\ <<FALSE>> \in Seq(BOOLEAN)
    OBVIOUS
  <2> QED
    BY <1>1, <1>4, <2>1 DEF FormOK
<1>8. f.added # <<>> => Tracked(base2, ls, page)
  BY <1>1, <1>2, <1>4 DEF FormOK
<1> QED
  BY <1>1, <1>4, <1>5, <1>6, <1>7, <1>8 DEF FormOK, f

LEMMA OpenedOK ==
  ASSUME NEW home, NEW n, NEW base, NEW ns, NEW ls, NEW f, NEW p,
         FormOK(home, n, base, ls, f, p), CopiesOK(base, ns, ls),
         Homes(home, base), \A id \in Stored(base) : id <= n,
         NEW s \in Schemas, s # SchemaList
  PROVE  FormOK(home, n, base, ls, Opened(f, s, ns, ls), s)
<1> DEFINE g == Opened(f, s, ns, ls)
           listed == Listed(ns, ls, s)
<1>1. /\ listed \in Seq(FieldEntry) /\ Distinct(listed)
      /\ \A e \in Range(listed) : e.id \in FieldsOf(base, s) /\ Tracked(base, ls, s)
      /\ IsNew(ns, s) => Tracked(base, ls, s)
  BY ListedFacts
<1>2. \A e \in Range(listed) : e.id <= n /\ home[e.id] = s
  BY <1>1 DEF FieldsOf, Homes
<1>3. /\ DOMAIN g = DOMAIN f /\ g.edits = f.edits
      /\ g.shown = listed \/ (g.shown = f.shown /\ IsNew(ns, s))
      /\ g.added = <<>> \/ (g.added = <<FALSE>> /\ IsNew(ns, s))
  BY DEF Opened, Cleared, FormOK
<1> HIDE DEF g, listed
<1>5. g.shown \in Seq(FieldEntry) /\ Distinct(g.shown)
  BY <1>1, <1>3 DEF FormOK
<1>6. \A e \in Range(g.shown) :
         e.id <= n /\ Tracked(base, ls, home[e.id]) /\ Tracked(base, ls, s)
  BY <1>1, <1>2, <1>3 DEF FormOK
<1>4. g.added \in Seq(BOOLEAN)
  <2>1. <<>> \in Seq(BOOLEAN) /\ <<FALSE>> \in Seq(BOOLEAN)
    OBVIOUS
  <2> QED
    BY <1>3, <2>1
<1> QED
  BY <1>1, <1>3, <1>4, <1>5, <1>6 DEF FormOK, g

LEMMA NoFormOK ==
  ASSUME NEW home, NEW n, NEW base, NEW ls
  PROVE  FormOK(home, n, base, ls, NoForm, SchemaList)
<1>1. /\ DOMAIN NoForm = {"shown", "added", "edits"} /\ NoForm.shown = <<>> /\ NoForm.added = <<>>
      /\ NoForm.edits = [id \in Ids |-> None]
  BY DEF NoForm
<1> HIDE DEF NoForm
<1> QED
  BY <1>1, EmptyFacts DEF FormOK

\* Whatever changes the cache in step with what the page has read of the
\* server keeps page and cache in order.
LEMMA CachedOK ==
  ASSUME NEW home \in [Ids -> Schemas], NEW n, NEW base, NEW base2, NEW ns, NEW ls, NEW g,
         FormOK(home, n, base, lists, form, page), FormOK(home, n, base, lists, g, page),
         CopiesOK(base2, ns, ls), Later(base, lists, base2, ls),
         Homes(home, base2), \A id \in Stored(base2) : id <= n,
         Cached(g, ns, ls) \/ CachedAndLeft(ns, ls)
  PROVE  /\ names' = ns /\ SameData(ls, lists') /\ CopiesOK(base2, ns, lists')
         /\ Later(base, lists, base2, lists')
         /\ FormOK(home, n, base2, lists', form', page')
<1>1. SameData(ls, ls)
  BY ReflexiveSame
<1>2. SUFFICES /\ names' = ns /\ SameData(ls, lists')
               /\ FormOK(home, n, base2, ls, form', page')
  <2>1. CopiesOK(base2, ns, lists') /\ Later(base2, ls, base2, lists')
    BY <1>2, SameCopies
  <2>2. FormOK(home, n, base2, lists', form', page')
    BY <1>2, <2>1, FormLater
  <2>3. Later(base, lists, base2, lists')
    BY <2>1 DEF Later
  <2> QED
    BY <1>2, <2>1, <2>2, <2>3
<1>3. CASE CachedAndLeft(ns, ls)
  BY <1>1, <1>3, NoFormOK DEF CachedAndLeft
<1>4. CASE Cached(g, ns, ls) /\ page = SchemaList
  <2>1. names' = ns /\ lists' = ls /\ form' = form /\ page' = page
    BY <1>4 DEF Cached
  <2> QED
    BY <1>1, <2>1, FormLater
<1>5. CASE Cached(g, ns, ls) /\ page # SchemaList
  <2>1. /\ names' = ns /\ page' = page /\ form' = Rendered(g, page, ns, ls)
        /\ lists' = IF IsNew(names, page) THEN Queried(ls, page, ns) ELSE ls
    BY <1>5 DEF Cached
  <2>2. page \in Schemas
    BY <1>5 DEF FormOK
  <2>3. SameData(ls, lists')
    BY <1>1, <2>1, <2>2, QueriedSame
  <2>4. FormOK(home, n, base2, ls, Rendered(g, page, ns, ls), page)
    BY <1>5, RenderedOK
  <2> QED
    BY <2>1, <2>3, <2>4
<1> QED
  BY <1>3, <1>4, <1>5

-----------------------------------------------------------------------------
(* Ids enough.                                                             *)

LEMMA ImageFinite ==
  ASSUME NEW f, IsFiniteSet(DOMAIN f)
  PROVE  /\ IsFiniteSet({f[x] : x \in DOMAIN f})
         /\ Cardinality({f[x] : x \in DOMAIN f}) <= Cardinality(DOMAIN f)
<1> DEFINE S == DOMAIN f
           T == {f[x] : x \in S}
           g == [x \in S |-> f[x]]
<1>1. g \in Surjection(S, T)
  BY DEF Surjection
<1>2. IsFiniteSet(S)
  OBVIOUS
<1> HIDE DEF g, S
<1>3. IsFiniteSet(T) /\ Cardinality(T) <= Cardinality(S)
  BY <1>1, <1>2, FS_Surjection
<1> QED
  BY <1>3 DEF S

LEMMA PendingFacts ==
  ASSUME NEW rs, IsFiniteSet(rs)
  PROVE  IsFiniteSet(Pending(rs)) /\ Cardinality(Pending(rs)) \in Nat
<1>1. Pending(rs) \in SUBSET rs
  BY DEF Pending
<1> QED
  BY <1>1, FS_Subset, FS_CardinalityType

LEMMA CountSent ==
  ASSUME CountOK, NEW batch, IsFiniteSet(batch), Send(batch), made' = made
  PROVE  CountOK'
<1> DEFINE P == Pending(requests)
           Q == Pending(batch)
           p == Cardinality(P)
           q == Cardinality(Q)
           b == Cardinality(batch)
<1>1. requests' = requests \cup batch /\ sent' = sent + b /\ sent + b <= MaxRequests
  BY DEF Send
<1>2. IsFiniteSet(P) /\ IsFiniteSet(Q) /\ p \in Nat /\ q \in Nat /\ b \in Nat
  BY PendingFacts, FS_CardinalityType DEF CountOK
<1>3. q <= b
  <2>1. Q \in SUBSET batch
    BY DEF Pending
  <2> QED
    BY <2>1, FS_Subset
<1>4. Pending(requests') = P \cup Q
  BY <1>1 DEF Pending
<1>5. IsFiniteSet(requests')
  BY <1>1, FS_Union DEF CountOK
<1> HIDE DEF P, Q
<1>6. Cardinality(P \cup Q) <= p + q
  <2>1. Cardinality(P \cup Q) = p + q - Cardinality(P \cap Q)
    BY <1>2, FS_Union
  <2>2. Cardinality(P \cap Q) \in Nat
    <3>1. IsFiniteSet(P \cap Q)
      <4>1. P \cap Q \in SUBSET P
        OBVIOUS
      <4> QED
        BY <1>2, <4>1, FS_Subset
    <3> QED
      BY <3>1, FS_CardinalityType
  <2> HIDE DEF p, q
  <2> QED
    BY <1>2, <2>1, <2>2
<1>7. Cardinality(P \cup Q) \in Nat
  BY <1>2, FS_Union, FS_CardinalityType
<1>8. made \in Nat /\ sent \in Nat /\ made + p <= StartFields + sent /\ StartFields \in Nat
  BY SchemaAssumption DEF CountOK, P
<1> HIDE DEF p, q, b
<1>9. made + Cardinality(P \cup Q) <= StartFields + (sent + b)
  BY <1>2, <1>3, <1>6, <1>7, <1>8
<1>10. sent' \in Nat /\ sent' <= MaxRequests /\ made' \in Nat
  BY <1>1, <1>2, <1>8
<1>11. made' + Cardinality(Pending(requests')) <= StartFields + sent'
  <2>1. made' = made /\ sent' = sent + b /\ Pending(requests') = P \cup Q
    BY <1>1, <1>4
  <2> QED
    BY <1>9, <2>1, Zenon
<1> QED
  BY <1>5, <1>10, <1>11 DEF CountOK

\* Fewer requests, or the same ones further on.
LEMMA CountFewer ==
  ASSUME CountOK, UNCHANGED <<made, sent>>, IsFiniteSet(requests'),
         Cardinality(Pending(requests')) <= Cardinality(Pending(requests))
  PROVE  CountOK'
<1>1. Cardinality(Pending(requests)) \in Nat /\ Cardinality(Pending(requests')) \in Nat
  BY PendingFacts DEF CountOK
<1>2. StartFields \in Nat
  BY SchemaAssumption
<1> QED
  BY <1>1, <1>2 DEF CountOK

LEMMA CountReplaced ==
  ASSUME CountOK, UNCHANGED <<made, sent>>, NEW r \in requests, NEW q,
         requests' = (requests \ {r}) \cup {q}, Pending({q}) = {} \/ Pending({r}) # {}
  PROVE  CountOK'
<1> DEFINE P == Pending(requests)
           Q == Pending(requests \ {r})
<1>0. IsFiniteSet(requests)
  BY DEF CountOK
<1>1. IsFiniteSet(requests')
  BY <1>0, FS_RemoveElement, FS_AddElement
<1>2. IsFiniteSet(P) /\ Cardinality(P) \in Nat
  BY <1>0, PendingFacts
<1>3. CASE Pending({q}) = {}
  <2>1. Pending(requests') = Q /\ Q \in SUBSET P
    BY <1>3 DEF Pending
  <2> HIDE DEF P, Q
  <2>2. Cardinality(Q) <= Cardinality(P)
    BY <1>2, <2>1, FS_Subset
  <2> QED
    BY <1>1, <2>1, <2>2, CountFewer DEF P
<1>4. CASE Pending({q}) # {} /\ Pending({r}) # {}
  <2>1. Pending(requests') = Q \cup {q} /\ Q = P \ {r} /\ r \in P
    BY <1>4 DEF Pending
  <2> HIDE DEF P, Q
  <2>2. IsFiniteSet(Q) /\ Cardinality(Q) = Cardinality(P) - 1
    BY <1>2, <2>1, FS_RemoveElement
  <2>3. Cardinality(Q \cup {q}) <= Cardinality(P)
    <3>1. CASE q \in Q
      <4>1. Q \cup {q} = Q
        BY <3>1
      <4>2. Cardinality(Q \cup {q}) = Cardinality(Q)
        BY <4>1, Zenon
      <4> QED
        BY <1>2, <2>2, <4>2
    <3>2. CASE q \notin Q
      <4>1. Cardinality(Q \cup {q}) = Cardinality(Q) + 1
        BY <2>2, <3>2, FS_AddElement
      <4> QED
        BY <1>2, <2>2, <4>1
    <3> QED
      BY <3>1, <3>2
  <2> QED
    BY <1>1, <2>1, <2>3, CountFewer DEF P
<1> QED
  BY <1>3, <1>4

-----------------------------------------------------------------------------
(* Steps of the user.                                                      *)

LEMMA AnswersSame ==
  ASSUME NEW ns, NEW ls, NEW ns2, NEW ls2, AnswersOK(ns, ls), SameData(ls, ls2),
         HasAnswer(ns2) => HasAnswer(ns) /\ ns2.fetch = ns.fetch
  PROVE  AnswersOK(ns2, ls2)
BY DEF AnswersOK, SameData

LEMMA SyncedFacts ==
  ASSUME NEW home, NEW h, NEW lo, NEW hi, Synced(home, h, lo, hi)
  PROVE  /\ home \in [Ids -> Schemas] /\ lo \in Nat /\ hi \in Nat /\ made \in Nat
         /\ RowsOK(h[lo]) /\ Homes(home, h[lo]) /\ \A id \in Stored(h[lo]) : id <= made
         /\ CopiesOK(h[lo], names, lists) /\ SameData(lists, lists)
         /\ Later(h[lo], lists, h[lo], lists)
         /\ FormOK(home, made, h[lo], lists, form, page)
<1>1. lo \in lo..hi
  BY DEF Synced, Behind
<1>2. RowsOK(h[lo]) /\ Homes(home, h[lo]) /\ \A id \in Stored(h[lo]) : id <= made
  BY <1>1 DEF Synced, Behind
<1> QED
  BY <1>2, ReflexiveSame DEF Synced, Behind, Later

\* The server and what it has written stay, and whoever is asked is asked of
\* the page's own fields.
LEMMA SyncedStep ==
  ASSUME NEW home, NEW h, NEW lo, NEW hi, Synced(home, h, lo, hi),
         UNCHANGED server, Unread' = Unread,
         CopiesOK(h[lo], names', lists'), AnswersOK(names', lists'),
         FormOK(home, made, h[lo], lists', form', page'),
         \A r \in requests' : RequestOK(home, made, h[lo], lists', r)
  PROVE  Synced(home, h, lo, hi)'
<1>1. fields' = fields /\ made' = made
  BY DEF server
<1>2. Behind(home, h, lo, hi, made)'
  BY <1>1 DEF Synced, Behind
<1>3. AnswersOK(names, lists)'
  BY <1>1 DEF AnswersOK
<1> QED
  BY <1>1, <1>2, <1>3 DEF Synced

LEMMA UserSynced ==
  ASSUME NEW home, NEW h, NEW lo, NEW hi, Synced(home, h, lo, hi),
         UNCHANGED <<server, names>>, SameData(lists, lists'),
         NEW batch, requests' = requests \cup batch,
         \A r \in batch : r.at = "sent" /\ RequestOK(home, made, h[lo], lists, r),
         FormOK(home, made, h[lo], lists, form', page')
  PROVE  Synced(home, h, lo, hi)'
<1>1. /\ home \in [Ids -> Schemas] /\ CopiesOK(h[lo], names, lists)
  BY SyncedFacts
<1>2. CopiesOK(h[lo], names', lists') /\ Later(h[lo], lists, h[lo], lists')
  BY <1>1, SameCopies
<1>3. Unread' = Unread
  BY DEF Unread
<1>4. AnswersOK(names', lists')
  BY AnswersSame DEF Synced
<1>5. FormOK(home, made, h[lo], lists', form', page')
  BY <1>1, <1>2, FormLater
<1>6. ASSUME NEW r \in requests'
      PROVE  RequestOK(home, made, h[lo], lists', r)
  <2>1. RequestOK(home, made, h[lo], lists, r)
    BY DEF Synced
  <2> QED
    BY <1>1, <1>2, <2>1, RequestLater
<1> QED
  BY <1>2, <1>3, <1>4, <1>5, <1>6, SyncedStep

\* The form's parts one at a time.
LEMMA FormChanged ==
  ASSUME NEW home, NEW n, NEW base, NEW ls, NEW f, NEW p, FormOK(home, n, base, ls, f, p),
         p # SchemaList
  PROVE  /\ \A shown \in Seq(FieldEntry) :
               Distinct(shown)
                 /\ (\A e \in Range(shown) :
                         e.id <= n /\ Tracked(base, ls, home[e.id]) /\ Tracked(base, ls, p)) =>
               FormOK(home, n, base, ls, [f EXCEPT !.shown = shown], p)
         /\ \A added \in Seq(BOOLEAN) : (added # <<>> => Tracked(base, ls, p)) =>
               FormOK(home, n, base, ls, [f EXCEPT !.added = added], p)
         /\ \A es \in [Ids -> BOOLEAN \cup {None}] :
               (\A id \in Ids : es[id] # None => id <= n /\ Tracked(base, ls, home[id])) =>
               FormOK(home, n, base, ls, [f EXCEPT !.edits = es], p)
<1>1. ASSUME NEW shown \in Seq(FieldEntry), Distinct(shown),
             \A e \in Range(shown) :
                e.id <= n /\ Tracked(base, ls, home[e.id]) /\ Tracked(base, ls, p)
      PROVE  FormOK(home, n, base, ls, [f EXCEPT !.shown = shown], p)
  <2> DEFINE g == [f EXCEPT !.shown = shown]
  <2>1. DOMAIN g = DOMAIN f /\ g.shown = shown /\ g.added = f.added /\ g.edits = f.edits
    BY DEF FormOK
  <2> HIDE DEF g
  <2> QED
    BY <1>1, <2>1 DEF FormOK, g
<1>2. ASSUME NEW added \in Seq(BOOLEAN), added # <<>> => Tracked(base, ls, p)
      PROVE  FormOK(home, n, base, ls, [f EXCEPT !.added = added], p)
  <2> DEFINE g == [f EXCEPT !.added = added]
  <2>1. DOMAIN g = DOMAIN f /\ g.shown = f.shown /\ g.added = added /\ g.edits = f.edits
    BY DEF FormOK
  <2> HIDE DEF g
  <2> QED
    BY <1>2, <2>1 DEF FormOK, g
<1>3. ASSUME NEW es \in [Ids -> BOOLEAN \cup {None}],
             \A id \in Ids : es[id] # None => id <= n /\ Tracked(base, ls, home[id])
      PROVE  FormOK(home, n, base, ls, [f EXCEPT !.edits = es], p)
  <2> DEFINE g == [f EXCEPT !.edits = es]
  <2>1. DOMAIN g = DOMAIN f /\ g.shown = f.shown /\ g.added = f.added /\ g.edits = es
    BY DEF FormOK
  <2> HIDE DEF g
  <2> QED
    BY <1>3, <2>1 DEF FormOK, g
<1> QED
  BY <1>1, <1>2, <1>3

LEMMA QuietlySynced ==
  ASSUME NEW home, NEW h, NEW lo, NEW hi, Synced(home, h, lo, hi),
         UNCHANGED <<server, names, requests>>, SameData(lists, lists'),
         FormOK(home, made, h[lo], lists, form', page')
  PROVE  Synced(home, h, lo, hi)'
<1> DEFINE batch == {}
<1>1. /\ UNCHANGED <<server, names>> /\ requests' = requests \cup batch
      /\ \A r \in batch : r.at = "sent" /\ RequestOK(home, made, h[lo], lists, r)
  OBVIOUS
<1> HIDE DEF batch
<1> QED
  BY <1>1, UserSynced

LEMMA NavigateSynced ==
  ASSUME NEW home, NEW h, NEW lo, NEW hi, Synced(home, h, lo, hi), NEW s, Navigate(s),
         s \in Schemas \cup {SchemaList}
  PROVE  Synced(home, h, lo, hi)'
<1>1. UNCHANGED <<server, names, requests>>
  BY DEF Navigate
<1>2. /\ CopiesOK(h[lo], names, lists) /\ SameData(lists, lists)
      /\ Homes(home, h[lo]) /\ \A id \in Stored(h[lo]) : id <= made
      /\ FormOK(home, made, h[lo], lists, form, page)
  BY SyncedFacts
<1>3. CASE s = SchemaList
  <2>1. lists' = lists /\ form' = NoForm /\ page' = SchemaList
    BY <1>3 DEF Navigate
  <2>2. FormOK(home, made, h[lo], lists, form', page')
    BY <2>1, NoFormOK
  <2> QED
    BY <1>1, <1>2, <2>1, <2>2, QuietlySynced
<1>4. CASE s # SchemaList
  <2>1. lists' = Queried(lists, s, names) /\ form' = Opened(form, s, names, lists) /\ page' = s
    BY <1>4 DEF Navigate
  <2>2. SameData(lists, lists')
    BY <1>2, <1>4, <2>1, QueriedSame
  <2>3. FormOK(home, made, h[lo], lists, form', page')
    BY <1>2, <1>4, <2>1, OpenedOK
  <2> QED
    BY <1>1, <2>2, <2>3, QuietlySynced
<1> QED
  BY <1>3, <1>4

\* Steps on the form alone.
LEMMA FormSynced ==
  ASSUME NEW home, NEW h, NEW lo, NEW hi, Synced(home, h, lo, hi),
         UNCHANGED <<server, queries, page, requests>>,
         FormOK(home, made, h[lo], lists, form', page)
  PROVE  Synced(home, h, lo, hi)'
<1>1. requests' = requests \cup {} /\ names' = names /\ lists' = lists /\ page' = page
  BY DEF queries
<1>2. SameData(lists, lists')
  BY <1>1, SyncedFacts
<1> QED
  BY <1>1, <1>2, QuietlySynced

LEMMA EditSynced ==
  ASSUME NEW home, NEW h, NEW lo, NEW hi, Synced(home, h, lo, hi), NEW k, Edit(k)
  PROVE  Synced(home, h, lo, hi)'
<1> DEFINE list == form.shown
           e == list[k]
           value == ~e.display
           shown == [list EXCEPT ![k].display = value]
           es == [form.edits EXCEPT ![e.id] = value]
           g == [form EXCEPT !.shown = shown]
           OK(f) == FormOK(home, made, h[lo], lists, f, page)
<1>1. /\ UNCHANGED <<server, queries, page, requests>> /\ page # SchemaList
      /\ k \in DOMAIN list /\ form' = Changed(form, k, value)
  BY DEF Edit, OnSchema
<1>2. OK(form)
  BY SyncedFacts
<1>3. list \in Seq(FieldEntry) /\ Distinct(list)
  BY <1>2 DEF FormOK
<1>4. e \in FieldEntry /\ e \in Range(list)
  <2> HIDE DEF list
  <2> QED
    BY <1>1, <1>3, SeqFacts, RangeFacts
<1>5. e.id \in Ids /\ e.id <= made /\ Tracked(h[lo], lists, home[e.id])
  <2>1. e.id \in Ids
    BY <1>4 DEF FieldEntry
  <2> QED
    BY <1>2, <1>4, <2>1 DEF FormOK
<1>6. form' = [g EXCEPT !.edits = es]
  <2>1. DOMAIN form = {"shown", "added", "edits"}
    BY <1>2 DEF FormOK
  <2> QED
    BY <1>1, <2>1 DEF Changed
<1>7. /\ shown \in Seq(FieldEntry) /\ DOMAIN shown = DOMAIN list
      /\ \A i \in DOMAIN list : shown[i].id = list[i].id
  <2> DEFINE new == [e EXCEPT !.display = value]
  <2>1. new \in FieldEntry /\ new.id = e.id
    BY <1>4 DEF FieldEntry
  <2>2. shown = [list EXCEPT ![k] = new]
    BY <1>1
  <2> HIDE DEF new, shown, list
  <2>3. shown \in Seq(FieldEntry) /\ DOMAIN shown = DOMAIN list
    BY <1>1, <1>3, <2>1, <2>2
  <2>4. \A i \in DOMAIN list : shown[i] = IF i = k THEN new ELSE list[i]
    BY <1>3, <2>2
  <2> QED
    BY <2>1, <2>3, <2>4
<1> HIDE DEF shown, es, g, list
<1>8. Distinct(shown)
  BY <1>3, <1>7 DEF Distinct
<1>9. \A x \in Range(shown) : x.id <= made /\ Tracked(h[lo], lists, home[x.id]) /\ Tracked(h[lo], lists, page)
  <2>1. ASSUME NEW x \in Range(shown)
        PROVE  x.id <= made /\ Tracked(h[lo], lists, home[x.id]) /\ Tracked(h[lo], lists, page)
    <3>1. PICK i \in DOMAIN list : x.id = list[i].id
      BY <1>7, RangeFacts
    <3>2. list[i] \in Range(list)
      BY <3>1, RangeFacts
    <3> QED
      BY <1>2, <3>1, <3>2 DEF FormOK, list
  <2> QED
    BY <2>1
<1>10. OK(g)
  <2>1. FormOK(home, made, h[lo], lists, form, page)
    BY <1>2
  <2> QED
    BY <1>1, <1>7, <1>8, <1>9, <2>1, FormChanged DEF g
<1>11. es \in [Ids -> BOOLEAN \cup {None}]
  <2>1. form.edits \in [Ids -> BOOLEAN \cup {None}] /\ value \in BOOLEAN
    BY <1>2 DEF FormOK
  <2> QED
    BY <2>1 DEF es
<1>12. \A id \in Ids : es[id] # None => id <= made /\ Tracked(h[lo], lists, home[id])
  <2>1. \A id \in Ids : id = e.id \/ es[id] = form.edits[id]
    BY <1>2 DEF es, FormOK
  <2> QED
    BY <1>2, <1>5, <2>1 DEF FormOK
<1>13. OK(form')
  BY <1>1, <1>6, <1>10, <1>11, <1>12, FormChanged
<1> QED
  BY <1>1, <1>13, FormSynced

LEMMA AddedSynced ==
  ASSUME NEW home, NEW h, NEW lo, NEW hi, Synced(home, h, lo, hi),
         NEW k, NEW file, AddEntry \/ EditAdded(k) \/ RemoveAdded(k)
                  \/ (file \in Imports /\ Import(file))
  PROVE  Synced(home, h, lo, hi)'
<1> DEFINE OK(f) == FormOK(home, made, h[lo], lists, f, page)
           a == form.added
<1>1. OK(form) /\ CopiesOK(h[lo], names, lists)
  BY SyncedFacts
<1>2. /\ UNCHANGED <<server, queries, page, requests>>
      /\ \E b : /\ form' = [form EXCEPT !.added = b]
                /\ \/ b = Append(a, FALSE) /\ page # SchemaList
                         /\ (form.shown # <<>> \/ IsNew(names, page))
                   \/ k \in DOMAIN a /\ (b = [a EXCEPT ![k] = ~a[k]] \/ b = RemoveAt(a, k))
                   \/ b = a \o file /\ file \in Imports /\ page # SchemaList /\ IsNew(names, page)
  BY DEF AddEntry, EditAdded, RemoveAdded, Import, OnSchema
<1>3. PICK b : /\ form' = [form EXCEPT !.added = b]
               /\ \/ b = Append(a, FALSE) /\ page # SchemaList
                        /\ (form.shown # <<>> \/ IsNew(names, page))
                  \/ k \in DOMAIN a /\ (b = [a EXCEPT ![k] = ~a[k]] \/ b = RemoveAt(a, k))
                  \/ b = a \o file /\ file \in Imports /\ page # SchemaList /\ IsNew(names, page)
  BY <1>2
<1>4. a \in Seq(BOOLEAN) /\ (file \in Imports => file \in Seq(BOOLEAN))
  BY <1>1, SchemaAssumption DEF FormOK
<1>5. page # SchemaList
  <2>1. ASSUME k \in DOMAIN a
        PROVE  a # <<>>
    BY <2>1
  <2> QED
    BY <1>1, <1>3, <2>1 DEF FormOK
<1>6. page \in Schemas
  BY <1>1, <1>5 DEF FormOK
<1>7. Tracked(h[lo], lists, page)
  <2>1. CASE form.shown # <<>>
    <3> DEFINE list == form.shown
    <3>1. list \in Seq(FieldEntry)
      BY <1>1 DEF FormOK
    <3> HIDE DEF list
    <3>2. 1 \in DOMAIN list
      BY <2>1, <3>1 DEF list
    <3>3. list[1] \in Range(list)
      BY <3>2, RangeFacts
    <3> QED
      BY <1>1, <3>3 DEF FormOK, list
  <2>2. CASE IsNew(names, page)
    BY <1>1, <1>6, <2>2 DEF CopiesOK, IsNew
  <2>3. CASE k \in DOMAIN a
    <3>1. a # <<>>
      BY <2>3
    <3> QED
      BY <1>1, <3>1 DEF FormOK
  <2> QED
    BY <1>3, <2>1, <2>2, <2>3
<1>8. b \in Seq(BOOLEAN)
  <2> HIDE DEF a
  <2>1. CASE b = Append(a, FALSE)
    BY <1>4, <2>1
  <2>2. CASE k \in DOMAIN a /\ b = [a EXCEPT ![k] = ~a[k]]
    <3>1. a[k] \in BOOLEAN
      BY <1>4, <2>2
    <3> QED
      BY <1>4, <2>2, <3>1
  <2>3. CASE k \in DOMAIN a /\ b = RemoveAt(a, k)
    <3>1. k \in 1..Len(a) /\ Len(a) \in Nat
      BY <1>4, <2>3
    <3> DEFINE x == SubSeq(a, 1, k - 1)
               y == SubSeq(a, k + 1, Len(a))
    <3>2. x \in Seq(BOOLEAN) /\ y \in Seq(BOOLEAN)
      BY <1>4, <3>1
    <3>3. b = x \o y
      BY <2>3 DEF RemoveAt
    <3> HIDE DEF x, y
    <3> QED
      BY <3>2, <3>3
  <2>4. CASE b = a \o file /\ file \in Imports
    BY <1>4, <2>4
  <2> QED
    BY <1>3, <2>1, <2>2, <2>3, <2>4
<1>9. OK(form')
  BY <1>1, <1>3, <1>5, <1>7, <1>8, FormChanged
<1> QED
  BY <1>2, <1>9, FormSynced

LEMMA SentOK ==
  ASSUME NEW home, NEW h, NEW lo, NEW hi, Synced(home, h, lo, hi), page # SchemaList,
         NEW op, NEW id, NEW place, NEW change,
         op = "create" => change.display \in BOOLEAN /\ Tracked(h[lo], lists, page),
         op # "create" => /\ id \in Ids /\ id <= made /\ Tracked(h[lo], lists, home[id])
                          /\ change.display \in BOOLEAN \cup {None},
         op = "delete" => home[id] = page
  PROVE  /\ Request(op, id, place, change).at = "sent"
         /\ RequestOK(home, made, h[lo], lists, Request(op, id, place, change))
         /\ [Request(op, id, place, change) EXCEPT !.whole = TRUE].at = "sent"
         /\ RequestOK(home, made, h[lo], lists, [Request(op, id, place, change) EXCEPT !.whole = TRUE])
<1> DEFINE r == Request(op, id, place, change)
           q == [r EXCEPT !.whole = TRUE]
           Like(x) == /\ x.op = op /\ x.id = id /\ x.schema = page /\ x.change = change
                      /\ x.known = names.data /\ x.at = "sent"
<1>1. Like(r) /\ Like(q)
  BY DEF Request
<1>2. page \in Schemas /\ CopiesOK(h[lo], names, lists)
  <2>1. CopiesOK(h[lo], names, lists) /\ FormOK(home, made, h[lo], lists, form, page)
    BY SyncedFacts
  <2> QED
    BY <2>1 DEF FormOK
<1>3. \A s \in Schemas \ names.data : Tracked(h[lo], lists, s)
  BY <1>2 DEF CopiesOK
<1> HIDE DEF r, q
<1>4. ASSUME NEW x, Like(x)
      PROVE  x.at = "sent" /\ RequestOK(home, made, h[lo], lists, x)
  <2>1. Aimed(home, made, h[lo], lists, x)
    BY <1>2, <1>4 DEF Aimed
  <2> QED
    BY <1>3, <1>4, <2>1 DEF RequestOK
<1> QED
  BY <1>1, <1>4 DEF r, q

LEMMA UpdateSent ==
  ASSUME NEW home, NEW h, NEW lo, NEW hi, Synced(home, h, lo, hi), page # SchemaList,
         NEW id \in Ids, id <= made, Tracked(h[lo], lists, home[id]),
         NEW place, NEW change, change.display \in BOOLEAN \cup {None}
  PROVE  LET r == Request("update", id, place, change)
         IN  r.at = "sent" /\ RequestOK(home, made, h[lo], lists, r)
<1> DEFINE op == "update"
<1>1. op # "create" /\ op # "delete"
  OBVIOUS
<1> HIDE DEF op
<1>2. Request(op, id, place, change).at = "sent"
  BY DEF Request
<1>3. RequestOK(home, made, h[lo], lists, Request(op, id, place, change))
  BY <1>1, SentOK
<1> QED
  BY <1>2, <1>3 DEF op

LEMMA CreateSent ==
  ASSUME NEW home, NEW h, NEW lo, NEW hi, Synced(home, h, lo, hi), page # SchemaList,
         Tracked(h[lo], lists, page), NEW id, NEW place, NEW change, change.display \in BOOLEAN
  PROVE  LET r == Request("create", id, place, change)
         IN  r.at = "sent" /\ RequestOK(home, made, h[lo], lists, r)
<1> DEFINE op == "create"
<1>1. op = "create" /\ op # "delete"
  OBVIOUS
<1> HIDE DEF op
<1>2. Request(op, id, place, change).at = "sent"
  BY DEF Request
<1>3. RequestOK(home, made, h[lo], lists, Request(op, id, place, change))
  BY <1>1, SentOK
<1> QED
  BY <1>2, <1>3 DEF op

LEMMA ChangeFacts ==
  /\ NoChange.display = None
  /\ \A d : [NoChange EXCEPT !.display = d].display = d
  /\ \A k : [NoChange EXCEPT !.index = k].display = None
BY DEF NoChange

LEMMA SaveSynced ==
  ASSUME NEW home, NEW h, NEW lo, NEW hi, Synced(home, h, lo, hi), Save
  PROVE  Synced(home, h, lo, hi)'
<1> DEFINE OK(r) == r.at = "sent" /\ RequestOK(home, made, h[lo], lists, r)
           batch == Saved(form)
<1>1. /\ page # SchemaList /\ UNCHANGED <<server, names, lists, page>>
      /\ requests' = requests \cup batch /\ form' = [form EXCEPT !.edits = NoForm.edits]
  BY DEF Save, OnSchema, Send, queries
<1>2. FormOK(home, made, h[lo], lists, form, page) /\ SameData(lists, lists)
  BY SyncedFacts
<1>3. ASSUME NEW id \in Edited(form)
      PROVE  OK(Request("update", id, 0, [NoChange EXCEPT !.display = form.edits[id]]))
  <2>1. /\ id \in Ids /\ id <= made /\ Tracked(h[lo], lists, home[id])
        /\ form.edits[id] \in BOOLEAN \cup {None}
    BY <1>2 DEF Edited, FormOK
  <2> DEFINE change == [NoChange EXCEPT !.display = form.edits[id]]
  <2>2. change.display \in BOOLEAN \cup {None}
    BY <2>1, ChangeFacts
  <2> DEFINE place == 0
  <2> HIDE DEF change, place
  <2>3. OK(Request("update", id, place, change))
    BY <1>1, <2>1, <2>2, UpdateSent
  <2> QED
    BY <2>3 DEF change, place
<1>4. ASSUME NEW k \in DOMAIN form.added
      PROVE  OK(Request("create", None, k, [NoChange EXCEPT !.display = form.added[k]]))
  <2> DEFINE a == form.added
             change == [NoChange EXCEPT !.display = a[k]]
  <2>1. a \in Seq(BOOLEAN)
    BY <1>2 DEF FormOK
  <2>2. a[k] \in BOOLEAN /\ a # <<>>
    BY <2>1
  <2>3. Tracked(h[lo], lists, page)
    BY <1>2, <2>2 DEF FormOK
  <2>4. change.display \in BOOLEAN
    BY <2>2, ChangeFacts
  <2> HIDE DEF change
  <2>5. OK(Request("create", None, k, change))
    BY <1>1, <2>3, <2>4, CreateSent
  <2> QED
    BY <2>5 DEF change
<1>5. \A r \in batch : OK(r)
  BY <1>3, <1>4 DEF Saved
<1>6. FormOK(home, made, h[lo], lists, form', page')
  <2> DEFINE es == NoForm.edits
  <2>1. es \in [Ids -> BOOLEAN \cup {None}] /\ \A id \in Ids : es[id] = None
    BY DEF NoForm
  <2>2. form' = [form EXCEPT !.edits = es] /\ page' = page
    BY <1>1
  <2> HIDE DEF es
  <2> QED
    BY <1>1, <1>2, <2>1, <2>2, FormChanged
<1> HIDE DEF batch
<1> QED
  BY <1>1, <1>2, <1>5, <1>6, UserSynced

LEMMA DragSynced ==
  ASSUME NEW home, NEW h, NEW lo, NEW hi, Synced(home, h, lo, hi),
         NEW i \in DOMAIN Places(form), NEW j \in DOMAIN Places(form), Drag(i, j)
  PROVE  Synced(home, h, lo, hi)'
<1> DEFINE order == Moved(Places(form), i, j)
           list == Part(order, TRUE)
           added == Part(order, FALSE)
           moved == {k \in 1..Len(list) : list[k].index # k}
           batch == {Request("update", list[k].id, 0, [NoChange EXCEPT !.index = k]) : k \in moved}
           f == [form EXCEPT !.shown = list]
           OK(x) == FormOK(home, made, h[lo], lists, x, page)
<1>1. /\ page # SchemaList /\ UNCHANGED <<server, names, lists, page>>
      /\ Send(batch) \/ UNCHANGED requests
      /\ form' = [form EXCEPT !.shown = list, !.added = added]
  BY DEF Drag, OnSchema, queries
<1>2. OK(form) /\ SameData(lists, lists)
  BY SyncedFacts
<1>3. form.shown \in Seq(FieldEntry) /\ Distinct(form.shown) /\ form.added \in Seq(BOOLEAN)
  BY <1>2 DEF FormOK
<1>4. /\ list \in Seq(FieldEntry) /\ Distinct(list) /\ Range(list) = Range(form.shown)
      /\ added \in Seq(BOOLEAN) /\ (added # <<>> => form.added # <<>>)
  BY <1>3, DragFacts
<1>5. form' = [f EXCEPT !.added = added]
  BY <1>1, <1>2 DEF FormOK
<1> HIDE DEF list, added, order, moved, f
<1>6. \A e \in Range(list) :
         e.id <= made /\ Tracked(h[lo], lists, home[e.id]) /\ Tracked(h[lo], lists, page)
  BY <1>2, <1>4 DEF FormOK
<1>7. OK(f)
  BY <1>1, <1>2, <1>4, <1>6, FormChanged DEF f
<1>8. added # <<>> => Tracked(h[lo], lists, page)
  BY <1>2, <1>4 DEF FormOK
<1>9. OK(form')
  <2>1. FormOK(home, made, h[lo], lists, f, page)
    BY <1>7
  <2>2. FormOK(home, made, h[lo], lists, [f EXCEPT !.added = added], page)
    BY <1>1, <1>4, <1>8, <2>1, FormChanged
  <2> QED
    BY <1>5, <2>2
<1>10. ASSUME NEW k \in moved
       PROVE  LET r == Request("update", list[k].id, 0, [NoChange EXCEPT !.index = k])
              IN  r.at = "sent" /\ RequestOK(home, made, h[lo], lists, r)
  <2> DEFINE id == list[k].id
             change == [NoChange EXCEPT !.index = k]
  <2>1. k \in DOMAIN list
    BY <1>4, SeqFacts DEF moved
  <2>2. list[k] \in FieldEntry /\ list[k] \in Range(list)
    BY <1>4, <2>1, SeqFacts, RangeFacts
  <2>3. id \in Ids /\ id <= made /\ Tracked(h[lo], lists, home[id])
    BY <1>6, <2>2 DEF FieldEntry
  <2>4. change.display \in BOOLEAN \cup {None}
    BY ChangeFacts
  <2> DEFINE place == 0
  <2> HIDE DEF id, change, place
  <2>5. LET r == Request("update", id, place, change)
        IN  r.at = "sent" /\ RequestOK(home, made, h[lo], lists, r)
    BY <1>1, <2>3, <2>4, UpdateSent
  <2> QED
    BY <2>5 DEF id, change, place
<1>11. \A r \in batch : r.at = "sent" /\ RequestOK(home, made, h[lo], lists, r)
  BY <1>10
<1> HIDE DEF batch
<1>12. CASE Send(batch)
  <2>1. requests' = requests \cup batch
    BY <1>12 DEF Send
  <2> QED
    BY <1>1, <1>2, <1>9, <1>11, <2>1, UserSynced
<1>13. CASE UNCHANGED requests
  BY <1>1, <1>2, <1>9, <1>13, QuietlySynced
<1> QED
  BY <1>1, <1>12, <1>13

\* A delete of a field on screen.
LEMMA DeleteSent ==
  ASSUME NEW home, NEW h, NEW lo, NEW hi, Synced(home, h, lo, hi), page # SchemaList,
         NEW k \in DOMAIN form.shown, NEW place,
         ~Astray(Request("delete", form.shown[k].id, place, NoChange))
  PROVE  LET r == Request("delete", form.shown[k].id, place, NoChange)
             q == [r EXCEPT !.whole = TRUE]
         IN  /\ r.at = "sent" /\ RequestOK(home, made, h[lo], lists, r)
             /\ q.at = "sent" /\ RequestOK(home, made, h[lo], lists, q)
<1> DEFINE list == form.shown
           id == list[k].id
<1>1. FormOK(home, made, h[lo], lists, form, page)
  BY SyncedFacts
<1>2. list \in Seq(FieldEntry) /\ k \in DOMAIN list
  BY <1>1 DEF FormOK
<1>3. \A e \in Range(list) :
         e.id <= made /\ Tracked(h[lo], lists, home[e.id]) /\ Tracked(h[lo], lists, page)
  BY <1>1 DEF FormOK
<1> HIDE DEF list
<1>4. list[k] \in FieldEntry /\ list[k] \in Range(list)
  BY <1>2, SeqFacts, RangeFacts
<1>5. id \in Ids /\ id <= made /\ Tracked(h[lo], lists, home[id])
  BY <1>3, <1>4 DEF FieldEntry
<1>8. home[id] = page
  <2>1. page \in Schemas /\ CopiesOK(h[lo], names, lists) /\ Homes(home, h[lo])
    BY <1>1, SyncedFacts DEF FormOK
  <2>2. PICK e \in Range(Known(lists[page])) : e.id = id
    BY DEF Astray, Request, id, list
  <2>3. lists[page].data # None /\ e \in Range(lists[page].data)
    BY <2>2, EmptyFacts DEF Known
  <2>4. Mirrors(lists[page].data, h[lo], page)
    BY <2>1, <2>3 DEF CopiesOK
  <2>5. e.id \in FieldsOf(h[lo], page)
    BY <2>3, <2>4, MirrorsFacts
  <2> QED
    BY <2>1, <2>2, <2>5 DEF FieldsOf, Homes
<1>6. NoChange.display \in BOOLEAN \cup {None}
  BY ChangeFacts
<1> HIDE DEF id
<1>7. LET r == Request("delete", id, place, NoChange)
          q == [r EXCEPT !.whole = TRUE]
      IN  /\ r.at = "sent" /\ RequestOK(home, made, h[lo], lists, r)
          /\ q.at = "sent" /\ RequestOK(home, made, h[lo], lists, q)
  BY <1>5, <1>6, <1>8, SentOK
<1> QED
  BY <1>7 DEF id, list

LEMMA DeletesSynced ==
  ASSUME NEW home, NEW h, NEW lo, NEW hi, Synced(home, h, lo, hi), NEW k,
         DeleteEntry(k) \/ DeleteSchema, "astray" \notin mishaps'
  PROVE  Synced(home, h, lo, hi)'
<1> DEFINE OK(r) == r.at = "sent" /\ RequestOK(home, made, h[lo], lists, r)
<1>1. FormOK(home, made, h[lo], lists, form, page) /\ SameData(lists, lists)
  BY SyncedFacts
<1>2. ASSUME DeleteEntry(k)
      PROVE  Synced(home, h, lo, hi)'
  <2> DEFINE r == Request("delete", form.shown[k].id, 0, NoChange)
             batch == {r}
  <2>1. /\ UNCHANGED <<server, names, lists>> /\ requests' = requests \cup batch
        /\ k \in DOMAIN form.shown /\ page # SchemaList
        /\ (page' = SchemaList /\ form' = NoForm) \/ UNCHANGED <<page, form>>
        /\ ~Astray(r)
    BY <1>2 DEF DeleteEntry, OnSchema, Send, queries
  <2>2. OK(r)
    BY <2>1, DeleteSent
  <2>3. \A x \in batch : OK(x)
    BY <2>2
  <2>4. FormOK(home, made, h[lo], lists, form', page')
    BY <1>1, <2>1, NoFormOK
  <2> HIDE DEF r, batch
  <2> QED
    BY <1>1, <2>1, <2>3, <2>4, UserSynced
<1>3. ASSUME DeleteSchema
      PROVE  Synced(home, h, lo, hi)'
  <2> DEFINE batch == {[Request("delete", form.shown[x].id, x, NoChange) EXCEPT !.whole = TRUE] :
                          x \in DOMAIN form.shown}
  <2>1. /\ UNCHANGED <<server, names, lists, page, form>> /\ requests' = requests \cup batch
        /\ page # SchemaList /\ \A r \in batch : ~Astray(r)
    BY <1>3 DEF DeleteSchema, OnSchema, Send, queries
  <2>2. \A x \in DOMAIN form.shown :
           OK([Request("delete", form.shown[x].id, x, NoChange) EXCEPT !.whole = TRUE])
    <3>1. ASSUME NEW x \in DOMAIN form.shown
          PROVE  ~Astray(Request("delete", form.shown[x].id, x, NoChange))
      <4> DEFINE q == Request("delete", form.shown[x].id, x, NoChange)
      <4>1. [q EXCEPT !.whole = TRUE] \in batch
        OBVIOUS
      <4>2. /\ [q EXCEPT !.whole = TRUE].op = q.op /\ [q EXCEPT !.whole = TRUE].id = q.id
            /\ [q EXCEPT !.whole = TRUE].schema = q.schema
        BY DEF Request
      <4> HIDE DEF q, batch
      <4> QED
        BY <2>1, <4>1, <4>2 DEF Astray, q
    <3> QED
      BY <2>1, <3>1, DeleteSent
  <2>3. \A x \in batch : OK(x)
    BY <2>2
  <2> HIDE DEF batch
  <2> QED
    BY <1>1, <2>1, <2>3, UserSynced
<1> QED
  BY <1>2, <1>3

\* What is sent together is finite.
LEMMA BatchFinite ==
  ASSUME NEW n, NEW g, n \in Nat, DOMAIN g \subseteq 1..n
  PROVE  IsFiniteSet({g[x] : x \in DOMAIN g})
<1>1. IsFiniteSet(1..n)
  BY FS_Interval
<1>2. IsFiniteSet(DOMAIN g)
  BY <1>1, FS_Subset
<1> QED
  BY <1>2, ImageFinite

LEMMA UserCounts ==
  ASSUME CountOK, NEW S, form.shown \in Seq(S), form.added \in Seq(BOOLEAN), UserStep
  PROVE  CountOK'
<1>1. ASSUME UNCHANGED <<made, sent, requests>>
      PROVE  CountOK'
  BY <1>1 DEF CountOK, Pending
<1>2. ASSUME NEW batch, IsFiniteSet(batch), Send(batch), UNCHANGED server
      PROVE  CountOK'
  BY <1>2, CountSent DEF server
<1>3. form.shown \in Seq(S) /\ form.added \in Seq(BOOLEAN)
  OBVIOUS
<1>4. ASSUME Save
      PROVE  CountOK'
  <2> DEFINE a == form.added
             ups == [id \in Edited(form) |->
                        Request("update", id, 0, [NoChange EXCEPT !.display = form.edits[id]])]
             news == [k \in DOMAIN a |-> Request("create",
                      None, k, [NoChange EXCEPT !.display = a[k]])]
             U == {ups[x] : x \in DOMAIN ups}
             N == {news[x] : x \in DOMAIN news}
  <2>1. IsFiniteSet(U)
    <3>1. StartFields + MaxRequests \in Nat /\ DOMAIN ups \subseteq 1..(StartFields + MaxRequests)
      BY SchemaAssumption DEF Edited, Ids
    <3> HIDE DEF ups
    <3> QED
      BY <3>1, BatchFinite
  <2>2. IsFiniteSet(N)
    <3>1. Len(a) \in Nat /\ DOMAIN news \subseteq 1..Len(a)
      BY <1>3
    <3> HIDE DEF news
    <3> QED
      BY <3>1, BatchFinite
  <2>3. Saved(form) = U \cup N
    BY DEF Saved
  <2> HIDE DEF U, N
  <2>4. IsFiniteSet(Saved(form))
    BY <2>1, <2>2, <2>3, FS_Union
  <2> QED
    BY <1>2, <1>4, <2>4 DEF Save
<1>5. ASSUME NEW i \in DOMAIN Places(form), NEW j \in DOMAIN Places(form), Drag(i, j)
      PROVE  CountOK'
  <2> DEFINE list == Part(Moved(Places(form), i, j), TRUE)
             moved == {k \in 1..Len(list) : list[k].index # k}
             news == [k \in moved |-> Request("update", list[k].id, 0, [NoChange EXCEPT !.index = k])]
             batch == {news[k] : k \in DOMAIN news}
  <2>1. list \in Seq(S)
    BY <1>3, DragTypes
  <2>2. Len(list) \in Nat
    BY <2>1, SeqFacts
  <2>3. UNCHANGED server /\ (Send(batch) \/ UNCHANGED <<requests, sent>>)
    <3>1. batch = {Request("update", list[k].id, 0, [NoChange EXCEPT !.index = k]) : k \in moved}
      OBVIOUS
    <3> HIDE DEF batch
    <3> QED
      BY <1>5, <3>1 DEF Drag
  <2>4. DOMAIN news \subseteq 1..Len(list)
    OBVIOUS
  <2> HIDE DEF news, list
  <2>5. IsFiniteSet(batch)
    BY <2>2, <2>4, BatchFinite
  <2> QED
    BY <1>1, <1>2, <2>3, <2>5 DEF server
<1>6. ASSUME NEW k, DeleteEntry(k)
      PROVE  CountOK'
  <2>1. \A x : IsFiniteSet({x})
    BY FS_Singleton
  <2> QED
    BY <1>2, <1>6, <2>1 DEF DeleteEntry
<1>7. ASSUME DeleteSchema
      PROVE  CountOK'
  <2> DEFINE list == form.shown
             news == [k \in DOMAIN list |->
                        [Request("delete", list[k].id, k, NoChange) EXCEPT !.whole = TRUE]]
             batch == {news[k] : k \in DOMAIN news}
  <2>1. Len(list) \in Nat /\ DOMAIN news \subseteq 1..Len(list)
    BY <1>3, SeqFacts
  <2>2. UNCHANGED server /\ Send(batch)
    <3>1. batch = {[Request("delete", form.shown[k].id, k, NoChange) EXCEPT !.whole = TRUE] :
                      k \in DOMAIN form.shown}
      OBVIOUS
    <3> HIDE DEF batch
    <3> QED
      BY <1>7, <3>1 DEF DeleteSchema
  <2> HIDE DEF news
  <2>3. IsFiniteSet(batch)
    BY <2>1, BatchFinite
  <2> QED
    BY <1>2, <2>2, <2>3
<1>8. ASSUME NEW s, Navigate(s)
      PROVE  CountOK'
  BY <1>1, <1>8 DEF Navigate, server
<1>9. ASSUME NEW k, Edit(k) \/ AddEntry \/ EditAdded(k) \/ RemoveAdded(k)
      PROVE  CountOK'
  BY <1>1, <1>9 DEF Edit, AddEntry, EditAdded, RemoveAdded, server
<1>10. ASSUME NEW file, Import(file)
       PROVE  CountOK'
  BY <1>1, <1>10 DEF Import, server
<1> QED
  BY <1>4, <1>5, <1>6, <1>7, <1>8, <1>9, <1>10 DEF UserStep

\* Whatever the user does, the page stays as far behind the server as it was.
LEMMA UserStepSynced ==
  ASSUME NEW home, NEW h, NEW lo, NEW hi, Synced(home, h, lo, hi), UserStep,
         "astray" \notin mishaps'
  PROVE  Synced(home, h, lo, hi)'
<1>1. ASSUME NEW k, AddEntry \/ EditAdded(k) \/ RemoveAdded(k)
      PROVE  Synced(home, h, lo, hi)'
  BY <1>1, AddedSynced
<1> QED
  BY <1>1, NavigateSynced, EditSynced, AddedSynced, SaveSynced, DragSynced, DeletesSynced
  DEF UserStep

-----------------------------------------------------------------------------
(* Queries.                                                                *)

\* The answer on its way is the newest there is: the page is not behind.
LEMMA NothingUnread ==
  ASSUME NEW home, NEW h, NEW lo, NEW hi, Synced(home, h, lo, hi), Unread = {}
  PROVE  lo = 0 /\ hi = 0 /\ h[lo] = fields
<1>1. hi = 0 /\ lo \in Nat /\ lo <= hi /\ h[hi] = fields
  BY DEF Synced, Behind
<1> QED
  BY <1>1

\* The cache changes and the page is no further behind.
LEMMA CacheSynced ==
  ASSUME NEW home, NEW h, NEW lo, NEW hi, Synced(home, h, lo, hi), NEW ns, NEW ls, NEW g,
         FormOK(home, made, h[lo], lists, g, page),
         UNCHANGED <<server, requests>>, CopiesOK(h[lo], ns, ls),
         Later(h[lo], lists, h[lo], ls), AnswersOK(ns, ls),
         Cached(g, ns, ls) \/ CachedAndLeft(ns, ls)
  PROVE  Synced(home, h, lo, hi)'
<1>1. /\ home \in [Ids -> Schemas] /\ Homes(home, h[lo]) /\ \A id \in Stored(h[lo]) : id <= made
      /\ FormOK(home, made, h[lo], lists, form, page)
  BY SyncedFacts
<1>2. /\ names' = ns /\ SameData(ls, lists') /\ CopiesOK(h[lo], ns, lists')
      /\ Later(h[lo], lists, h[lo], lists')
      /\ FormOK(home, made, h[lo], lists', form', page')
  BY <1>1, CachedOK
<1>3. AnswersOK(names', lists')
  <2>1. HasAnswer(names') => HasAnswer(ns) /\ names'.fetch = ns.fetch
    BY <1>2
  <2> QED
    BY <1>2, <2>1, AnswersSame
<1>4. ASSUME NEW r \in requests'
      PROVE  RequestOK(home, made, h[lo], lists', r)
  <2>1. RequestOK(home, made, h[lo], lists, r)
    BY DEF Synced
  <2> QED
    BY <1>1, <1>2, <2>1, RequestLater
<1>5. Unread' = Unread
  BY DEF Unread
<1> QED
  BY <1>2, <1>3, <1>4, <1>5, SyncedStep

\* The same without anyone looking.
LEMMA AskedSynced ==
  ASSUME NEW home, NEW h, NEW lo, NEW hi, Synced(home, h, lo, hi),
         UNCHANGED <<server, requests, page, form>>, CopiesOK(h[lo], names', lists'),
         Later(h[lo], lists, h[lo], lists'), AnswersOK(names', lists')
  PROVE  Synced(home, h, lo, hi)'
<1>1. home \in [Ids -> Schemas] /\ FormOK(home, made, h[lo], lists, form, page)
  BY SyncedFacts
<1>2. FormOK(home, made, h[lo], lists', form', page')
  BY <1>1, FormLater
<1>3. ASSUME NEW r \in requests'
      PROVE  RequestOK(home, made, h[lo], lists', r)
  <2>1. RequestOK(home, made, h[lo], lists, r)
    BY DEF Synced
  <2> QED
    BY <1>1, <2>1, RequestLater
<1>4. Unread' = Unread
  BY DEF Unread
<1> QED
  BY <1>2, <1>3, <1>4, SyncedStep

LEMMA FocusSynced ==
  ASSUME NEW home, NEW h, NEW lo, NEW hi, Synced(home, h, lo, hi), Focus
  PROVE  Synced(home, h, lo, hi)'
<1> DEFINE base == h[lo]
<1>1. /\ CopiesOK(base, names, lists) /\ SameData(lists, lists) /\ Later(base, lists, base, lists)
      /\ AnswersOK(names, lists) /\ FormOK(home, made, base, lists, form, page)
  BY SyncedFacts DEF Synced
<1>2. UNCHANGED <<server, requests, page, form>>
  BY DEF Focus
<1> HIDE DEF base
<1>3. CASE names' = Ask([names EXCEPT !.stale = TRUE]) /\ lists' = lists
  <2> DEFINE old == [names EXCEPT !.stale = TRUE]
  <2>1. IsEntry(names)
    BY <1>1 DEF CopiesOK
  <2>2. IsEntry(old) /\ old.data = names.data /\ old.fetch = names.fetch
    BY <2>1, CacheFacts
  <2> HIDE DEF old
  <2>3. /\ IsEntry(Ask(old)) /\ Ask(old).data = old.data
        /\ HasAnswer(Ask(old)) => HasAnswer(old) /\ Ask(old).fetch = old.fetch
    BY <2>2, CacheFacts
  <2>4. names' = Ask(old)
    BY <1>3 DEF old
  <2>5. CopiesOK(base, names', lists')
    BY <1>1, <1>3, <2>2, <2>3, <2>4 DEF CopiesOK
  <2>6. HasAnswer(names') => HasAnswer(names) /\ names'.fetch = names.fetch
    BY <2>2, <2>3, <2>4 DEF HasAnswer
  <2>7. AnswersOK(names', lists')
    BY <1>1, <1>3, <2>6, AnswersSame
  <2> QED
    BY <1>1, <1>2, <1>3, <2>5, <2>7, AskedSynced DEF base
<1>4. CASE /\ page # SchemaList /\ names' = names
           /\ lists' = [lists EXCEPT ![page] = Ask([@ EXCEPT !.stale = TRUE])]
  <2> DEFINE q == lists[page]
             old == [q EXCEPT !.stale = TRUE]
  <2>1. page \in Schemas
    BY <1>1, <1>4 DEF FormOK
  <2>2. IsEntry(q) /\ lists = [s \in Schemas |-> lists[s]] /\ \A s \in Schemas : IsEntry(lists[s])
    BY <1>1, <2>1 DEF CopiesOK
  <2>3. /\ lists' = [s \in Schemas |-> lists'[s]] /\ lists'[page] = Ask(old)
        /\ \A s \in Schemas : s # page => lists'[s] = lists[s]
    BY <1>4, <2>1, <2>2
  <2> HIDE DEF q
  <2>4. IsEntry(old) /\ old.data = q.data /\ old.fetch = q.fetch
    BY <2>2, CacheFacts
  <2> HIDE DEF old
  <2>5. /\ IsEntry(Ask(old)) /\ Ask(old).data = old.data
        /\ HasAnswer(Ask(old)) => HasAnswer(old) /\ Ask(old).fetch = old.fetch
    BY <2>4, CacheFacts
  <2>6. HasAnswer(old) => HasAnswer(q)
    BY <2>4 DEF HasAnswer
  <2>7. ASSUME NEW s \in Schemas
        PROVE  /\ IsEntry(lists'[s]) /\ lists'[s].data = lists[s].data
               /\ HasAnswer(lists'[s]) => HasAnswer(lists[s]) /\ lists'[s].fetch = lists[s].fetch
    <3>1. CASE s = page
      BY <2>3, <2>4, <2>5, <2>6, <3>1 DEF q
    <3>2. CASE s # page
      BY <2>2, <2>3, <3>2
    <3> QED
      BY <3>1, <3>2
  <2>8. SameData(lists, lists')
    BY <2>3, <2>7 DEF SameData
  <2>9. CopiesOK(base, names', lists') /\ Later(base, lists, base, lists')
    BY <1>1, <1>4, <2>8, SameCopies
  <2>10. AnswersOK(names', lists')
    BY <1>1, <1>4, <2>8, AnswersSame
  <2> QED
    BY <1>2, <2>9, <2>10, AskedSynced DEF base
<1> QED
  BY <1>3, <1>4 DEF Focus, OnSchema

LEMMA ServeFetchSynced ==
  ASSUME NEW home, NEW h, NEW lo, NEW hi, Synced(home, h, lo, hi), ServeFetch, Peaceful'
  PROVE  Synced(home, h, lo, hi)'
<1> DEFINE base == h[lo]
<1>1. /\ CopiesOK(base, names, lists) /\ SameData(lists, lists) /\ Later(base, lists, base, lists)
      /\ AnswersOK(names, lists)
  BY SyncedFacts DEF Synced
<1>2. UNCHANGED <<server, requests, page, form>> /\ Unread = {}
  BY DEF ServeFetch, Peaceful
<1> HIDE DEF base
<1>3. ASSUME names' = [names EXCEPT !.fetch = Answered(SchemaNames(fields))], lists' = lists
      PROVE  Synced(home, h, lo, hi)'
  <2>1. IsEntry(names)
    BY <1>1 DEF CopiesOK
  <2>2. /\ IsEntry(names') /\ names'.data = names.data
        /\ names'.fetch.value = SchemaNames(fields)
    BY <1>3, <2>1 DEF IsEntry, Answered
  <2>3. CopiesOK(base, names', lists')
    BY <1>1, <1>3, <2>2 DEF CopiesOK
  <2>4. AnswersOK(names', lists')
    BY <1>1, <1>2, <1>3, <2>2 DEF AnswersOK
  <2> QED
    BY <1>1, <1>2, <1>3, <2>3, <2>4, AskedSynced DEF base
<1>4. ASSUME NEW s \in Schemas, names' = names,
             lists' = [lists EXCEPT ![s].fetch = Answered(Answer(fields, s))]
      PROVE  Synced(home, h, lo, hi)'
  <2> DEFINE q == lists[s]
             v == Answer(fields, s)
             new == [q EXCEPT !.fetch = Answered(v)]
  <2>1. lists = [t \in Schemas |-> lists[t]] /\ \A t \in Schemas : IsEntry(lists[t])
    BY <1>1 DEF CopiesOK
  <2>2. /\ lists' = [t \in Schemas |-> lists'[t]] /\ lists'[s] = new
        /\ \A t \in Schemas : t # s => lists'[t] = lists[t]
    BY <1>4, <2>1
  <2>3. IsEntry(q)
    BY <2>1
  <2> HIDE DEF q, v
  <2>4. IsEntry(new) /\ new.data = q.data /\ new.fetch.value = v
    BY <2>3 DEF IsEntry, Answered
  <2> HIDE DEF new
  <2>5. ASSUME NEW t \in Schemas
        PROVE  /\ IsEntry(lists'[t]) /\ lists'[t].data = lists[t].data
               /\ HasAnswer(lists'[t]) => lists'[t].fetch.value = Answer(fields, t)
    <3>1. CASE t = s
      BY <2>2, <2>4, <3>1 DEF q, v
    <3>2. CASE t # s
      BY <1>1, <2>1, <2>2, <3>2 DEF AnswersOK
    <3> QED
      BY <3>1, <3>2
  <2>6. CopiesOK(base, names', lists') /\ Later(base, lists, base, lists')
    BY <1>1, <1>4, <2>2, <2>5 DEF CopiesOK, Later, Tracked
  <2>7. AnswersOK(names', lists')
    BY <1>1, <1>2, <1>4, <2>5 DEF AnswersOK
  <2> QED
    BY <1>2, <2>6, <2>7, AskedSynced DEF base
<1> QED
  BY <1>3, <1>4 DEF ServeFetch

\* Whether or not the read renews what is still to be added.
LEMMA ClearedOK ==
  ASSUME NEW home, NEW n, NEW base, NEW ns, FormOK(home, n, base, lists, form, page),
         CopiesOK(base, ns, lists), NEW f \in {form, Cleared(form, page, ns)}, Cached(f, ns, lists)
  PROVE  \E g : Cached(g, ns, lists) /\ FormOK(home, n, base, lists, g, page)
<1>1. CASE f = form
  BY <1>1
<1>2. CASE page = SchemaList
  <2>1. Cached(form, ns, lists)
    BY <1>2 DEF Cached
  <2> QED
    BY <2>1
<1>3. CASE f = Cleared(form, page, ns) /\ page # SchemaList
  <2> DEFINE added == IF IsNew(ns, page) THEN <<FALSE>> ELSE <<>>
  <2>1. page \in Schemas
    BY <1>3 DEF FormOK
  <2>2. added # <<>> => Tracked(base, lists, page)
    BY <2>1 DEF CopiesOK, IsNew
  <2>3. added \in Seq(BOOLEAN)
    <3>1. <<>> \in Seq(BOOLEAN) /\ <<FALSE>> \in Seq(BOOLEAN)
      OBVIOUS
    <3> QED
      BY <3>1
  <2>4. f = [form EXCEPT !.added = added]
    BY <1>3 DEF Cleared
  <2> HIDE DEF added
  <2>5. FormOK(home, n, base, lists, f, page)
    BY <1>3, <2>2, <2>3, <2>4, FormChanged
  <2> QED
    BY <2>5
<1> QED
  BY <1>1, <1>2, <1>3

LEMMA ReceiveNamesSynced ==
  ASSUME NEW home, NEW h, NEW lo, NEW hi, Synced(home, h, lo, hi), ReceiveNames
  PROVE  Synced(home, h, lo, hi)'
<1> DEFINE base == h[lo]
           ns == Arrived(names)
<1>1. /\ CopiesOK(base, names, lists) /\ Later(base, lists, base, lists) /\ AnswersOK(names, lists)
  BY SyncedFacts DEF Synced
<1>2. /\ UNCHANGED <<server, requests>> /\ HasAnswer(names)
      /\ \E f \in {form, Cleared(form, page, ns)} : Cached(f, ns, lists)
  BY DEF ReceiveNames
<1>3. Unread = {} /\ names.fetch.value = SchemaNames(fields)
  BY <1>1, <1>2 DEF AnswersOK
<1>4. base = fields
  BY <1>3, NothingUnread
<1>5. IsEntry(names)
  BY <1>1 DEF CopiesOK
<1>6. IsEntry(ns) /\ ns.data = SchemaNames(fields) /\ ~HasAnswer(ns)
  BY <1>3, <1>5, CacheFacts
<1> HIDE DEF base, ns
<1>7. CopiesOK(base, ns, lists)
  <2>1. \A s \in Schemas \ ns.data : Tracked(base, lists, s)
    BY <1>4, <1>6 DEF SchemaNames, Tracked
  <2> QED
    BY <1>1, <1>6, <2>1 DEF CopiesOK
<1>8. AnswersOK(ns, lists)
  BY <1>1, <1>6 DEF AnswersOK
<1>9. FormOK(home, made, base, lists, form, page)
  BY SyncedFacts DEF base
<1>10. PICK g : Cached(g, ns, lists) /\ FormOK(home, made, base, lists, g, page)
  BY <1>2, <1>7, <1>9, ClearedOK
<1> QED
  BY <1>1, <1>2, <1>7, <1>8, <1>10, CacheSynced DEF base

LEMMA ReceiveListSynced ==
  ASSUME NEW home, NEW h, NEW lo, NEW hi, Synced(home, h, lo, hi), NEW s \in Schemas, ReceiveList(s)
  PROVE  Synced(home, h, lo, hi)'
<1> DEFINE base == h[lo]
           q == lists[s]
           new == IF q.fetch.value = <<>> THEN Failed(q, "gone") ELSE Arrived(q)
           ls == [lists EXCEPT ![s] = new]
<1>1. /\ CopiesOK(base, names, lists) /\ AnswersOK(names, lists) /\ RowsOK(base)
  BY SyncedFacts DEF Synced
<1>2. /\ UNCHANGED <<server, requests>> /\ HasAnswer(q) /\ Cached(form, names, ls)
  BY DEF ReceiveList
<1>3. Unread = {} /\ q.fetch.value = Answer(fields, s)
  BY <1>1, <1>2 DEF AnswersOK
<1>4. base = fields
  BY <1>3, NothingUnread
<1>5. lists = [t \in Schemas |-> lists[t]] /\ \A t \in Schemas : IsEntry(lists[t])
  BY <1>1 DEF CopiesOK
<1>6. IsEntry(q)
  BY <1>5
<1>7. ls = [t \in Schemas |-> ls[t]] /\ ls[s] = new /\ \A t \in Schemas : t # s => ls[t] = lists[t]
  BY <1>5
<1>8. IsEntry(new) /\ ~HasAnswer(new) /\ (new.data = q.data \/ new.data = Answer(fields, s))
  <2> HIDE DEF q
  <2>1. \A e : IsEntry(Failed(q, e)) /\ Failed(q, e).data = q.data /\ ~HasAnswer(Failed(q, e))
    BY <1>6, CacheFacts
  <2>2. IsEntry(Arrived(q)) /\ Arrived(q).data = q.fetch.value /\ ~HasAnswer(Arrived(q))
    BY <1>6, CacheFacts
  <2> QED
    BY <1>3, <2>1, <2>2
<1>9. Mirrors(Answer(fields, s), base, s)
  BY <1>1, <1>4, AnswerMirrors
<1>10. Answer(fields, s) # None
  <2>1. Answer(fields, s) \in Seq(FieldEntry)
    BY <1>9 DEF Mirrors
  <2> QED
    BY <2>1, NoneAssumption DEF FieldEntry
<1> HIDE DEF base, q, new, ls
<1>11. ASSUME NEW t \in Schemas
       PROVE  /\ IsEntry(ls[t]) /\ (ls[t].data # None => Mirrors(ls[t].data, base, t))
              /\ Tracked(base, lists, t) => Tracked(base, ls, t)
              /\ HasAnswer(ls[t]) => HasAnswer(lists[t]) /\ ls[t].fetch = lists[t].fetch
  <2>1. lists[t].data # None => Mirrors(lists[t].data, base, t)
    BY <1>1 DEF CopiesOK
  <2>2. CASE t = s
    BY <1>7, <1>8, <1>9, <1>10, <2>1, <2>2 DEF Tracked, q
  <2>3. CASE t # s
    BY <1>5, <1>7, <2>1, <2>3 DEF Tracked
  <2> QED
    BY <2>2, <2>3
<1>12. CopiesOK(base, names, ls) /\ Later(base, lists, base, ls)
  BY <1>1, <1>7, <1>11 DEF CopiesOK, Later
<1>13. AnswersOK(names, ls)
  BY <1>1, <1>11 DEF AnswersOK
<1>14. FormOK(home, made, base, lists, form, page)
  BY SyncedFacts DEF base
<1> QED
  BY <1>2, <1>12, <1>13, <1>14, CacheSynced DEF base

LEMMA QueryStepSynced ==
  ASSUME NEW home, NEW h, NEW lo, NEW hi, Synced(home, h, lo, hi), QueryStep, Peaceful'
  PROVE  Synced(home, h, lo, hi)'
BY FocusSynced, ServeFetchSynced, ReceiveNamesSynced, ReceiveListSynced DEF QueryStep

-----------------------------------------------------------------------------
(* The server's threads.                                                   *)

\* The fields now, which are those after the last write.
LEMMA StoredFacts ==
  ASSUME NEW home, NEW h, NEW lo, NEW hi, Synced(home, h, lo, hi)
  PROVE  /\ RowsOK(fields) /\ Homes(home, fields) /\ \A id \in Stored(fields) : id <= made
         /\ \A r \in requests : RequestOK(home, made, h[lo], lists, r)
<1>1. hi \in lo..hi /\ h[hi] = fields
  BY DEF Synced, Behind
<1> QED
  BY <1>1 DEF Synced, Behind

LEMMA RowChanged ==
  ASSUME NEW row \in FieldRow, NEW i \in Int \cup {None}, NEW d \in BOOLEAN \cup {None}
  PROVE  LET new == [row EXCEPT !.index = IF i = None THEN @ ELSE i,
                                !.display = IF d = None THEN @ ELSE d]
         IN  new \in FieldRow /\ new.schema = row.schema
<1> DEFINE i2 == IF i = None THEN row.index ELSE i
           d2 == IF d = None THEN row.display ELSE d
           new == [row EXCEPT !.index = i2, !.display = d2]
<1>1. i2 \in Int /\ d2 \in BOOLEAN
  BY DEF FieldRow
<1> HIDE DEF i2, d2
<1>2. new \in FieldRow /\ new.schema = row.schema
  BY <1>1 DEF FieldRow
<1> QED
  BY <1>2 DEF i2, d2

\* A request goes one step further, and nothing else happens.
LEMMA FurtherSynced ==
  ASSUME NEW home, NEW h, NEW lo, NEW hi, Synced(home, h, lo, hi),
         UNCHANGED <<server, queries, page, form>>, NEW r \in requests, r.at # "done",
         NEW q, q.at # "done", requests' = (requests \ {r}) \cup {q},
         RequestOK(home, made, h[lo], lists, q)
  PROVE  Synced(home, h, lo, hi)'
<1>1. names' = names /\ lists' = lists /\ page' = page /\ form' = form
  BY DEF queries
<1>2. Unread' = Unread
  BY DEF Unread
<1>3. \A x \in requests' : RequestOK(home, made, h[lo], lists', x)
  BY <1>1, StoredFacts
<1>4. CopiesOK(h[lo], names', lists') /\ FormOK(home, made, h[lo], lists', form', page')
  BY <1>1, SyncedFacts
<1>5. AnswersOK(names', lists')
  BY <1>1 DEF Synced
<1> QED
  BY <1>2, <1>3, <1>4, <1>5, SyncedStep

\* The parts of a request that a thread does not touch.
LEMMA RequestParts ==
  ASSUME NEW r, IsRequest(r), NEW at, NEW row
  PROVE  LET q == [r EXCEPT !.at = at, !.row = row]
         IN  /\ q.op = r.op /\ q.id = r.id /\ q.schema = r.schema /\ q.change = r.change
             /\ q.known = r.known /\ q.at = at /\ q.row = row
                      /\ IsRequest([r EXCEPT !.at = "failed"])
<1> DEFINE p == [r EXCEPT !.at = at]
           q == [p EXCEPT !.row = row]
<1>1. /\ DOMAIN p = RequestFields /\ p.op = r.op /\ p.id = r.id /\ p.change = r.change
      /\ p.schema = r.schema /\ p.known = r.known /\ p.at = at
  BY DEF IsRequest, RequestFields
<1>2. q = [r EXCEPT !.at = at, !.row = row]
  BY DEF IsRequest
<1> HIDE DEF p
<1>3. /\ q.op = r.op /\ q.id = r.id /\ q.change = r.change
      /\ q.schema = r.schema /\ q.known = r.known /\ q.at = at /\ q.row = row
  BY <1>1 DEF RequestFields
<1>4. IsRequest([r EXCEPT !.at = "failed"])
  BY DEF IsRequest
<1> QED
  BY <1>2, <1>3, <1>4

LEMMA CheckSynced ==
  ASSUME NEW home, NEW h, NEW lo, NEW hi, Synced(home, h, lo, hi), IInv,
         NEW r \in requests, Check(r)
  PROVE  Synced(home, h, lo, hi)'
<1>1. /\ IsRequest(r) /\ r.at = "sent" /\ UNCHANGED <<server, queries, page, form>>
      /\ RequestOK(home, made, h[lo], lists, r)
  BY StoredFacts DEF IInv, RequestsOK, Check
<1>2. CASE Refused(r)
  <2> DEFINE q == [r EXCEPT !.at = "failed"]
  <2>1. requests' = (requests \ {r}) \cup {q}
    BY <1>2 DEF Check
  <2>2. q.at = "failed" /\ q.known = r.known
    BY <1>1 DEF IsRequest, RequestFields
  <2> HIDE DEF q
  <2>3. RequestOK(home, made, h[lo], lists, q)
    BY <1>1, <2>2 DEF RequestOK
  <2> QED
    BY <1>1, <2>1, <2>2, <2>3, FurtherSynced
<1>3. CASE ~Refused(r)
  <2> DEFINE row == IF r.op = "delete" THEN None ELSE Checked(r)
             at == "checked"
             q == [r EXCEPT !.at = at, !.row = row]
  <2>1. requests' = (requests \ {r}) \cup {q} /\ (r.op # "create" => r.id \in Stored(fields))
    BY <1>3 DEF Check, Refused
  <2>2. Aimed(home, made, h[lo], lists, r) /\ r.op \in {"create", "update", "delete"}
    BY <1>1 DEF RequestOK, IsRequest
  <2>3. r.op # "delete" => row \in FieldRow
    <3>1. CASE r.op = "create"
      <4> DEFINE i == NextIndex(fields, r.schema)
      <4>1. i \in Int
        BY NextIndexFacts DEF IInv
      <4>2. row = [schema |-> r.schema, index |-> i, display |-> r.change.display]
        BY <3>1 DEF Checked
      <4>3. r.schema \in Schemas /\ r.change.display \in BOOLEAN
        BY <2>2, <3>1 DEF Aimed
      <4> HIDE DEF i, row
      <4> QED
        BY <4>1, <4>2, <4>3 DEF FieldRow
    <3>2. CASE r.op = "update"
      <4> DEFINE old == fields[r.id]
                 i == r.change.index
                 d == r.change.display
      <4>1. old \in FieldRow
        BY <2>1, <3>2, StoredFacts, RowFacts
      <4>2. i \in Int \cup {None} /\ d \in BOOLEAN \cup {None}
        BY <1>1, <2>2, <3>2 DEF Aimed, IsRequest
      <4>3. row = [old EXCEPT !.index = IF i = None THEN @ ELSE i,
                              !.display = IF d = None THEN @ ELSE d]
        BY <3>2 DEF Checked
      <4> HIDE DEF old, i, d, row
      <4> QED
        BY <4>1, <4>2, <4>3, RowChanged
    <3> QED
      BY <2>2, <3>1, <3>2
  <2>4. /\ r.op = "create" => row.schema = r.schema
        /\ r.op = "update" => row.schema = home[r.id]
    <3>1. CASE r.op = "create"
      BY <3>1 DEF Checked
    <3>2. CASE r.op = "update"
      <4> DEFINE old == fields[r.id]
                 i == r.change.index
                 d == r.change.display
      <4>1. old \in FieldRow /\ old.schema = home[r.id]
        BY <2>1, <3>2, StoredFacts, RowFacts DEF Homes
      <4>2. i \in Int \cup {None} /\ d \in BOOLEAN \cup {None}
        BY <1>1, <2>2, <3>2 DEF Aimed, IsRequest
      <4>3. row = [old EXCEPT !.index = IF i = None THEN @ ELSE i,
                              !.display = IF d = None THEN @ ELSE d]
        BY <3>2 DEF Checked
      <4> HIDE DEF old, i, d, row
      <4>4. row.schema = old.schema
        BY <4>1, <4>2, <4>3, RowChanged
      <4> QED
        BY <3>2, <4>1, <4>4
    <3> QED
      BY <2>2, <3>1, <3>2
  <2> HIDE DEF row, at
  <2>5. /\ q.op = r.op /\ q.id = r.id /\ q.schema = r.schema /\ q.change = r.change
        /\ q.known = r.known /\ q.at = at /\ q.row = row
    BY <1>1, RequestParts
  <2> HIDE DEF q
  <2>6. q.at = "checked"
    BY <2>5 DEF at
  <2>7. Aimed(home, made, h[lo], lists, q)
    BY <2>2, <2>3, <2>4, <2>5, <2>6 DEF Aimed
  <2>8. RequestOK(home, made, h[lo], lists, q)
    BY <1>1, <2>5, <2>7 DEF RequestOK
  <2> QED
    BY <1>1, <2>1, <2>6, <2>8, FurtherSynced
<1> QED
  BY <1>2, <1>3

LEMMA CheckCounts ==
  ASSUME CountOK, IInv, NEW r \in requests, Check(r) \/ Lose(r)
  PROVE  CountOK'
<1>1. IsRequest(r) /\ UNCHANGED <<made, sent>>
  BY DEF IInv, RequestsOK, Check, Lose, server
<1>2. CASE Lose(r) \/ (Check(r) /\ Refused(r))
  <2> DEFINE q == [r EXCEPT !.at = "failed"]
  <2>1. requests' = (requests \ {r}) \cup {q} /\ q.at = "failed"
    BY <1>1, <1>2 DEF Check, Lose, IsRequest, RequestFields
  <2>2. Pending({q}) = {}
    BY <2>1 DEF Pending
  <2> HIDE DEF q
  <2> QED
    BY <1>1, <2>1, <2>2, CountReplaced
<1>3. CASE Check(r) /\ ~Refused(r)
  <2> DEFINE row == IF r.op = "delete" THEN None ELSE Checked(r)
             at == "checked"
             q == [r EXCEPT !.at = at, !.row = row]
  <2>1. requests' = (requests \ {r}) \cup {q} /\ r.at = "sent"
    BY <1>3 DEF Check
  <2> HIDE DEF row, at
  <2>2. q.op = r.op
    BY <1>1, RequestParts
  <2> HIDE DEF q
  <2>3. Pending({q}) = {} \/ Pending({r}) # {}
    BY <2>1, <2>2 DEF Pending
  <2> QED
    BY <1>1, <2>1, <2>3, CountReplaced
<1> QED
  BY <1>2, <1>3

\* Writes are numbered in their order.
LEMMA TurnFacts ==
  ASSUME NEW home, NEW h, NEW lo, NEW hi, Synced(home, h, lo, hi)
  PROVE  Max({q.turn : q \in Unread} \cup {0}) = hi
<1> DEFINE T == {q.turn : q \in Unread} \cup {0}
<1>1. lo \in Nat /\ hi \in Nat /\ lo <= hi
  BY DEF Synced, Behind
<1>2. \A q \in Unread : q.turn \in (lo + 1)..hi
  BY DEF Synced, Behind
<1>3. T \subseteq 0..hi
  BY <1>1, <1>2
<1>4. IsFiniteSet(0..hi)
  BY <1>1, FS_Interval
<1>5. IsFiniteSet(T) /\ T \subseteq Int
  <2>1. T \subseteq Int
    BY <1>3
  <2> HIDE DEF T
  <2>2. IsFiniteSet(T)
    BY <1>3, <1>4, FS_Subset
  <2> QED
    BY <2>1, <2>2
<1>6. hi \in T
  <2>1. CASE Unread = {}
    BY <2>1 DEF Synced
  <2>2. CASE Unread # {}
    <3>1. hi \in (lo + 1)..hi
      BY <1>1, <1>2, <2>2
    <3>2. \E q \in Unread : q.turn = hi
      BY <3>1 DEF Synced, Behind
    <3> QED
      BY <3>2
  <2> QED
    BY <2>1, <2>2
<1> HIDE DEF T
<1>7. Max(T) \in T /\ Max(T) >= hi
  BY <1>5, <1>6, MaxFacts
<1>8. Max(T) \in 0..hi
  BY <1>3, <1>7
<1>9. Max(T) = hi
  BY <1>1, <1>7, <1>8
<1> QED
  BY <1>9 DEF T

\* There is an id for each create.
LEMMA IdLeft ==
  ASSUME CountOK, NEW r \in requests, r.op = "create", r.at = "checked"
  PROVE  made + 1 \in Ids
           /\ Cardinality(Pending(requests \ {r})) = Cardinality(Pending(requests)) - 1
<1> DEFINE P == Pending(requests)
           n == Cardinality(P)
<1>1. r \in P /\ Pending(requests \ {r}) = P \ {r}
  BY DEF Pending
<1>2. IsFiniteSet(P) /\ n \in Nat
  BY PendingFacts DEF CountOK
<1> HIDE DEF P
<1>3. Cardinality(P \ {r}) = n - 1 /\ Cardinality(P \ {r}) \in Nat
  BY <1>1, <1>2, FS_RemoveElement, FS_CardinalityType
<1>4. /\ made \in Nat /\ sent \in Nat /\ made + n <= StartFields + sent /\ sent <= MaxRequests
      /\ StartFields \in Nat /\ MaxRequests \in Nat
  BY SchemaAssumption DEF CountOK, P
<1>5. made + 1 \in Ids
  BY <1>2, <1>3, <1>4 DEF Ids
<1>6. Cardinality(Pending(requests \ {r})) = Cardinality(P \ {r})
  BY <1>1, Zenon
<1> QED
  BY <1>3, <1>5, <1>6 DEF P

\* The request as it is answered.
LEMMA DoneParts ==
  ASSUME NEW r, IsRequest(r), NEW id, NEW turn
  PROVE  LET q == [r EXCEPT !.at = "done", !.id = id, !.turn = turn]
         IN  /\ q.op = r.op /\ q.schema = r.schema /\ q.change = r.change /\ q.known = r.known
             /\ q.row = r.row /\ q.at = "done" /\ q.id = id /\ q.turn = turn
<1> DEFINE p == [r EXCEPT !.at = "done"]
           o == [p EXCEPT !.id = id]
           q == [o EXCEPT !.turn = turn]
           Same(x) == /\ DOMAIN x = RequestFields
                      /\ x.op = r.op /\ x.schema = r.schema /\ x.change = r.change
                      /\ x.known = r.known /\ x.row = r.row
<1>1. Same(p) /\ p.at = "done"
  BY DEF IsRequest, RequestFields
<1>2. q = [r EXCEPT !.at = "done", !.id = id, !.turn = turn]
  BY DEF IsRequest
<1> HIDE DEF p
<1>3. Same(o) /\ o.at = "done" /\ o.id = id
  BY <1>1 DEF RequestFields
<1> HIDE DEF o
<1>4. Same(q) /\ q.at = "done" /\ q.id = id /\ q.turn = turn
  BY <1>3 DEF RequestFields
<1> QED
  BY <1>2, <1>4

LEMMA WriteCounts ==
  ASSUME CountOK, IInv, NEW r \in requests, Write(r)
  PROVE  CountOK'
<1> DEFINE id == IF r.op = "create" THEN made + 1 ELSE r.id
           turn == Max({q.turn : q \in Unread} \cup {0}) + 1
           q == [r EXCEPT !.at = "done", !.id = id, !.turn = turn]
           R == requests \ {r}
<1>1. /\ r.at = "checked" /\ sent' = sent /\ made' = IF r.op = "create" THEN made + 1 ELSE made
      /\ requests' = R \cup {q} /\ IsRequest(r)
  BY DEF Write, IInv, RequestsOK
<1> HIDE DEF id, turn
<1>2. q.at = "done"
  BY <1>1, DoneParts
<1> HIDE DEF q, R
<1>3. Pending(requests') = Pending(R)
  BY <1>1, <1>2 DEF Pending
<1>4. IsFiniteSet(requests')
  <2>1. IsFiniteSet(R)
    BY FS_RemoveElement DEF CountOK, R
  <2> QED
    BY <1>1, <2>1, FS_AddElement
<1>5. CASE r.op # "create"
  <2>1. Pending({q}) = {} /\ made' = made
    BY <1>1, <1>2, <1>5 DEF Pending
  <2> QED
    BY <1>1, <2>1, CountReplaced DEF R
<1>6. CASE r.op = "create"
  <2> DEFINE n == Cardinality(Pending(requests))
  <2>1. made' = made + 1 /\ Cardinality(Pending(R)) = n - 1
    BY <1>1, <1>6, IdLeft DEF R
  <2>2. Cardinality(Pending(requests')) = n - 1
    BY <1>3, <2>1, Zenon
  <2>3. n \in Nat
    BY PendingFacts DEF CountOK
  <2>4. made \in Nat /\ sent \in Nat /\ made + n <= StartFields + sent /\ StartFields \in Nat
    BY SchemaAssumption DEF CountOK
  <2>5. made' + Cardinality(Pending(requests')) <= StartFields + sent'
    <3> HIDE DEF n
    <3>1. (made + 1) + (n - 1) <= StartFields + sent
      BY <2>3, <2>4
    <3> QED
      BY <1>1, <2>1, <2>2, <3>1
  <2> QED
    BY <1>1, <1>4, <2>1, <2>4, <2>5 DEF CountOK
<1> QED
  BY <1>5, <1>6

\* What the page and the earlier writes have to do with ids already given out
\* stays as it is.
LEMMA WroteExtends ==
  ASSUME NEW home, NEW n, NEW home2, NEW n2, Extends(home, n, home2, n2),
         NEW r, r.id \in Ids, r.id <= n, NEW a, NEW b, Wrote(home, r, a, b)
  PROVE  Wrote(home2, r, a, b)
<1>1. home2[r.id] = home[r.id]
  BY DEF Extends
<1> QED
  BY <1>1 DEF Wrote

LEMMA HomesExtends ==
  ASSUME NEW home, NEW n, NEW home2, NEW n2, Extends(home, n, home2, n2),
         NEW fs, Homes(home, fs), \A id \in Stored(fs) : id <= n
  PROVE  Homes(home2, fs) /\ \A id \in Stored(fs) : id <= n2
<1>1. Ids \subseteq Int /\ Stored(fs) \subseteq Ids
  BY FieldsFinite DEF Stored
<1>2. ASSUME NEW id \in Stored(fs)
      PROVE  home2[id] = home[id] /\ id <= n2
  <2>1. id \in Ids /\ id \in Int /\ id <= n
    BY <1>1
  <2> QED
    BY <2>1 DEF Extends
<1> QED
  BY <1>2 DEF Homes

\* One more write that the page has not been told of.
LEMMA BehindOneMore ==
  ASSUME NEW home, NEW h, NEW lo, NEW hi, NEW n, Behind(home, h, lo, hi, n),
         NEW home2, NEW n2, Extends(home, n, home2, n2),
         \A x \in Unread : x.id \in Ids /\ x.id <= n,
         NEW q, q.turn = hi + 1, q.id <= n2, NEW new, Wrote(home2, q, h[hi], new),
         Unread' = Unread \cup {q}
  PROVE  Behind(home2, [h EXCEPT ![hi + 1] = new], lo, hi + 1, n2)'
<1> DEFINE h2 == [h EXCEPT ![hi + 1] = new]
<1>1. lo \in Nat /\ hi \in Nat /\ lo <= hi /\ n2 \in Nat /\ home2 \in [Ids -> Schemas]
  BY DEF Behind, Extends
<1>2. h2 = [k \in Nat |-> h2[k]] /\ h2[hi + 1] = new /\ \A k \in Nat : k # hi + 1 => h2[k] = h[k]
  BY <1>1 DEF Behind
<1> HIDE DEF h2
<1>3. ASSUME NEW k \in lo..hi
      PROVE  /\ RowsOK(h[k]) /\ Homes(home2, h[k]) /\ \A id \in Stored(h[k]) : id <= n2
             /\ h2[k] = h[k]
  <2>1. RowsOK(h[k]) /\ Homes(home, h[k]) /\ \A id \in Stored(h[k]) : id <= n
    BY DEF Behind
  <2> DEFINE fs == h[k]
  <2> HIDE DEF fs
  <2>2. Homes(home2, fs) /\ \A id \in Stored(fs) : id <= n2
    BY <2>1, HomesExtends DEF fs
  <2> QED
    BY <1>1, <1>2, <2>1, <2>2 DEF fs
<1>4. RowsOK(new) /\ Homes(home2, new) /\ \A id \in Stored(new) : id <= n2
  <2>1. hi \in lo..hi
    BY <1>1
  <2> DEFINE a == h[hi]
  <2>2. RowsOK(a) /\ Homes(home2, a) /\ \A id \in Stored(a) : id <= n2
    BY <1>3, <2>1
  <2> HIDE DEF a
  <2>3. RowsOK(new) /\ Homes(home2, new) /\ Stored(new) \subseteq Stored(a) \cup {q.id}
    BY <2>2, WroteRows DEF a
  <2> QED
    BY <2>2, <2>3
<1>5. ASSUME NEW k \in lo..(hi + 1)
      PROVE  RowsOK(h2[k]) /\ Homes(home2, h2[k]) /\ \A id \in Stored(h2[k]) : id <= n2
  <2>1. k \in lo..hi \/ k = hi + 1
    BY <1>1
  <2>2. CASE k \in lo..hi
    BY <1>3, <2>2
  <2>3. CASE k = hi + 1
    BY <1>2, <1>4, <2>3
  <2> QED
    BY <2>1, <2>2, <2>3
<1>6. ASSUME NEW x \in Unread
      PROVE  /\ x.turn \in (lo + 1)..hi
             /\ Wrote(home2, x, h2[x.turn - 1], h2[x.turn])
  <2> DEFINE t == x.turn
             a == h[t - 1]
             b == h[t]
  <2>1. t \in (lo + 1)..hi /\ Wrote(home, x, a, b)
    BY DEF Behind
  <2>2. h2[t - 1] = a /\ h2[t] = b
    <3> HIDE DEF t
    <3>1. t - 1 \in Nat /\ t \in Nat /\ t - 1 # hi + 1 /\ t # hi + 1
      BY <1>1, <2>1
    <3> QED
      BY <1>2, <3>1
  <2>3. x.id \in Ids /\ x.id <= n
    OBVIOUS
  <2> HIDE DEF t, a, b
  <2>4. Wrote(home2, x, a, b)
    BY <2>1, <2>3, WroteExtends
  <2> QED
    BY <2>1, <2>2, <2>4 DEF t
<1>7. ASSUME NEW x \in Unread'
      PROVE  x.turn \in (lo + 1)..(hi + 1) /\ Wrote(home2, x, h2[x.turn - 1], h2[x.turn])
  <2>1. CASE x \in Unread
    BY <1>1, <1>6, <2>1
  <2>2. CASE x = q
    <3>1. h2[hi + 1] = new /\ h2[hi] = h[hi] /\ hi + 1 \in (lo + 1)..(hi + 1) /\ (hi + 1) - 1 = hi
      BY <1>1, <1>2
    <3> QED
      BY <2>2, <3>1
  <2> QED
    BY <2>1, <2>2
<1>8. \A x, y \in Unread' : x.turn = y.turn => x = y
  <2>1. \A x, y \in Unread : x.turn = y.turn => x = y
    BY DEF Behind
  <2>2. \A x \in Unread : x.turn # hi + 1
    BY <1>1, <1>6
  <2> QED
    BY <2>1, <2>2
<1>9. ASSUME NEW k \in (lo + 1)..(hi + 1)
      PROVE  \E x \in Unread' : x.turn = k
  <2>1. CASE k = hi + 1
    BY <2>1
  <2>2. CASE k # hi + 1
    <3>1. k \in (lo + 1)..hi
      BY <1>1, <2>2
    <3>2. \E x \in Unread : x.turn = k
      BY <3>1 DEF Behind
    <3> QED
      BY <3>2
  <2> QED
    BY <2>1, <2>2
<1>10. lo <= hi + 1 /\ hi + 1 \in Nat
  BY <1>1
<1> QED
  BY <1>1, <1>2, <1>5, <1>7, <1>8, <1>9, <1>10 DEF Behind, h2

LEMMA WriteSynced ==
  ASSUME NEW home, NEW h, NEW lo, NEW hi, Synced(home, h, lo, hi), CountOK, IInv,
         NEW r \in requests, Write(r), Peaceful'
  PROVE  \E home2, h2, lo2, hi2 : Synced(home2, h2, lo2, hi2)'
<1> DEFINE base == h[lo]
<1>a. PICK id : id = IF r.op = "create" THEN made + 1 ELSE r.id
  OBVIOUS
<1>b. PICK turn : turn = Max({q.turn : q \in Unread} \cup {0}) + 1
  OBVIOUS
<1>c. PICK q : q = [r EXCEPT !.at = "done", !.id = id, !.turn = turn]
  OBVIOUS
<1>d. PICK home2 : home2 = IF r.op = "create" THEN [home EXCEPT ![id] = r.schema] ELSE home
  OBVIOUS
<1>e. PICK n2, new : n2 = made' /\ new = fields'
  OBVIOUS
<1>f. PICK h2 : h2 = [h EXCEPT ![hi + 1] = new]
  OBVIOUS
<1>1. /\ r.at = "checked" /\ UNCHANGED <<queries, page, form>>
      /\ requests' = (requests \ {r}) \cup {q}
      /\ made' = IF r.op = "create" THEN id ELSE made
      /\ fields' = CASE r.op # "delete" -> [fields EXCEPT ![id] = r.row]
                     [] r.op = "delete" /\ id \in Stored(fields) -> WithoutField(fields, id)
                     [] OTHER -> fields
  BY <1>a, <1>b, <1>c DEF Write
<1>2. ~Fetched
  BY DEF Write, Peaceful
<1>3. /\ IsRequest(r) /\ r.op \in {"create", "update", "delete"}
      /\ Aimed(home, made, base, lists, r) /\ RequestOK(home, made, base, lists, r)
  BY <1>1, StoredFacts DEF IInv, RequestsOK, IsRequest, RequestOK
<1>4. /\ home \in [Ids -> Schemas] /\ made \in Nat /\ Ids \subseteq Int
      /\ RowsOK(fields) /\ Homes(home, fields) /\ \A k \in Stored(fields) : k <= made
  BY SyncedFacts, StoredFacts, FieldsFinite
<1>5. /\ id \in Ids /\ made' \in Nat /\ made <= made' /\ id <= made'
      /\ r.op = "create" => id = made + 1
  <2>1. CASE r.op = "create"
    <3>1. made + 1 \in Ids
      BY <1>1, <2>1, IdLeft
    <3> QED
      BY <1>1, <1>4, <1>a, <2>1, <3>1
  <2>2. CASE r.op # "create"
    BY <1>1, <1>3, <1>4, <1>a, <2>2 DEF Aimed
  <2> QED
    BY <2>1, <2>2
<1>6. turn = hi + 1
  BY <1>b, TurnFacts
<1>7. Extends(home, made, home2, made')
  <2>1. CASE r.op = "create"
    <3>1. home2 \in [Ids -> Schemas] /\ \A k \in Ids : k # made + 1 => home2[k] = home[k]
      BY <1>3, <1>4, <1>5, <1>d, <2>1 DEF Aimed
    <3>2. \A k \in Ids : k <= made => k # made + 1
      BY <1>4
    <3> QED
      BY <1>4, <1>5, <3>1, <3>2 DEF Extends
  <2>2. CASE r.op # "create"
    BY <1>4, <1>5, <1>d, <2>2 DEF Extends
  <2> QED
    BY <2>1, <2>2
<1>8. /\ q.op = r.op /\ q.schema = r.schema /\ q.change = r.change /\ q.known = r.known
      /\ q.row = r.row /\ q.at = "done" /\ q.id = id /\ q.turn = turn
  BY <1>3, <1>c, DoneParts
<1>9. /\ r.op = "create" => home2[id] = r.schema
      /\ r.op # "create" => home2 = home /\ id = r.id
  BY <1>4, <1>5, <1>a, <1>d
<1>10. Wrote(home2, q, fields, fields')
  <2>1. r.op = "create" => id \notin Stored(fields)
    BY <1>4, <1>5
  <2>2. r.op = "delete" => r.schema = home2[id]
    BY <1>3, <1>9 DEF Aimed
  <2>3. r.op # "delete" => r.row \in FieldRow
    BY <1>1, <1>3 DEF Aimed
  <2>4. r.op # "delete" => r.row.schema = home2[id]
    BY <1>1, <1>3, <1>9 DEF Aimed
  <2>5. r.op = "delete" => fields' = IF id \in Stored(fields) THEN WithoutField(fields, id)
           ELSE fields
    BY <1>1
  <2>6. r.op # "delete" => fields' = [fields EXCEPT ![id] = r.row]
    BY <1>1
  <2> QED
    BY <1>3, <1>5, <1>8, <2>1, <2>2, <2>3, <2>4, <2>5, <2>6 DEF Wrote
<1>11. Unread' = Unread \cup {q}
  BY <1>1, <1>8 DEF Unread
<1>12. \A x \in Unread : x.id \in Ids /\ x.id <= made
  <2>1. ASSUME NEW x \in Unread
        PROVE  x.id \in Ids /\ x.id <= made
    <3>1. Aimed(home, made, base, lists, x) /\ x.at = "done"
      BY StoredFacts DEF Unread, RequestOK
    <3> QED
      BY <3>1 DEF Aimed
  <2> QED
    BY <2>1
<1>13. Behind(home, h, lo, hi, made) /\ h[hi] = fields
  BY DEF Synced
<1>14. Behind(home2, h2, lo, hi + 1, made)'
  <2>1. q.turn = hi + 1 /\ q.id <= n2
    BY <1>5, <1>6, <1>8, <1>e
  <2>2. Wrote(home2, q, h[hi], new) /\ Extends(home, made, home2, n2)
    BY <1>7, <1>10, <1>13, <1>e
  <2>3. Behind(home2, [h EXCEPT ![hi + 1] = new], lo, hi + 1, n2)'
    BY <1>11, <1>12, <1>13, <2>1, <2>2, BehindOneMore
  <2> QED
    BY <1>e, <1>f, <2>3
<1>15. lo \in Nat /\ hi \in Nat /\ lo # hi + 1 /\ h = [k \in Nat |-> h[k]]
  BY <1>13 DEF Behind
<1>16. h2[lo] = base /\ h2[hi + 1] = fields'
  BY <1>15, <1>e, <1>f
<1> HIDE DEF base
<1>17. names' = names /\ lists' = lists /\ page' = page /\ form' = form
  BY <1>1 DEF queries
<1>18. CopiesOK(base, names', lists')
  BY <1>17, SyncedFacts DEF base
<1>19. AnswersOK(names, lists)'
  BY <1>2, <1>17 DEF AnswersOK, Fetched
<1>20. FormOK(home2, made', base, lists', form', page')
  <2>1. FormOK(home, made, base, lists, form, page)
    BY SyncedFacts DEF base
  <2>2. FormOK(home2, n2, base, lists, form, page)
    BY <1>7, <2>1, <1>e, FormExtends
  <2> QED
    BY <1>17, <1>e, <2>2
<1>21. ASSUME NEW x \in requests'
       PROVE  RequestOK(home2, made', base, lists', x)
  <2>1. Extends(home, made, home2, n2)
    BY <1>7, <1>e
  <2>2. ASSUME NEW y \in requests
        PROVE  RequestOK(home2, n2, base, lists, y)
    <3>1. RequestOK(home, made, base, lists, y)
      BY StoredFacts DEF base
    <3> QED
      BY <2>1, <3>1, RequestExtends
  <2>3. CASE x \in requests
    BY <1>17, <1>e, <2>2, <2>3
  <2>4. CASE x = q
    <3>1. Aimed(home2, n2, base, lists, r) /\ \A s \in Schemas \ r.known : Tracked(base, lists, s)
      BY <1>1, <2>2 DEF RequestOK
    <3>2. Aimed(home2, n2, base, lists, q)
      BY <1>1, <1>3, <1>5, <1>8, <1>9, <1>e, <3>1 DEF Aimed
    <3> QED
      BY <1>8, <1>17, <1>e, <2>4, <3>1, <3>2 DEF RequestOK
  <2> QED
    BY <1>1, <2>3, <2>4
<1>22. Unread' # {}
  BY <1>11
<1>23. Synced(home2, h2, lo, hi + 1)'
  BY <1>14, <1>16, <1>18, <1>19, <1>20, <1>21, <1>22 DEF Synced
<1> QED
  BY <1>23

-----------------------------------------------------------------------------
(* Answers.                                                                *)

\* The page had the fields as they were before the write that r answers.
LEMMA NextTurn ==
  ASSUME NEW home, NEW h, NEW lo, NEW hi, Synced(home, h, lo, hi), NEW r \in Unread,
         \A q \in Unread : ~(q.turn < r.turn)
  PROVE  /\ r.turn = lo + 1 /\ lo + 1 \in Nat /\ lo + 1 <= hi
         /\ Wrote(home, r, h[lo], h[lo + 1])
         /\ RowsOK(h[lo + 1]) /\ Homes(home, h[lo + 1]) /\ \A id \in Stored(h[lo + 1]) : id <= made
<1>1. /\ lo \in Nat /\ hi \in Nat /\ Behind(home, h, lo, hi, made)
  BY DEF Synced, Behind
<1>2. r.turn \in (lo + 1)..hi /\ Wrote(home, r, h[r.turn - 1], h[r.turn])
  BY <1>1 DEF Behind
<1>3. lo + 1 \in (lo + 1)..hi
  BY <1>1, <1>2
<1>4. PICK q \in Unread : q.turn = lo + 1
  BY <1>1, <1>3 DEF Behind
<1>5. r.turn = lo + 1
  BY <1>1, <1>2, <1>4
<1>6. lo + 1 \in lo..hi /\ (lo + 1) - 1 = lo
  BY <1>1, <1>3
<1>7. RowsOK(h[lo + 1]) /\ Homes(home, h[lo + 1]) /\ \A id \in Stored(h[lo + 1]) : id <= made
  BY <1>1, <1>6 DEF Behind
<1> QED
  BY <1>1, <1>2, <1>3, <1>5, <1>6, <1>7

\* The copies with an answer in them.
Copied(a, b, ns, ls) ==
    /\ CopiesOK(b, ns, ls) /\ Later(a, lists, b, ls)
    /\ \A s \in Schemas : ls[s].fetch = lists[s].fetch
    /\ ns.fetch = names.fetch

LEMMA AnswerCopied ==
  ASSUME NEW home \in [Ids -> Schemas], NEW a, NEW b, NEW n, CopiesOK(a, names, lists), NEW r,
         RowsOK(a), Homes(home, a), Wrote(home, r, a, b), r.at = "done",
         RequestOK(home, n, a, lists, r), NEW ls, NEW ns, ns = NamesAfter(r, TRUE),
         ls = [lists EXCEPT ![ListOf(r)] = SetData(@, Patched(Known(@), r))]
  PROVE  Copied(a, b, ns, ls)
<1> DEFINE s0 == home[r.id]
           q == lists[s0]
           known == Known(q)
           new == Patched(known, r)
<1>1. /\ IsEntry(names) /\ lists = [s \in Schemas |-> lists[s]]
         /\ \A s \in Schemas : IsEntry(lists[s])
      /\ \A s \in Schemas : lists[s].data # None => Mirrors(lists[s].data, a, s)
      /\ \A s \in Schemas \ names.data : Tracked(a, lists, s)
  BY DEF CopiesOK
<1>2. r.id \in Ids /\ r.op \in {"create", "update", "delete"}
  BY DEF Wrote
<1>3. s0 \in Schemas
  BY <1>2
<1>4. Tracked(a, lists, s0)
  BY <1>2 DEF RequestOK, Aimed
<1>5. Mirrors(known, a, s0)
  <2>1. CASE q.data = None
    <3>1. known = <<>> /\ FieldsOf(a, s0) = {}
      BY <1>4, <2>1 DEF Known, Tracked
    <3> HIDE DEF s0, known
    <3> QED
      BY <3>1, NothingMirrors
  <2>2. CASE q.data # None
    BY <1>1, <1>3, <2>2 DEF Known
  <2> QED
    BY <2>1, <2>2
<1>6. ListOf(r) = s0 /\ Mirrors(new, b, s0)
  <2> HIDE DEF known
  <2> QED
    BY <1>5, PatchedMirrors
<1>7. IsEntry(q)
  BY <1>1, <1>3
<1> HIDE DEF q, known, new
<1>8. IsEntry(SetData(q, new)) /\ SetData(q, new).data = new /\ SetData(q, new).fetch = q.fetch
  BY <1>7, CacheFacts
<1>9. new # None
  <2>1. new \in Seq(FieldEntry)
    BY <1>6 DEF Mirrors
  <2> QED
    BY <2>1, NoneAssumption DEF FieldEntry
<1> HIDE DEF s0
<1>10. ls = [lists EXCEPT ![s0] = SetData(q, new)]
  BY <1>6 DEF q, known, new, s0
<1>11. /\ ls = [s \in Schemas |-> ls[s]] /\ ls[s0] = SetData(q, new)
       /\ \A s \in Schemas : s # s0 => ls[s] = lists[s]
  BY <1>1, <1>3, <1>10
<1>12. ASSUME NEW s \in Schemas
       PROVE  /\ IsEntry(ls[s]) /\ (ls[s].data # None => Mirrors(ls[s].data, b, s))
              /\ Tracked(a, lists, s) => Tracked(b, ls, s)
              /\ ls[s].fetch = lists[s].fetch
  <2>1. CASE s = s0
    BY <1>6, <1>8, <1>9, <1>11, <2>1 DEF Tracked, q
  <2>2. CASE s # s0
    <3>1. ls[s] = lists[s]
      BY <1>11, <2>2
    <3>2. FieldsOf(b, s) = FieldsOf(a, s)
      BY <2>2, OtherSchemas DEF s0
    <3>3. \A list : Mirrors(list, a, s) => Mirrors(list, b, s)
      BY <2>2, OtherSchemas DEF s0
    <3> QED
      BY <1>1, <3>1, <3>2, <3>3 DEF Tracked
  <2> QED
    BY <2>1, <2>2
<1>13. Later(a, lists, b, ls)
  BY <1>12 DEF Later
<1>14. Tracked(b, ls, s0)
  BY <1>8, <1>9, <1>11 DEF Tracked
<1>15. \A s \in Schemas \ r.known : Tracked(a, lists, s)
  BY DEF RequestOK
<1>16. /\ IsEntry(ns) /\ ns.fetch = names.fetch
       /\ \/ ns.data = names.data
          \/ r.known \subseteq ns.data
          \/ r.op = "delete" /\ ns.data = r.known \ {r.schema}
  <2>1. CASE ns = names
    BY <1>1, <2>1
  <2>2. CASE ns = SetData(names, r.known \cup {r.schema})
    <3> DEFINE v == r.known \cup {r.schema}
    <3>1. r.known \subseteq v
      OBVIOUS
    <3> HIDE DEF v
    <3>2. IsEntry(SetData(names, v)) /\ SetData(names, v).data = v
             /\ SetData(names, v).fetch = names.fetch
      BY <1>1, CacheFacts
    <3> QED
      BY <2>2, <3>1, <3>2 DEF v
  <2>3. CASE r.op = "delete" /\ ns = SetData(names, r.known \ {r.schema})
    <3> DEFINE v == r.known \ {r.schema}
    <3> HIDE DEF v
    <3>2. IsEntry(SetData(names, v)) /\ SetData(names, v).data = v
             /\ SetData(names, v).fetch = names.fetch
      BY <1>1, CacheFacts
    <3> QED
      BY <2>3, <3>2 DEF v
  <2> QED
    BY <2>1, <2>2, <2>3 DEF NamesAfter
<1>17. r.op = "delete" => r.schema = s0
  BY DEF Wrote, s0
<1>18. ASSUME NEW s \in Schemas \ ns.data
       PROVE  Tracked(b, ls, s)
  <2>1. CASE s = s0
    BY <1>14, <2>1
  <2>2. CASE s # s0
    <3>1. s \notin names.data \/ s \notin r.known
      BY <1>16, <1>17, <2>2
    <3> QED
      BY <1>1, <1>12, <1>15, <3>1
  <2> QED
    BY <2>1, <2>2
<1>19. CopiesOK(b, ns, ls)
  BY <1>11, <1>12, <1>16, <1>18 DEF CopiesOK
<1> QED
  BY <1>12, <1>13, <1>16, <1>19 DEF Copied

\* r is the answer to the first write that the page has not been told of.
Reads(home, lo, hi, r, a, b, ns, ls) ==
    /\ r.turn = lo + 1 /\ lo + 1 \in Nat /\ lo + 1 <= hi
    /\ Wrote(home, r, a, b)
    /\ RowsOK(b) /\ Homes(home, b) /\ \A id \in Stored(b) : id <= made
    /\ Copied(a, b, ns, ls)

LEMMA ReceiveCopied ==
  ASSUME NEW home, NEW h, NEW lo, NEW hi, Synced(home, h, lo, hi),
         NEW r \in requests, Receive(r), Peaceful', NEW a, NEW b, a = h[lo], b = h[lo + 1],
         NEW ls, ls = [lists EXCEPT ![ListOf(r)] = SetData(@, Patched(Known(@), r))],
         NEW ns, ns = NamesAfter(r, TRUE)
  PROVE  Reads(home, lo, hi, r, a, b, ns, ls)
<1>1. r.at = "done" /\ \A q \in Unread : ~(q.turn < r.turn)
  BY DEF Receive, Peaceful
<1>2. r \in Unread
  BY <1>1 DEF Unread
<1>3. /\ r.turn = lo + 1 /\ lo + 1 \in Nat /\ lo + 1 <= hi
      /\ Wrote(home, r, a, b)
      /\ RowsOK(b) /\ Homes(home, b) /\ \A id \in Stored(b) : id <= made
  BY <1>1, <1>2, NextTurn
<1>4. /\ home \in [Ids -> Schemas] /\ RowsOK(a) /\ Homes(home, a) /\ CopiesOK(a, names, lists)
  BY SyncedFacts
<1>5. RequestOK(home, made, a, lists, r)
  BY DEF Synced
<1>6. Copied(a, b, ns, ls)
  BY <1>1, <1>3, <1>4, <1>5, AnswerCopied
<1> QED
  BY <1>3, <1>6 DEF Reads

LEMMA ReceiveSynced ==
  ASSUME NEW home, NEW h, NEW lo, NEW hi, Synced(home, h, lo, hi),
         NEW r \in requests, Receive(r), Peaceful'
  PROVE  \E home2, h2, lo2, hi2 : Synced(home2, h2, lo2, hi2)'
<1>a. PICK ls : ls = [lists EXCEPT ![ListOf(r)] = SetData(@, Patched(Known(@), r))]
  OBVIOUS
<1>b. PICK ns : ns = NamesAfter(r, TRUE)
  OBVIOUS
<1>c. PICK a, b : a = h[lo] /\ b = h[lo + 1]
  OBVIOUS
<1>1. /\ r.at = "done" /\ UNCHANGED server /\ requests' = requests \ {r}
      /\ Cached(form, ns, ls) \/ CachedAndLeft(ns, ls)
  BY <1>a, <1>b DEF Receive
<1>2. r \in Unread /\ Unread' = Unread \ {r}
  BY <1>1 DEF Unread
<1>3. /\ r.turn = lo + 1 /\ lo + 1 \in Nat /\ lo + 1 <= hi
      /\ RowsOK(b) /\ Homes(home, b) /\ \A id \in Stored(b) : id <= made
      /\ Copied(a, b, ns, ls)
  <2>1. Reads(home, lo, hi, r, a, b, ns, ls)
    BY <1>a, <1>b, <1>c, ReceiveCopied
  <2> QED
    BY <2>1 DEF Reads
<1>4. /\ home \in [Ids -> Schemas] /\ lo \in Nat /\ hi \in Nat /\ made \in Nat
      /\ FormOK(home, made, a, lists, form, page)
  BY <1>c, SyncedFacts
<1>5. \A q \in requests : RequestOK(home, made, a, lists, q)
  BY <1>c DEF Synced
<1>6. /\ CopiesOK(b, ns, ls) /\ Later(a, lists, b, ls)
      /\ \A s \in Schemas : ls[s].fetch = lists[s].fetch
      /\ ns.fetch = names.fetch
  BY <1>3 DEF Copied
<1>7. /\ names' = ns /\ SameData(ls, lists') /\ CopiesOK(b, ns, lists')
      /\ Later(a, lists, b, lists')
      /\ FormOK(home, made, b, lists', form', page')
  BY <1>1, <1>3, <1>4, <1>6, CachedOK
<1>8. fields' = fields /\ made' = made
  BY <1>1 DEF server
<1>9. CopiesOK(b, names', lists') /\ FormOK(home, made', b, lists', form', page')
  BY <1>7, <1>8
<1>10. AnswersOK(names, lists)'
  <2>1. ~HasAnswer(names) /\ \A s \in Schemas : ~HasAnswer(lists[s])
    BY <1>2 DEF Synced, AnswersOK
  <2>2. ~HasAnswer(names') /\ \A s \in Schemas : ~HasAnswer(lists'[s])
    BY <1>6, <1>7, <2>1 DEF HasAnswer, SameData
  <2> QED
    BY <2>2 DEF AnswersOK
<1>11. ASSUME NEW q \in requests'
       PROVE  RequestOK(home, made', b, lists', q)
  <2>1. RequestOK(home, made, a, lists, q)
    BY <1>1, <1>5
  <2>2. RequestOK(home, made, b, lists', q)
    BY <1>4, <1>7, <2>1, RequestLater
  <2> QED
    BY <1>8, <2>2
<1>12. Behind(home, h, lo, hi, made) /\ h[hi] = fields
  BY DEF Synced
<1>13. CASE Unread' = {}
  <2>1. hi = lo + 1
    <3>1. \A k \in (lo + 1)..hi : k = lo + 1
      BY <1>2, <1>3, <1>12, <1>13 DEF Behind
    <3>2. hi \in (lo + 1)..hi
      BY <1>3, <1>4
    <3> QED
      BY <3>1, <3>2
  <2>2. b = fields
    BY <1>12, <1>c, <2>1
  <2>3. PICK h2 : h2 = [k \in Nat |-> b]
    OBVIOUS
  <2>4. h2[0] = b /\ h2 = [k \in Nat |-> h2[k]]
    BY <2>3
  <2>5. Behind(home, h2, 0, 0, made)'
    <3>1. \A k \in 0..0 : k = 0
      OBVIOUS
    <3>2. \A k \in 0..0 : RowsOK(h2[k]) /\ Homes(home, h2[k])
             /\ \A id \in Stored(h2[k]) : id <= made
      BY <1>3, <2>4, <3>1
    <3>3. (0 + 1)..0 = {}
      OBVIOUS
    <3> QED
      BY <1>4, <1>8, <1>13, <2>4, <3>2, <3>3 DEF Behind
  <2>6. Synced(home, h2, 0, 0)'
    BY <1>8, <1>9, <1>10, <1>11, <2>2, <2>4, <2>5 DEF Synced
  <2> QED
    BY <2>6
<1>14. CASE Unread' # {}
  <2>1. Behind(home, h, lo + 1, hi, made)'
    <3>1. \A k \in (lo + 1)..hi : k \in lo..hi
      BY <1>4
    <3>2. \A k \in (lo + 1)..hi :
             RowsOK(h[k]) /\ Homes(home, h[k]) /\ \A id \in Stored(h[k]) : id <= made
      BY <1>12, <3>1 DEF Behind
    <3>3. ASSUME NEW q \in Unread \ {r}
          PROVE  /\ q.turn \in ((lo + 1) + 1)..hi
                 /\ Wrote(home, q, h[q.turn - 1], h[q.turn])
      <4>1. /\ q.turn \in (lo + 1)..hi /\ q.turn # lo + 1
            /\ Wrote(home, q, h[q.turn - 1], h[q.turn])
        BY <1>2, <1>3, <1>12 DEF Behind
      <4>2. q.turn \in ((lo + 1) + 1)..hi
        BY <1>4, <4>1
      <4> QED
        BY <4>1, <4>2
    <3>4. \A q, x \in Unread \ {r} : q.turn = x.turn => q = x
      BY <1>12 DEF Behind
    <3>5. ASSUME NEW k \in ((lo + 1) + 1)..hi
          PROVE  \E q \in Unread \ {r} : q.turn = k
      <4>1. k \in (lo + 1)..hi /\ k # lo + 1
        BY <1>4
      <4>2. PICK q \in Unread : q.turn = k
        BY <1>12, <4>1 DEF Behind
      <4>3. q # r
        BY <1>3, <4>1, <4>2
      <4> QED
        BY <4>2, <4>3
    <3>6. h = [k \in Nat |-> h[k]]
      BY <1>12 DEF Behind
    <3> QED
      BY <1>2, <1>3, <1>4, <1>8, <3>2, <3>3, <3>4, <3>5, <3>6 DEF Behind
  <2>2. Synced(home, h, lo + 1, hi)'
    BY <1>8, <1>9, <1>10, <1>11, <1>12, <1>14, <1>c, <2>1 DEF Synced
  <2> QED
    BY <2>2
<1> QED
  BY <1>13, <1>14

\* A failed request leaves no trace but in the dialog it was sent by.
LEMMA FailureSynced ==
  ASSUME NEW home, NEW h, NEW lo, NEW hi, Synced(home, h, lo, hi), IInv,
         NEW r \in requests, ReceiveFailure(r)
  PROVE  Synced(home, h, lo, hi)'
<1> DEFINE Spoilt(q) == [q EXCEPT !.spoiled = @ \/ (q.batch = r.batch /\ r.whole)]
           Alike(x, q) == /\ x.op = q.op /\ x.id = q.id /\ x.schema = q.schema
                    /\ x.change = q.change
                          /\ x.known = q.known /\ x.at = q.at /\ x.row = q.row /\ x.turn = q.turn
           base == h[lo]
<1>1. /\ r.at = "failed" /\ UNCHANGED server /\ Cached(form, NamesAfter(r, FALSE), lists)
      /\ requests' = {Spoilt(q) : q \in requests \ {r}}
  BY DEF ReceiveFailure
<1>2. ASSUME NEW q \in requests
      PROVE  Alike(Spoilt(q), q)
  <2>1. DOMAIN q = RequestFields
    BY DEF IInv, RequestsOK, IsRequest
  <2> QED
    BY <2>1 DEF RequestFields
<1> HIDE DEF Spoilt
<1>3. /\ \A x \in Unread' : \E q \in Unread : x = Spoilt(q)
      /\ \A q \in Unread : Spoilt(q) \in Unread'
  BY <1>1, <1>2 DEF Unread
<1>4. fields' = fields /\ made' = made
  BY <1>1 DEF server
<1>5. /\ home \in [Ids -> Schemas] /\ CopiesOK(base, names, lists)
      /\ Homes(home, base) /\ \A id \in Stored(base) : id <= made
      /\ FormOK(home, made, base, lists, form, page) /\ Later(base, lists, base, lists)
      /\ AnswersOK(names, lists) /\ \A q \in requests : RequestOK(home, made, base, lists, q)
  BY SyncedFacts DEF Synced
<1>6. Behind(home, h, lo, hi, made)'
  <2>1. Behind(home, h, lo, hi, made)
    BY DEF Synced
  <2>2. ASSUME NEW x \in Unread'
        PROVE  x.turn \in (lo + 1)..hi /\ Wrote(home, x, h[x.turn - 1], h[x.turn])
    <3>1. PICK q \in Unread : x = Spoilt(q)
      BY <1>3
    <3>2. Alike(x, q)
      BY <1>2, <3>1 DEF Unread
    <3>3. q.turn \in (lo + 1)..hi /\ Wrote(home, q, h[q.turn - 1], h[q.turn])
      BY <2>1 DEF Behind
    <3> QED
      BY <3>2, <3>3 DEF Wrote
  <2>3. ASSUME NEW x \in Unread', NEW y \in Unread', x.turn = y.turn
        PROVE  x = y
    <3>1. PICK q \in Unread : x = Spoilt(q)
      BY <1>3
    <3>2. PICK p \in Unread : y = Spoilt(p)
      BY <1>3
    <3>3. q.turn = p.turn
      BY <1>2, <2>3, <3>1, <3>2 DEF Unread
    <3>4. q = p
      BY <2>1, <3>3 DEF Behind
    <3> QED
      BY <3>1, <3>2, <3>4
  <2>4. ASSUME NEW k \in (lo + 1)..hi
        PROVE  \E x \in Unread' : x.turn = k
    <3>1. PICK q \in Unread : q.turn = k
      BY <2>1 DEF Behind
    <3>2. Spoilt(q) \in Unread' /\ Spoilt(q).turn = k
      BY <1>2, <1>3, <3>1 DEF Unread
    <3> QED
      BY <3>2
  <2> QED
    BY <1>4, <2>1, <2>2, <2>3, <2>4 DEF Behind
<1>7. PICK ns : ns = NamesAfter(r, FALSE)
  OBVIOUS
<1>8. IsEntry(ns) /\ ns.fetch = names.fetch /\ (ns.data = names.data \/ r.known \subseteq ns.data)
  <2>1. IsEntry(names)
    BY <1>5 DEF CopiesOK
  <2>2. CASE ns = names
    BY <2>1, <2>2
  <2>3. CASE ns = SetData(names, r.known \cup {r.schema})
    <3> DEFINE v == r.known \cup {r.schema}
    <3>1. r.known \subseteq v
      OBVIOUS
    <3> HIDE DEF v
    <3>2. IsEntry(SetData(names, v)) /\ SetData(names, v).data = v
             /\ SetData(names, v).fetch = names.fetch
      BY <2>1, CacheFacts
    <3> QED
      BY <2>3, <3>1, <3>2 DEF v
  <2> QED
    BY <1>7, <2>2, <2>3 DEF NamesAfter
<1>9. CopiesOK(base, ns, lists)
  <2>1. \A s \in Schemas \ r.known : Tracked(base, lists, s)
    BY <1>5 DEF RequestOK
  <2> QED
    BY <1>5, <1>8, <2>1 DEF CopiesOK
<1>10. /\ names' = ns /\ SameData(lists, lists') /\ CopiesOK(base, ns, lists')
       /\ Later(base, lists, base, lists')
       /\ FormOK(home, made, base, lists', form', page')
  <2>1. Cached(form, ns, lists)
    BY <1>1, <1>7
  <2> HIDE DEF base
  <2> QED
    BY <1>5, <1>9, <2>1, CachedOK
<1> HIDE DEF base
<1>11. AnswersOK(names, lists)'
  <2>1. HasAnswer(names') => HasAnswer(names) /\ names'.fetch = names.fetch
    BY <1>8, <1>10 DEF HasAnswer
  <2>2. AnswersOK(names', lists')
    BY <1>5, <1>10, <2>1, AnswersSame
  <2>3. Unread = {} => Unread' = {}
    BY <1>3
  <2> QED
    BY <1>4, <2>2, <2>3 DEF AnswersOK
<1>12. ASSUME NEW x \in requests'
       PROVE  RequestOK(home, made', base, lists', x)
  <2>1. PICK q \in requests : x = Spoilt(q)
    BY <1>1
  <2>2. Alike(x, q)
    BY <1>2, <2>1
  <2>3. RequestOK(home, made, base, lists', q)
    BY <1>5, <1>10, RequestLater
  <2>4. Aimed(home, made, base, lists', q) => Aimed(home, made, base, lists', x)
    BY <2>2 DEF Aimed
  <2>5. RequestOK(home, made, base, lists', x)
    BY <2>2, <2>3, <2>4 DEF RequestOK
  <2> QED
    BY <1>4, <2>5
<1>13. CopiesOK(base, names', lists') /\ FormOK(home, made', base, lists', form', page')
  BY <1>4, <1>10
<1>14. h[hi] = fields' /\ (Unread' = {} => hi = 0)
  BY <1>3, <1>4 DEF Synced
<1> QED
  BY <1>6, <1>11, <1>12, <1>13, <1>14 DEF Synced, base

LEMMA AnswersCount ==
  ASSUME CountOK, IInv, NEW r \in requests, Receive(r) \/ ReceiveFailure(r)
  PROVE  CountOK'
<1>1. UNCHANGED <<made, sent>> /\ IsFiniteSet(requests)
  BY DEF Receive, ReceiveFailure, server, CountOK
<1> DEFINE P == Pending(requests)
<1>2. IsFiniteSet(P) /\ Cardinality(P) \in Nat
  BY <1>1, PendingFacts
<1>3. CASE Receive(r)
  <2>1. requests' = requests \ {r}
    BY <1>3 DEF Receive
  <2>2. IsFiniteSet(requests')
    BY <1>1, <2>1, FS_RemoveElement
  <2>3. Pending(requests') \in SUBSET P
    BY <2>1 DEF Pending
  <2>4. Cardinality(Pending(requests')) <= Cardinality(P)
    BY <1>2, <2>3, FS_Subset
  <2> QED
    BY <1>1, <2>2, <2>4, CountFewer
<1>4. CASE ReceiveFailure(r)
  <2> DEFINE Spoilt(q) == [q EXCEPT !.spoiled = @ \/ (q.batch = r.batch /\ r.whole)]
             R == requests \ {r}
             all == [q \in R |-> Spoilt(q)]
             some == [q \in Pending(R) |-> Spoilt(q)]
  <2>1. requests' = {Spoilt(q) : q \in R}
    BY <1>4 DEF ReceiveFailure
  <2>2. ASSUME NEW q \in R
        PROVE  Spoilt(q).op = q.op /\ Spoilt(q).at = q.at
    <3>1. DOMAIN q = RequestFields
      BY DEF IInv, RequestsOK, IsRequest
    <3> QED
      BY <3>1 DEF RequestFields
  <2> HIDE DEF Spoilt
  <2>3. IsFiniteSet(R)
    BY <1>1, FS_RemoveElement
  <2>4. requests' = {all[q] : q \in DOMAIN all}
    BY <2>1
  <2>5. IsFiniteSet(requests')
    <3>1. IsFiniteSet(DOMAIN all)
      BY <2>3
    <3> HIDE DEF all
    <3>2. IsFiniteSet({all[q] : q \in DOMAIN all})
      BY <3>1, ImageFinite
    <3> QED
      BY <2>4, <3>2
  <2>6. Pending(requests') = {some[q] : q \in DOMAIN some}
    <3>1. Pending(requests') = {Spoilt(q) : q \in Pending(R)}
      BY <2>1, <2>2 DEF Pending
    <3> QED
      BY <3>1
  <2>7. DOMAIN some = Pending(R) /\ Pending(R) \in SUBSET P
    BY DEF Pending
  <2> HIDE DEF some, P, R
  <2>8. IsFiniteSet(DOMAIN some) /\ Cardinality(DOMAIN some) <= Cardinality(P)
        /\ Cardinality(DOMAIN some) \in Nat
    BY <1>2, <2>7, FS_Subset, FS_CardinalityType
  <2>9. /\ IsFiniteSet({some[q] : q \in DOMAIN some})
        /\ Cardinality({some[q] : q \in DOMAIN some}) <= Cardinality(DOMAIN some)
    BY <2>8, ImageFinite
  <2>10. Cardinality(Pending(requests')) = Cardinality({some[q] : q \in DOMAIN some})
    BY <2>6, Zenon
  <2>11. Cardinality({some[q] : q \in DOMAIN some}) \in Nat
    BY <2>9, FS_CardinalityType
  <2>12. Cardinality(Pending(requests')) <= Cardinality(P)
    BY <1>2, <2>8, <2>9, <2>10, <2>11
  <2> QED
    BY <1>1, <2>5, <2>12, CountFewer DEF P
<1> QED
  BY <1>3, <1>4

-----------------------------------------------------------------------------
(* The invariant, and what follows from it.                                *)

LEMMA InitSynced == Init => SyncInv
<1> SUFFICES ASSUME Init PROVE SyncInv
  OBVIOUS
<1>1. /\ fields = [id \in Ids |->
              IF id > StartFields THEN None
              ELSE [schema |-> Existing, index |-> id, display |-> id = 1]]
      /\ made = StartFields /\ names = SetData(EmptyEntry, SchemaNames(fields))
      /\ lists = [s \in Schemas |-> EmptyEntry] /\ page = SchemaList /\ form = NoForm
      /\ requests = {} /\ sent = 0
  BY DEF Init
<1>2. Existing \in Schemas /\ StartFields \in Nat /\ MaxRequests \in Nat /\ Ids \subseteq Int
  BY SchemaAssumption, FieldsFinite
<1>3. CountOK
  <2>1. Pending({}) = {}
    BY DEF Pending
  <2>2. IsFiniteSet({}) /\ Cardinality({}) = 0
    BY FS_EmptySet
  <2>3. IsFiniteSet(requests) /\ Cardinality(Pending(requests)) = 0
    BY <1>1, <2>1, <2>2
  <2> QED
    BY <1>1, <1>2, <2>3 DEF CountOK
<1> DEFINE home == [id \in Ids |-> Existing]
           h == [k \in Nat |-> fields]
           first(id) == id = 1
<1>4. home \in [Ids -> Schemas] /\ h[0] = fields /\ h = [k \in Nat |-> h[k]]
  BY <1>2
<1>5. RowsOK(fields)
  <2>1. \A id \in Ids : fields[id] = IF id > StartFields THEN None
                        ELSE [schema |-> Existing, index |-> id, display |-> first(id)]
    BY <1>1
  <2>2. \A id : first(id) \in BOOLEAN
    OBVIOUS
  <2> HIDE DEF first
  <2>3. \A id \in Ids : [schema |-> Existing, index |-> id, display |-> first(id)] \in FieldRow
    BY <1>2, <2>2 DEF FieldRow
  <2>4. \A id \in Ids : fields[id] \in FieldRow \cup {None}
    BY <2>1, <2>3
  <2> QED
    BY <1>1, <2>4 DEF RowsOK
<1>6. Homes(home, fields) /\ \A id \in Stored(fields) : id <= made
  <2>1. ASSUME NEW id \in Stored(fields)
        PROVE  fields[id].schema = home[id] /\ id <= made
    <3>1. id \in Ids /\ fields[id] # None
      BY DEF Stored
    <3>2. id \in Int /\ ~(id > StartFields)
      BY <1>1, <1>2, <3>1
    <3>3. fields[id] = [schema |-> Existing, index |-> id, display |-> first(id)]
      BY <1>1, <3>1, <3>2
    <3> HIDE DEF first
    <3>4. fields[id].schema = Existing
      BY <3>3
    <3> QED
      BY <1>1, <1>2, <3>1, <3>2, <3>4
  <2> QED
    BY <2>1 DEF Homes
<1> HIDE DEF home, h
<1>7. Unread = {}
  BY <1>1 DEF Unread
<1>8. CopiesOK(fields, names, lists)
  <2>1. IsEntry(EmptyEntry) /\ EmptyEntry.data = None
    BY DEF EmptyEntry, IsEntry, Idle
  <2> DEFINE v == SchemaNames(fields)
             e == EmptyEntry
  <2> HIDE DEF v, e
  <2>2. IsEntry(e)
    BY <2>1 DEF e
  <2>3. IsEntry(SetData(e, v)) /\ SetData(e, v).data = v
    BY <2>2 DEF IsEntry, SetData
  <2>4. IsEntry(names) /\ names.data = v
    BY <1>1, <2>3 DEF v, e
  <2>5. lists = [s \in Schemas |-> lists[s]] /\ \A s \in Schemas : IsEntry(lists[s])
           /\ lists[s].data = None
    BY <1>1, <2>1
  <2>6. \A s \in Schemas \ v : FieldsOf(fields, s) = {}
    BY DEF v, SchemaNames
  <2> QED
    BY <2>4, <2>5, <2>6 DEF CopiesOK, Tracked
<1>9. AnswersOK(names, lists)
  <2>1. ~HasAnswer(EmptyEntry) /\ ~HasAnswer(names)
    BY <1>1 DEF HasAnswer, EmptyEntry, Idle, SetData
  <2>2. \A s \in Schemas : ~HasAnswer(lists[s])
    BY <1>1, <2>1
  <2> QED
    BY <2>1, <2>2 DEF AnswersOK
<1>10. FormOK(home, made, h[0], lists, form, page)
  BY <1>1, NoFormOK
<1>11. Behind(home, h, 0, 0, made)
  <2>1. \A k \in 0..0 : k = 0
    OBVIOUS
  <2>2. \A k \in 0..0 : RowsOK(h[k]) /\ Homes(home, h[k]) /\ \A id \in Stored(h[k]) : id <= made
    BY <1>4, <1>5, <1>6, <2>1
  <2>3. (0 + 1)..0 = {}
    OBVIOUS
  <2> QED
    BY <1>1, <1>2, <1>4, <1>7, <2>2, <2>3 DEF Behind
<1>12. Synced(home, h, 0, 0)
  BY <1>1, <1>4, <1>7, <1>8, <1>9, <1>10, <1>11 DEF Synced
<1> QED
  BY <1>3, <1>12 DEF SyncInv

LEMMA MishapsStay ==
  ASSUME [Next]_vars
  PROVE  mishaps \subseteq mishaps'
<1>1. CASE UserStep
  <2>1. \A batch : Send(batch) => mishaps \subseteq mishaps'
    BY DEF Send
  <2> QED
    BY <1>1, <2>1 DEF UserStep, Navigate, Edit, AddEntry, EditAdded, RemoveAdded, Import, Save,
       Drag, DeleteEntry, DeleteSchema
<1>2. CASE RequestStep
  BY <1>2 DEF RequestStep, Check, Write, Receive, ReceiveFailure, Lose
<1>3. CASE QueryStep
  BY <1>3 DEF QueryStep, Focus, ServeFetch, ReceiveNames, ReceiveList
<1>4. CASE UNCHANGED vars
  BY <1>4 DEF vars
<1> QED
  BY <1>1, <1>2, <1>3, <1>4 DEF Next

LEMMA StayedSynced ==
  ASSUME UNCHANGED vars, NEW home, NEW h, NEW lo, NEW hi, Synced(home, h, lo, hi)
  PROVE  Synced(home, h, lo, hi)'
<1>1. UNCHANGED <<server, names, requests>> /\ lists' = lists /\ form' = form /\ page' = page
  BY DEF vars, queries
<1>2. SameData(lists, lists') /\ FormOK(home, made, h[lo], lists, form', page')
  BY <1>1, SyncedFacts
<1> QED
  BY <1>1, <1>2, QuietlySynced

LEMMA NextSynced == IInv /\ SyncInv /\ [Next]_vars => SyncInv'
<1> SUFFICES ASSUME IInv, SyncInv, [Next]_vars, Peaceful'
             PROVE  CountOK' /\ \E home, h, lo, hi : Synced(home, h, lo, hi)'
  BY DEF SyncInv
<1>1. CountOK /\ \E home, h, lo, hi : Synced(home, h, lo, hi)
  <2>1. Peaceful
    BY MishapsStay DEF Peaceful
  <2> QED
    BY <2>1 DEF SyncInv
<1>2. PICK home, h, lo, hi : Synced(home, h, lo, hi)
  BY <1>1
<1>3. CASE UserStep
  <2>1. form.shown \in Seq(FieldEntry) /\ form.added \in Seq(BOOLEAN)
    BY <1>2, SyncedFacts DEF FormOK
  <2>2. CountOK'
    BY <1>1, <1>3, <2>1, UserCounts
  <2>3. "astray" \notin mishaps'
    BY DEF Peaceful
  <2>4. Synced(home, h, lo, hi)'
    BY <1>2, <1>3, <2>3, UserStepSynced
  <2> QED
    BY <2>2, <2>4
<1>4. CASE QueryStep
  <2>1. UNCHANGED <<made, sent, requests>>
    BY <1>4 DEF QueryStep, Focus, ServeFetch, ReceiveNames, ReceiveList, server
  <2>2. CountOK'
    BY <1>1, <2>1 DEF CountOK, Pending
  <2>3. Synced(home, h, lo, hi)'
    BY <1>2, <1>4, QueryStepSynced
  <2> QED
    BY <2>2, <2>3
<1>5. ASSUME NEW r \in requests, Check(r) \/ Write(r) \/ Receive(r) \/ ReceiveFailure(r) \/ Lose(r)
      PROVE  CountOK' /\ \E home2, h2, lo2, hi2 : Synced(home2, h2, lo2, hi2)'
  <2>1. CountOK'
    BY <1>1, <1>5, CheckCounts, WriteCounts, AnswersCount
  <2>2. CASE Check(r)
    BY <1>2, <2>1, <2>2, CheckSynced
  <2>3. CASE Write(r)
    BY <1>1, <1>2, <2>1, <2>3, WriteSynced
  <2>4. CASE Receive(r)
    BY <1>2, <2>1, <2>4, ReceiveSynced
  <2>5. CASE ReceiveFailure(r)
    BY <1>2, <2>1, <2>5, FailureSynced
  <2>6. CASE Lose(r)
    BY <2>6 DEF Lose, Peaceful
  <2> QED
    BY <1>5, <2>2, <2>3, <2>4, <2>5, <2>6
<1>6. CASE UNCHANGED vars
  <2>1. UNCHANGED <<made, sent, requests>>
    BY <1>6 DEF vars, server
  <2>2. CountOK'
    BY <1>1, <2>1 DEF CountOK, Pending
  <2>3. Synced(home, h, lo, hi)'
    BY <1>2, <1>6, StayedSynced
  <2> QED
    BY <2>2, <2>3
<1> QED
  BY <1>3, <1>4, <1>5, <1>6 DEF Next, RequestStep

LEMMA SyncHolds == Spec => []SyncInv
<1>1. Init => SyncInv
  BY InitSynced
<1>2. IInv /\ SyncInv /\ [Next]_vars => SyncInv'
  BY NextSynced
<1> QED
  BY <1>1, <1>2, InvariantHolds, PTL DEF Spec

\* When nothing is under way, every answer came in the order of the writes and
\* no field was deleted under another schema's name, each list that schema.ts
\* keeps has exactly the server's fields, with the indexes that its own patches
\* gave them.
THEOREM PatchesKeepUp == Spec => []PatchedListsAgree
<1>1. ASSUME SyncInv, Quiet, mishaps \cap {"disorder", "lost", "astray"} = {},
             NEW s \in Schemas, lists[s].data # None
      PROVE  /\ Len(lists[s].data) = Cardinality(FieldsOf(fields, s))
             /\ Range(lists[s].data) = Range(Answer(fields, s))
  <2>1. PICK home, h, lo, hi : Synced(home, h, lo, hi)
    BY <1>1 DEF SyncInv, Peaceful
  <2>2. Unread = {}
    BY <1>1 DEF Quiet, Unread
  <2>3. h[lo] = fields
    BY <2>1, <2>2, NothingUnread
  <2> DEFINE list == lists[s].data
  <2>4. Mirrors(list, fields, s)
    BY <1>1, <2>1, <2>3 DEF Synced, CopiesOK
  <2>5. RowsOK(fields)
    BY <2>1, StoredFacts
  <2> HIDE DEF list
  <2>6. Mirrors(Answer(fields, s), fields, s)
    BY <2>5, AnswerMirrors
  <2>7. Range(list) = Range(Answer(fields, s))
    BY <2>4, <2>6 DEF Mirrors
  <2>8. Len(list) = Cardinality(FieldsOf(fields, s))
    BY <2>4, MirrorsCount
  <2> QED
    BY <2>7, <2>8 DEF list
<1>2. SyncInv => PatchedListsAgree
  BY <1>1 DEF PatchedListsAgree, ListsAgree
<1> QED
  BY <1>2, SyncHolds, PTL

-----------------------------------------------------------------------------
(* What is on screen.                                                      *)

NothingFailed == mishaps \cap {"disorder", "lost", "refused", "astray"} = {}

\* A field on screen is as it is listed but for its display, and that is still
\* to be sent or on its way.
Covers(f, rs, e, d) ==
    /\ d.id = e.id /\ d.index = e.index
    /\ \/ d.display = e.display
       \/ f.edits[e.id] = e.display
       \/ \E r \in rs : r.op = "update" /\ r.id = e.id /\ r.change.display = e.display

\* The fields of list are those on screen.
Shows(f, rs, list) ==
    /\ \A e \in Range(f.shown) : \E d \in Range(list) : Covers(f, rs, e, d)
    /\ \A d \in Range(list) : \E e \in Range(f.shown) : e.id = d.id

OnScreen(f, rs, ns, ls, p) ==
    p # SchemaList /\ ~IsNew(ns, p) => Shows(f, rs, Listed(ns, ls, p))

\* The server writes the display it was asked to.
AsAsked(r) ==
    /\ r.at # "failed"
    /\ r.at \in {"checked", "done"} /\ r.op = "update" /\ r.change.display # None =>
          r.row.display = r.change.display

ShownInv ==
    NothingFailed =>
        /\ \A r \in requests : AsAsked(r)
        /\ OnScreen(form, requests, names, lists, page)

LEMMA ShowsItself ==
  ASSUME NEW f, NEW rs, NEW list, f.shown = list
  PROVE  Shows(f, rs, list)
BY DEF Shows, Covers

\* More requests, or the same ones further on, leave nothing uncovered.
LEMMA ShowsStill ==
  ASSUME NEW f, NEW rs, NEW list, Shows(f, rs, list), NEW rs2,
         \A r \in rs : r.op = "update" =>
            \E q \in rs2 : q.op = r.op /\ q.id = r.id /\ q.change = r.change
  PROVE  Shows(f, rs2, list)
<1>1. ASSUME NEW e, NEW d, Covers(f, rs, e, d)
      PROVE  Covers(f, rs2, e, d)
  BY <1>1 DEF Covers
<1> QED
  BY <1>1 DEF Shows

LEMMA SameListed ==
  ASSUME NEW ns, NEW ls, NEW ls2, SameData(ls, ls2), NEW s \in Schemas
  PROVE  Listed(ns, ls2, s) = Listed(ns, ls, s)
BY DEF SameData, Listed, Known

\* The copy on screen follows the cache.
LEMMA CachedShown ==
  ASSUME NEW ns, NEW ls, SameData(ls, ls), page \in Schemas \/ page = SchemaList,
         NEW g, DOMAIN g = {"shown", "added", "edits"}, g.shown = form.shown, g.edits = form.edits,
         Cached(g, ns, ls) \/ CachedAndLeft(ns, ls), NEW rs,
         page # SchemaList /\ ~IsNew(names, page) /\ ~IsNew(ns, page)
           /\ Listed(ns, ls, page) = Listed(names, lists, page)
                    => Shows(form, rs, Listed(ns, ls, page))
  PROVE  OnScreen(form', rs, names', lists', page')
<1>1. CASE CachedAndLeft(ns, ls) \/ page = SchemaList
  BY <1>1 DEF CachedAndLeft, Cached, OnScreen
<1>2. CASE Cached(g, ns, ls) /\ page # SchemaList
  <2>1. /\ names' = ns /\ page' = page /\ form' = Rendered(g, page, ns, ls)
        /\ lists' = IF IsNew(names, page) THEN Queried(ls, page, ns) ELSE ls
        /\ page \in Schemas
    BY <1>2 DEF Cached
  <2>2. SameData(ls, lists')
    BY <2>1, QueriedSame
  <2>3. Listed(ns, lists', page) = Listed(ns, ls, page)
    BY <2>1, <2>2, SameListed
  <2> DEFINE list == Listed(ns, ls, page)
             old == Listed(names, lists, page)
             f == Rendered(g, page, ns, ls)
  <2>4. /\ f.edits = form.edits
        /\ ~IsNew(ns, page) => f.shown = IF IsNew(names, page) \/ list # old THEN list
                 ELSE form.shown
    BY DEF Rendered
  <2> HIDE DEF f
  <2>5. ASSUME ~IsNew(ns, page)
        PROVE  Shows(f, rs, list)
    <3>1. CASE f.shown = list
      <4> HIDE DEF list
      <4> QED
        BY <3>1, ShowsItself
    <3>2. CASE f.shown # list
      <4>1. f.shown = form.shown /\ ~IsNew(names, page) /\ list = old
        BY <2>4, <2>5, <3>2
      <4>2. Shows(form, rs, list)
        BY <1>2, <2>5, <4>1
      <4> HIDE DEF list
      <4> QED
        BY <2>4, <4>1, <4>2 DEF Shows, Covers
    <3> QED
      BY <3>1, <3>2
  <2> QED
    BY <2>1, <2>3, <2>5 DEF OnScreen, f
<1> QED
  BY <1>1, <1>2

\* An answer to an update that is the only one to change a display on screen
\* has that display in the list.
LEMMA AnswerShown ==
  ASSUME NEW home, NEW r, NEW a, NEW b, NEW ns, NEW ls, CopiesOK(b, ns, ls), RowsOK(a),
         Wrote(home, r, a, b), r.op = "update", r.row.display = r.change.display,
         NEW s \in Schemas, NEW d \in Range(Listed(ns, ls, s)), d.id = r.id
  PROVE  d.display = r.change.display
<1>1. Listed(ns, ls, s) = ls[s].data /\ ls[s].data # None
  <2>1. Listed(ns, ls, s) # <<>>
    <3>1. Range(<<>>) = {}
      BY EmptyFacts
    <3> QED
      BY <3>1
  <2> QED
    BY <2>1 DEF Listed, Known
<1>2. Mirrors(Listed(ns, ls, s), b, s)
  BY <1>1 DEF CopiesOK
<1>3. d = EntryOf(d.id, b[d.id])
  BY <1>2, MirrorsFacts
<1>4. b = [a EXCEPT ![r.id] = r.row] /\ r.id \in Ids
  BY DEF Wrote
<1>5. b[r.id] = r.row
  BY <1>4 DEF RowsOK
<1> QED
  BY <1>3, <1>5, EntryFacts

\* Steps that leave the lists and the fields on screen, and drop no update.
LEMMA ScreenStays ==
  ASSUME OnScreen(form, requests, names, lists, page), page' = page \/ page' = SchemaList,
         page \in Schemas \/ page = SchemaList, SameData(lists, lists'), names'.data = names.data,
         Range(form'.shown) = Range(form.shown), form'.edits = form.edits \/ page' = SchemaList,
         \A r \in requests : r.op = "update" =>
            \E q \in requests' : q.op = r.op /\ q.id = r.id /\ q.change = r.change
  PROVE  OnScreen(form', requests', names', lists', page')
<1>1. CASE page' = SchemaList
  BY <1>1 DEF OnScreen
<1>2. CASE page' = page /\ page # SchemaList
  <2> DEFINE list == Listed(names, lists, page)
  <2>1. IsNew(names', page) <=> IsNew(names, page)
    BY DEF IsNew
  <2>2. Listed(names', lists', page) = list
    BY <1>2, <2>1 DEF SameData, Listed, Known
  <2> HIDE DEF list
  <2>3. ASSUME Shows(form, requests, list)
        PROVE  Shows(form', requests', list)
    <3>1. Shows(form, requests', list)
      BY <2>3, ShowsStill
    <3>2. form'.edits = form.edits
      BY <1>2
    <3> QED
      BY <3>1, <3>2 DEF Shows, Covers
  <2>4. page # SchemaList /\ ~IsNew(names, page) => Shows(form, requests, list)
    BY DEF OnScreen, list
  <2> QED
    BY <1>2, <2>1, <2>2, <2>3, <2>4 DEF OnScreen
<1> QED
  BY <1>1, <1>2

LEMMA FormFacts ==
  ASSUME NEW home, NEW h, NEW lo, NEW hi, Synced(home, h, lo, hi)
  PROVE  /\ page \in Schemas \/ page = SchemaList
         /\ DOMAIN form = {"shown", "added", "edits"}
         /\ form.shown \in Seq(FieldEntry) /\ Distinct(form.shown)
         /\ form.added \in Seq(BOOLEAN) /\ form.edits \in [Ids -> BOOLEAN \cup {None}]
         /\ SameData(lists, lists) /\ IsEntry(names)
BY SyncedFacts DEF FormOK, CopiesOK

LEMMA NavigateShown ==
  ASSUME NEW home, NEW h, NEW lo, NEW hi, Synced(home, h, lo, hi),
         NEW s \in Schemas \cup {SchemaList}, Navigate(s)
  PROVE  OnScreen(form', requests', names', lists', page')
<1>1. CASE s = SchemaList
  BY <1>1 DEF Navigate, OnScreen
<1>2. CASE s # SchemaList
  <2>1. /\ lists' = Queried(lists, s, names) /\ form' = Opened(form, s, names, lists) /\ page' = s
        /\ names' = names /\ s \in Schemas
    BY <1>2 DEF Navigate
  <2>2. SameData(lists, lists')
    BY <2>1, FormFacts, QueriedSame
  <2>3. Listed(names, lists', s) = Listed(names, lists, s)
    BY <2>1, <2>2, SameListed
  <2>4. ~IsNew(names, s) => form'.shown = Listed(names, lists, s)
    BY <2>1, FormFacts DEF Opened, Cleared
  <2> DEFINE f == form'
             list == Listed(names', lists', page')
  <2>5. ~IsNew(names', page') => f.shown = list
    BY <2>1, <2>3, <2>4
  <2> HIDE DEF f, list
  <2>6. ~IsNew(names', page') => \A rs : Shows(f, rs, list)
    BY <2>5, ShowsItself
  <2> QED
    BY <2>6 DEF OnScreen, f, list
<1> QED
  BY <1>1, <1>2

LEMMA EditShown ==
  ASSUME NEW home, NEW h, NEW lo, NEW hi, Synced(home, h, lo, hi),
         OnScreen(form, requests, names, lists, page), NEW k, Edit(k)
  PROVE  OnScreen(form', requests', names', lists', page')
<1> DEFINE list == form.shown
           es == form.edits
           value == ~list[k].display
           e == [list[k] EXCEPT !.display = value]
           all == Listed(names, lists, page)
<1>1. /\ UNCHANGED <<names, lists, page, requests>> /\ page # SchemaList
      /\ k \in DOMAIN list /\ form' = Changed(form, k, value)
  BY DEF Edit, OnSchema, queries
<1>2. /\ DOMAIN form = {"shown", "added", "edits"} /\ list \in Seq(FieldEntry) /\ Distinct(list)
      /\ es \in [Ids -> BOOLEAN \cup {None}]
  BY FormFacts
<1>3. list[k] \in FieldEntry
  <2> HIDE DEF list
  <2> QED
    BY <1>1, <1>2, SeqFacts
<1>4. /\ form'.shown = [list EXCEPT ![k] = e]
      /\ form'.edits = [es EXCEPT ![list[k].id] = value]
  BY <1>1, <1>2 DEF Changed
<1>5. /\ e.id = list[k].id /\ e.index = list[k].index /\ e.display = value /\ list[k].id \in Ids
  BY <1>3 DEF FieldEntry
<1> HIDE DEF list, e, value, es
<1>6. /\ DOMAIN form'.shown = DOMAIN list /\ form'.shown[k] = e
      /\ \A i \in DOMAIN list : i # k => form'.shown[i] = list[i]
      /\ form'.edits[list[k].id] = value
      /\ \A id : id # list[k].id => form'.edits[id] = es[id]
  BY <1>1, <1>2, <1>4, <1>5
<1>7. ASSUME Shows(form, requests, all)
      PROVE  Shows(form', requests', all)
  <2>1. ASSUME NEW i \in DOMAIN list
        PROVE  \E d \in Range(all) : Covers(form', requests', form'.shown[i], d)
    <3>1. list[i] \in Range(list)
      BY RangeFacts
    <3>2. PICK d \in Range(all) : Covers(form, requests, list[i], d)
      BY <1>7, <3>1 DEF Shows, list
    <3>3. CASE i = k
      BY <1>5, <1>6, <3>2, <3>3 DEF Covers
    <3>4. CASE i # k
      <4>1. list[i].id # list[k].id
        BY <1>1, <1>2, <3>4 DEF Distinct
      <4>2. form'.shown[i] = list[i] /\ form'.edits[list[i].id] = es[list[i].id]
        BY <1>6, <3>4, <4>1
      <4> QED
        BY <1>1, <3>2, <4>2 DEF Covers, es
    <3> QED
      BY <3>3, <3>4
  <2>2. ASSUME NEW x \in Range(form'.shown)
        PROVE  \E d \in Range(all) : Covers(form', requests', x, d)
    <3>1. PICK i \in DOMAIN list : x = form'.shown[i]
      BY <1>6, RangeFacts
    <3> QED
      BY <2>1, <3>1
  <2>3. ASSUME NEW d \in Range(all)
        PROVE  \E x \in Range(form'.shown) : x.id = d.id
    <3>1. PICK x \in Range(list) : x.id = d.id
      BY <1>7 DEF Shows, list
    <3>2. PICK i \in DOMAIN list : x = list[i]
      BY <3>1, RangeFacts
    <3>3. form'.shown[i].id = d.id /\ i \in DOMAIN form'.shown
      BY <1>5, <1>6, <3>1, <3>2
    <3>4. form'.shown[i] \in Range(form'.shown)
      BY <3>3, RangeFacts
    <3> QED
      BY <3>3, <3>4
  <2> QED
    BY <2>2, <2>3 DEF Shows
<1>8. Listed(names', lists', page') = all /\ (IsNew(names', page') <=> IsNew(names, page))
  BY <1>1
<1>9. page # SchemaList /\ ~IsNew(names, page) => Shows(form, requests, all)
  BY DEF OnScreen
<1> HIDE DEF all
<1> QED
  BY <1>1, <1>7, <1>8, <1>9 DEF OnScreen

LEMMA SaveShown ==
  ASSUME NEW home, NEW h, NEW lo, NEW hi, Synced(home, h, lo, hi),
         OnScreen(form, requests, names, lists, page), Save
  PROVE  OnScreen(form', requests', names', lists', page')
<1> DEFINE all == Listed(names, lists, page)
<1>1. /\ UNCHANGED <<names, lists, page>> /\ page # SchemaList
      /\ form' = [form EXCEPT !.edits = NoForm.edits] /\ requests' = requests \cup Saved(form)
  BY DEF Save, Send, OnSchema, queries
<1>2. form.shown \in Seq(FieldEntry) /\ DOMAIN form = {"shown", "added", "edits"}
  BY FormFacts
<1>3. form'.shown = form.shown
  BY <1>1, <1>2
<1>4. ASSUME NEW e \in Range(form.shown), form.edits[e.id] = e.display
      PROVE  \E r \in requests' : r.op = "update" /\ r.id = e.id /\ r.change.display = e.display
  <2> DEFINE list == form.shown
  <2>1. e \in FieldEntry
    <3>1. list \in Seq(FieldEntry) /\ e \in Range(list)
      BY <1>2
    <3> HIDE DEF list
    <3> QED
      BY <3>1, SeqFacts, RangeFacts
  <2>2. e.id \in Ids /\ e.display # None
    BY <2>1, NoneAssumption DEF FieldEntry
  <2>3. e.id \in Edited(form)
    BY <1>4, <2>2 DEF Edited
  <2> DEFINE change == [NoChange EXCEPT !.display = form.edits[e.id]]
             r == Request("update", e.id, 0, change)
  <2>4. r \in Saved(form)
    BY <2>3 DEF Saved
  <2>5. change.display = e.display
    BY <1>4, ChangeFacts
  <2>6. r.op = "update" /\ r.id = e.id /\ r.change = change
    BY DEF Request
  <2> HIDE DEF r, change
  <2> QED
    BY <1>1, <2>4, <2>5, <2>6
<1>5. ASSUME Shows(form, requests, all)
      PROVE  Shows(form', requests', all)
  <2>1. ASSUME NEW e \in Range(form.shown), NEW d, Covers(form, requests, e, d)
        PROVE  Covers(form', requests', e, d)
    BY <1>1, <1>4, <2>1 DEF Covers
  <2> HIDE DEF all
  <2> QED
    BY <1>3, <1>5, <2>1 DEF Shows
<1> HIDE DEF all
<1> QED
  BY <1>1, <1>5 DEF OnScreen, all

LEMMA UserShown ==
  ASSUME NEW home, NEW h, NEW lo, NEW hi, Synced(home, h, lo, hi),
         OnScreen(form, requests, names, lists, page), UserStep
  PROVE  OnScreen(form', requests', names', lists', page')
<1>1. /\ page \in Schemas \/ page = SchemaList
      /\ DOMAIN form = {"shown", "added", "edits"}
      /\ form.shown \in Seq(FieldEntry) /\ Distinct(form.shown) /\ form.added \in Seq(BOOLEAN)
      /\ SameData(lists, lists)
  BY FormFacts
<1>2. ASSUME UNCHANGED queries, page' = page \/ page' = SchemaList, requests \subseteq requests',
             Range(form'.shown) = Range(form.shown), form'.edits = form.edits \/ page' = SchemaList
      PROVE  OnScreen(form', requests', names', lists', page')
  <2>1. SameData(lists, lists') /\ names'.data = names.data
    BY <1>1, <1>2 DEF queries
  <2>2. \A r \in requests : \E q \in requests' : q.op = r.op /\ q.id = r.id /\ q.change = r.change
    BY <1>2
  <2> QED
    BY <1>1, <1>2, <2>1, <2>2, ScreenStays
<1>3. \A batch : Send(batch) => requests \subseteq requests'
  BY DEF Send
<1>4. ASSUME NEW added, form' = [form EXCEPT !.added = added]
      PROVE  Range(form'.shown) = Range(form.shown) /\ form'.edits = form.edits
  BY <1>1, <1>4
<1>5. ASSUME AddEntry \/ \E file : Import(file)
      PROVE  OnScreen(form', requests', names', lists', page')
  BY <1>2, <1>4, <1>5 DEF AddEntry, Import
<1>6. ASSUME NEW k, EditAdded(k) \/ RemoveAdded(k)
      PROVE  OnScreen(form', requests', names', lists', page')
  BY <1>2, <1>4, <1>6 DEF EditAdded, RemoveAdded
<1>7. ASSUME NEW i \in DOMAIN Places(form), NEW j \in DOMAIN Places(form), Drag(i, j)
      PROVE  OnScreen(form', requests', names', lists', page')
  <2> DEFINE order == Moved(Places(form), i, j)
             list == Part(order, TRUE)
             added == Part(order, FALSE)
  <2>1. /\ UNCHANGED <<queries, page>> /\ requests \subseteq requests'
        /\ form' = [form EXCEPT !.shown = list, !.added = added]
    BY <1>3, <1>7 DEF Drag
  <2>2. Range(list) = Range(form.shown)
    BY <1>1, DragFacts
  <2> HIDE DEF list, added
  <2>3. form'.shown = list /\ form'.edits = form.edits
    BY <1>1, <2>1
  <2> QED
    BY <1>2, <2>1, <2>2, <2>3
<1>8. ASSUME NEW k, DeleteEntry(k)
      PROVE  OnScreen(form', requests', names', lists', page')
  <2>1. CASE page' = SchemaList
    BY <2>1 DEF OnScreen
  <2>2. CASE UNCHANGED <<page, form>>
    <3>1. UNCHANGED queries /\ requests \subseteq requests'
      BY <1>3, <1>8 DEF DeleteEntry
    <3> QED
      BY <1>2, <2>2, <3>1
  <2> QED
    BY <1>8, <2>1, <2>2 DEF DeleteEntry
<1>9. ASSUME DeleteSchema
      PROVE  OnScreen(form', requests', names', lists', page')
  <2>1. UNCHANGED <<queries, page, form>> /\ requests \subseteq requests'
    BY <1>3, <1>9 DEF DeleteSchema
  <2> QED
    BY <1>2, <2>1
<1> QED
  BY <1>5, <1>6, <1>7, <1>8, <1>9, NavigateShown, EditShown, SaveShown DEF UserStep

LEMMA SavedAsked ==
  ASSUME NEW r \in Saved(form)
  PROVE  AsAsked(r)
<1>1. r.at = "sent"
  <2>1. ASSUME NEW id \in Edited(form),
               r = Request("update", id, 0, [NoChange EXCEPT !.display = form.edits[id]])
        PROVE  r.at = "sent"
    BY <2>1 DEF Request
  <2>2. ASSUME NEW k \in DOMAIN form.added,
               r = Request("create", None, k, [NoChange EXCEPT !.display = form.added[k]])
        PROVE  r.at = "sent"
    BY <2>2 DEF Request
  <2> QED
    BY <2>1, <2>2 DEF Saved
<1> QED
  BY <1>1 DEF AsAsked

LEMMA DragAsked ==
  ASSUME NEW i, NEW j, Drag(i, j), NEW r \in requests'
  PROVE  r \in requests \/ AsAsked(r)
<1> DEFINE list == Part(Moved(Places(form), i, j), TRUE)
           moved == {k \in 1..Len(list) : list[k].index # k}
           batch == {Request("update", list[k].id, 0, [NoChange EXCEPT !.index = k]) : k \in moved}
<1>1. Send(batch) \/ UNCHANGED requests
  BY DEF Drag
<1>2. r \in requests \/ r \in batch
  <2> HIDE DEF batch
  <2> QED
    BY <1>1 DEF Send
<1>3. ASSUME r \in batch
      PROVE  AsAsked(r)
  <2> HIDE DEF list
  <2>1. PICK k \in moved : r = Request("update", list[k].id, 0, [NoChange EXCEPT !.index = k])
    BY <1>3
  <2>2. r.at = "sent"
    BY <2>1 DEF Request
  <2> QED
    BY <2>2 DEF AsAsked
<1> QED
  BY <1>2, <1>3

LEMMA DeleteAsked ==
  ASSUME NEW k, DeleteEntry(k), NEW r \in requests'
  PROVE  r \in requests \/ AsAsked(r)
<1>1. r \in requests \/ r = Request("delete", form.shown[k].id, 0, NoChange)
  BY DEF DeleteEntry, Send
<1>2. ASSUME r = Request("delete", form.shown[k].id, 0, NoChange)
      PROVE  AsAsked(r)
  <2>1. r.at = "sent"
    BY <1>2 DEF Request
  <2> QED
    BY <2>1 DEF AsAsked
<1> QED
  BY <1>1, <1>2

LEMMA DeletesAsked ==
  ASSUME DeleteSchema, NEW r \in requests'
  PROVE  r \in requests \/ AsAsked(r)
<1>1. r \in requests \/ \E k \in DOMAIN form.shown :
         r = [Request("delete", form.shown[k].id, k, NoChange) EXCEPT !.whole = TRUE]
  BY DEF DeleteSchema, Send
<1>2. ASSUME NEW k, r = [Request("delete", form.shown[k].id, k, NoChange) EXCEPT !.whole = TRUE]
      PROVE  AsAsked(r)
  <2>1. r.at = "sent"
    BY <1>2 DEF Request
  <2> QED
    BY <2>1 DEF AsAsked
<1> QED
  BY <1>1, <1>2

LEMMA UserAsked ==
  ASSUME \A r \in requests : AsAsked(r), UserStep
  PROVE  \A r \in requests' : AsAsked(r)
<1> SUFFICES ASSUME NEW r \in requests'
             PROVE  r \in requests \/ AsAsked(r)
  OBVIOUS
<1>1. CASE Save
  BY <1>1, SavedAsked DEF Save, Send
<1>2. ASSUME NEW k, Navigate(k) \/ Edit(k) \/ AddEntry \/ EditAdded(k) \/ RemoveAdded(k)
         \/ Import(k)
      PROVE  r \in requests
  BY <1>2 DEF Navigate, Edit, AddEntry, EditAdded, RemoveAdded, Import
<1> QED
  BY <1>1, <1>2, DragAsked, DeleteAsked, DeletesAsked DEF UserStep

\* What the server's threads do to the requests.
LEMMA ThreadsShown ==
  ASSUME NEW home, NEW h, NEW lo, NEW hi, Synced(home, h, lo, hi), IInv,
         OnScreen(form, requests, names, lists, page), \A r \in requests : AsAsked(r),
         NEW r \in requests, Check(r) \/ Write(r), NothingFailed'
  PROVE  /\ \A q \in requests' : AsAsked(q)
         /\ OnScreen(form', requests', names', lists', page')
<1>1. /\ IsRequest(r) /\ UNCHANGED <<queries, page, form>>
  BY DEF IInv, RequestsOK, Check, Write
<1>2. \E q : /\ requests' = (requests \ {r}) \cup {q} /\ q.op = r.op /\ q.change = r.change
             /\ q.id = r.id \/ r.op = "create"
             /\ AsAsked(q)
  <2>1. CASE Check(r)
    <3> DEFINE row == IF r.op = "delete" THEN None ELSE Checked(r)
               at == "checked"
               q == [r EXCEPT !.at = at, !.row = row]
    <3>1. ~Refused(r)
      BY <2>1 DEF Check, NothingFailed
    <3>2. requests' = (requests \ {r}) \cup {q}
      BY <2>1, <3>1 DEF Check
    <3>3. r.op = "update" /\ r.change.display # None => row.display = r.change.display
      <4>1. ASSUME r.op = "update", r.change.display # None
            PROVE  row.display = r.change.display
        <5>1. fields[r.id] \in FieldRow
          BY <3>1, <4>1, StoredFacts, RowFacts DEF Refused
        <5>2. row = [fields[r.id] EXCEPT
                        !.index = IF r.change.index = None THEN @ ELSE r.change.index,
                        !.display = r.change.display]
          BY <4>1 DEF Checked
        <5> HIDE DEF row
        <5> QED
          BY <5>1, <5>2 DEF FieldRow
      <4> QED
        BY <4>1
    <3> HIDE DEF row, at
    <3>4. q.op = r.op /\ q.id = r.id /\ q.change = r.change /\ q.at = at /\ q.row = row
      BY <1>1, RequestParts
    <3> HIDE DEF q
    <3>5. AsAsked(q)
      BY <3>3, <3>4 DEF AsAsked, at
    <3> QED
      BY <3>2, <3>4, <3>5
  <2>2. CASE Write(r)
    <3> DEFINE id == IF r.op = "create" THEN made + 1 ELSE r.id
               turn == Max({q.turn : q \in Unread} \cup {0}) + 1
               q == [r EXCEPT !.at = "done", !.id = id, !.turn = turn]
    <3>1. requests' = (requests \ {r}) \cup {q} /\ r.at = "checked"
      BY <2>2 DEF Write
    <3>2. id = r.id \/ r.op = "create"
      OBVIOUS
    <3> HIDE DEF id, turn
    <3>3. q.op = r.op /\ q.id = id /\ q.change = r.change /\ q.row = r.row /\ q.at = "done"
      BY <1>1, DoneParts
    <3> HIDE DEF q
    <3>4. AsAsked(q)
      BY <3>1, <3>3 DEF AsAsked
    <3> QED
      BY <3>1, <3>2, <3>3, <3>4
  <2> QED
    BY <2>1, <2>2
<1>3. PICK q : /\ requests' = (requests \ {r}) \cup {q} /\ q.op = r.op /\ q.change = r.change
               /\ q.id = r.id \/ r.op = "create"
               /\ AsAsked(q)
  BY <1>2
<1>4. \A x \in requests' : AsAsked(x)
  BY <1>3
<1>5. \A x \in requests : x.op = "update" =>
         \E y \in requests' : y.op = x.op /\ y.id = x.id /\ y.change = x.change
  BY <1>3
<1>6. /\ page \in Schemas \/ page = SchemaList
      /\ SameData(lists, lists') /\ names'.data = names.data /\ page' = page
      /\ Range(form'.shown) = Range(form.shown) /\ form'.edits = form.edits
  BY <1>1, FormFacts DEF queries
<1>7. OnScreen(form', requests', names', lists', page')
  BY <1>5, <1>6, ScreenStays
<1> QED
  BY <1>4, <1>7

LEMMA ReceiveShown ==
  ASSUME NEW home, NEW h, NEW lo, NEW hi, Synced(home, h, lo, hi), Peaceful',
         OnScreen(form, requests, names, lists, page), \A r \in requests : AsAsked(r),
         NEW r \in requests, Receive(r)
  PROVE  OnScreen(form', requests', names', lists', page')
<1>a. PICK ls : ls = [lists EXCEPT ![ListOf(r)] = SetData(@, Patched(Known(@), r))]
  OBVIOUS
<1>b. PICK ns : ns = NamesAfter(r, TRUE)
  OBVIOUS
<1>c. PICK a, b : a = h[lo] /\ b = h[lo + 1]
  OBVIOUS
<1>1. /\ r.at = "done" /\ requests' = requests \ {r}
      /\ Cached(form, ns, ls) \/ CachedAndLeft(ns, ls)
  BY <1>a, <1>b DEF Receive
<1>2. Reads(home, lo, hi, r, a, b, ns, ls)
  BY <1>a, <1>b, <1>c, ReceiveCopied
<1>3. Wrote(home, r, a, b) /\ CopiesOK(b, ns, ls) /\ RowsOK(a)
  BY <1>2, <1>c, SyncedFacts DEF Reads, Copied
<1>4. SameData(ls, ls)
  BY <1>3, ReflexiveSame
<1>5. /\ page \in Schemas \/ page = SchemaList
      /\ DOMAIN form = {"shown", "added", "edits"} /\ form.shown \in Seq(FieldEntry)
  BY FormFacts
<1> DEFINE all == Listed(ns, ls, page)
           rs == requests \ {r}
<1>6. ASSUME page # SchemaList, ~IsNew(names, page), all = Listed(names, lists, page)
      PROVE  Shows(form, rs, all)
  <2>1. Shows(form, requests, all)
    BY <1>6 DEF OnScreen
  <2>2. ASSUME NEW e \in Range(form.shown), NEW d \in Range(all), Covers(form, requests, e, d)
        PROVE  Covers(form, rs, e, d)
    <3>1. CASE r.op = "update" /\ r.id = e.id /\ r.change.display = e.display
      <4> DEFINE list == form.shown
      <4>1. e \in FieldEntry
        <5>1. list \in Seq(FieldEntry) /\ e \in Range(list)
          BY <1>5
        <5> HIDE DEF list
        <5> QED
          BY <5>1, SeqFacts, RangeFacts
      <4>2. r.change.display # None
        BY <3>1, <4>1, NoneAssumption DEF FieldEntry
      <4>3. r.row.display = r.change.display
        BY <1>1, <3>1, <4>2 DEF AsAsked
      <4>4. d.id = r.id /\ page \in Schemas
        BY <1>5, <1>6, <2>2, <3>1 DEF Covers
      <4>5. d.display = r.change.display
        BY <1>3, <3>1, <4>3, <4>4, AnswerShown
      <4> QED
        BY <2>2, <3>1, <4>5 DEF Covers
    <3>2. CASE ~(r.op = "update" /\ r.id = e.id /\ r.change.display = e.display)
      BY <2>2, <3>2 DEF Covers
    <3> QED
      BY <3>1, <3>2
  <2> HIDE DEF all, rs
  <2> QED
    BY <2>1, <2>2 DEF Shows
<1>7. OnScreen(form', rs, names', lists', page')
  <2> HIDE DEF rs
  <2> QED
    BY <1>1, <1>4, <1>5, <1>6, CachedShown
<1> QED
  BY <1>1, <1>7

LEMMA QueryShown ==
  ASSUME NEW home, NEW h, NEW lo, NEW hi, Synced(home, h, lo, hi),
         OnScreen(form, requests, names, lists, page), QueryStep
  PROVE  OnScreen(form', requests', names', lists', page')
<1>1. /\ page \in Schemas \/ page = SchemaList
      /\ DOMAIN form = {"shown", "added", "edits"} /\ form.shown \in Seq(FieldEntry)
      /\ SameData(lists, lists) /\ IsEntry(names)
      /\ \A s \in Schemas : IsEntry(lists[s])
  BY FormFacts DEF SameData
<1>2. requests' = requests
  BY DEF QueryStep, Focus, ServeFetch, ReceiveNames, ReceiveList
<1>3. ASSUME UNCHANGED <<page, form>>, names'.data = names.data,
             \A s \in Schemas : lists'[s].data = lists[s].data
      PROVE  OnScreen(form', requests', names', lists', page')
  <2>1. CASE page = SchemaList
    BY <1>3, <2>1 DEF OnScreen
  <2>2. CASE page # SchemaList
    <3>1. IsNew(names', page) <=> IsNew(names, page)
      BY <1>3 DEF IsNew
    <3>2. Listed(names', lists', page) = Listed(names, lists, page)
      BY <1>1, <1>3, <2>2, <3>1 DEF Listed, Known
    <3> QED
      BY <1>2, <1>3, <3>1, <3>2 DEF OnScreen
  <2> QED
    BY <2>1, <2>2
<1>4. ASSUME NEW ns, NEW ls, SameData(ls, ls), NEW g, DOMAIN g = {"shown", "added", "edits"},
             g.shown = form.shown, g.edits = form.edits, Cached(g, ns, ls)
      PROVE  OnScreen(form', requests', names', lists', page')
  <2> DEFINE all == Listed(ns, ls, page)
  <2>1. page # SchemaList /\ ~IsNew(names, page) /\ ~IsNew(ns, page)
           /\ all = Listed(names, lists, page) => Shows(form, requests, all)
    BY DEF OnScreen
  <2>2. OnScreen(form', requests, names', lists', page')
    BY <1>1, <1>4, <2>1, CachedShown
  <2> QED
    BY <1>2, <2>2
<1>5. \A q : Ask(q).data = q.data
  BY DEF Ask
<1>6. CASE Focus
  <2>1. UNCHANGED <<page, form>>
    BY <1>6 DEF Focus
  <2>2. CASE names' = Ask([names EXCEPT !.stale = TRUE]) /\ lists' = lists
    <3>1. names'.data = names.data
      BY <1>1, <2>2, CacheFacts
    <3> QED
      BY <1>3, <2>1, <2>2, <3>1
  <2>3. CASE page # SchemaList /\ lists' = [lists EXCEPT ![page] = Ask([@ EXCEPT !.stale = TRUE])]
           /\ names' = names
    <3> DEFINE q == lists[page]
               old == [q EXCEPT !.stale = TRUE]
    <3>1. lists' = [lists EXCEPT ![page] = Ask(old)] /\ page \in Schemas /\ IsEntry(q)
      BY <1>1, <2>3
    <3> HIDE DEF q
    <3>2. IsEntry(old) /\ old.data = q.data
      BY <3>1, CacheFacts
    <3> HIDE DEF old
    <3>3. Ask(old).data = q.data
      BY <3>2, CacheFacts
    <3>4. \A s \in Schemas : lists'[s].data = lists[s].data
      BY <1>1, <3>1, <3>3 DEF q, SameData
    <3> QED
      BY <1>3, <2>1, <2>3, <3>4
  <2> QED
    BY <1>6, <2>2, <2>3 DEF Focus, OnSchema
<1>7. CASE ServeFetch
  <2>1. UNCHANGED <<page, form>>
    BY <1>7 DEF ServeFetch
  <2>2. ASSUME NEW v, names' = [names EXCEPT !.fetch = v], lists' = lists
        PROVE  OnScreen(form', requests', names', lists', page')
    <3>1. names'.data = names.data
      BY <1>1, <2>2 DEF IsEntry
    <3> QED
      BY <1>3, <2>1, <2>2, <3>1
  <2>3. ASSUME NEW s \in Schemas, NEW v, lists' = [lists EXCEPT ![s].fetch = v], names' = names
        PROVE  OnScreen(form', requests', names', lists', page')
    <3>1. \A t \in Schemas : lists'[t].data = lists[t].data
      BY <1>1, <2>3 DEF IsEntry, SameData
    <3> QED
      BY <1>3, <2>1, <2>3, <3>1
  <2> QED
    BY <1>7, <2>2, <2>3 DEF ServeFetch
<1>8. CASE ReceiveNames
  <2> DEFINE ns == Arrived(names)
  <2>1. PICK f \in {form, Cleared(form, page, ns)} : Cached(f, ns, lists)
    BY <1>8 DEF ReceiveNames
  <2> HIDE DEF ns
  <2>2. DOMAIN f = {"shown", "added", "edits"} /\ f.shown = form.shown /\ f.edits = form.edits
    BY <1>1 DEF Cleared
  <2> QED
    BY <1>1, <1>4, <2>1, <2>2
<1>9. ASSUME NEW s \in Schemas, ReceiveList(s)
      PROVE  OnScreen(form', requests', names', lists', page')
  <2> DEFINE q == lists[s]
             new == IF q.fetch.value = <<>> THEN Failed(q, "gone") ELSE Arrived(q)
             ls == [lists EXCEPT ![s] = new]
  <2>1. Cached(form, names, ls)
    BY <1>9 DEF ReceiveList
  <2>2. IsEntry(new)
    <3>1. IsEntry(q)
      BY <1>1
    <3> HIDE DEF q
    <3> QED
      BY <3>1, CacheFacts
  <2> HIDE DEF new
  <2>3. /\ ls = [t \in Schemas |-> ls[t]] /\ \A t \in Schemas : IsEntry(ls[t])
    BY <1>1, <2>2 DEF SameData
  <2> HIDE DEF ls
  <2>4. SameData(ls, ls)
    BY <2>3 DEF SameData
  <2> QED
    BY <1>1, <1>4, <2>1, <2>4
<1> QED
  BY <1>6, <1>7, <1>8, <1>9 DEF QueryStep

LEMMA InitShown ==
  ASSUME Init
  PROVE  ShownInv
BY DEF Init, ShownInv, OnScreen

\* What went wrong stays so.
LEMMA FailuresStay ==
  ASSUME [Next]_vars, NothingFailed'
  PROVE  NothingFailed
<1>1. mishaps \subseteq mishaps'
  BY MishapsStay
<1> QED
  BY <1>1 DEF NothingFailed

LEMMA NextShown ==
  ASSUME IInv, SyncInv, ShownInv, [Next]_vars
  PROVE  ShownInv'
<1> SUFFICES ASSUME NothingFailed'
             PROVE  /\ \A r \in requests' : AsAsked(r)
                    /\ OnScreen(form', requests', names', lists', page')
  BY DEF ShownInv
<1>1. NothingFailed
  BY FailuresStay
<1>2. Peaceful /\ Peaceful'
  BY <1>1 DEF NothingFailed, Peaceful
<1>3. /\ \A r \in requests : AsAsked(r)
      /\ OnScreen(form, requests, names, lists, page)
  BY <1>1 DEF ShownInv
<1>4. PICK home, h, lo, hi : Synced(home, h, lo, hi)
  BY <1>2 DEF SyncInv
<1>5. CASE UserStep
  BY <1>3, <1>4, <1>5, UserShown, UserAsked
<1>6. ASSUME NEW r \in requests, Check(r) \/ Write(r)
      PROVE  /\ \A q \in requests' : AsAsked(q)
             /\ OnScreen(form', requests', names', lists', page')
  BY <1>3, <1>4, <1>6, ThreadsShown
<1>7. ASSUME NEW r \in requests, Receive(r)
      PROVE  /\ \A q \in requests' : AsAsked(q)
             /\ OnScreen(form', requests', names', lists', page')
  <2>1. requests' \subseteq requests
    BY <1>7 DEF Receive
  <2>2. OnScreen(form', requests', names', lists', page')
    BY <1>2, <1>3, <1>4, <1>7, ReceiveShown
  <2> QED
    BY <1>3, <2>1, <2>2
<1>8. ASSUME NEW r \in requests, ReceiveFailure(r) \/ Lose(r)
      PROVE  FALSE
  <2>1. ~ReceiveFailure(r)
    BY <1>3 DEF ReceiveFailure, AsAsked
  <2>2. ~Lose(r)
    BY DEF Lose, NothingFailed
  <2> QED
    BY <1>8, <2>1, <2>2
<1>9. CASE QueryStep
  <2>1. requests' = requests
    BY <1>9 DEF QueryStep, Focus, ServeFetch, ReceiveNames, ReceiveList
  <2>2. OnScreen(form', requests', names', lists', page')
    BY <1>3, <1>4, <1>9, QueryShown
  <2> QED
    BY <1>3, <2>1, <2>2
<1>10. CASE UNCHANGED vars
  BY <1>3, <1>10 DEF vars, server, queries
<1> QED
  BY <1>5, <1>6, <1>7, <1>8, <1>9, <1>10 DEF Next, RequestStep

LEMMA ShownHolds == Spec => []ShownInv
<1>1. Init => ShownInv
  BY InitShown
<1>2. IInv /\ SyncInv /\ ShownInv /\ [Next]_vars => ShownInv'
  BY NextShown
<1> QED
  BY <1>1, <1>2, InvariantHolds, SyncHolds, PTL DEF Spec

\* Whatever SchemaComponent shows of a field is what the server has or waits in
\* the edits of the next save, when nothing is under way, nothing failed and no
\* field was deleted under another schema's name.
THEOREM ScreenIsStored == Spec => []ShownIsStoredOrPending
<1>1. ASSUME IInv, SyncInv, ShownInv, Quiet, mishaps \cap {"disorder", "lost", "refused", "astray"} = {},
             OnSchema, ~IsNew(names, page),
             NEW e \in Range(form.shown), form.edits[e.id] # e.display
      PROVE  e \in Range(Answer(fields, page))
  <2>1. PICK home, h, lo, hi : Synced(home, h, lo, hi)
    BY <1>1 DEF SyncInv, Peaceful
  <2>2. requests = {} /\ Unread = {}
    BY <1>1 DEF Quiet, Unread
  <2>3. h[lo] = fields
    BY <2>1, <2>2, NothingUnread
  <2>4. /\ page \in Schemas \/ page = SchemaList
        /\ form.shown \in Seq(FieldEntry)
    BY <2>1, FormFacts
  <2>5. page \in Schemas
    BY <1>1, <2>4 DEF OnSchema
  <2> DEFINE list == Listed(names, lists, page)
  <2>6. PICK d \in Range(list) : Covers(form, requests, e, d)
    BY <1>1, <2>2 DEF ShownInv, NothingFailed, OnScreen, OnSchema, Shows
  <2>7. d.id = e.id /\ d.index = e.index /\ d.display = e.display
    BY <1>1, <2>2, <2>6 DEF Covers
  <2>8. list = lists[page].data /\ lists[page].data # None
    <3>1. list # <<>>
      <4>1. Range(<<>>) = {}
        BY EmptyFacts
      <4> QED
        BY <4>1, <2>6
    <3> QED
      BY <3>1 DEF Listed, Known
  <2>9. Mirrors(list, fields, page)
    BY <2>1, <2>3, <2>5, <2>8 DEF Synced, CopiesOK
  <2>10. RowsOK(fields)
    BY <2>1, StoredFacts
  <2> HIDE DEF list
  <2>11. Mirrors(Answer(fields, page), fields, page)
    BY <2>5, <2>10, AnswerMirrors
  <2>12. Range(list) = Range(Answer(fields, page))
    BY <2>9, <2>11 DEF Mirrors
  <2>13. e \in FieldEntry
    <3> DEFINE shown == form.shown
    <3>1. shown \in Seq(FieldEntry) /\ e \in Range(shown)
      BY <1>1, <2>4
    <3> HIDE DEF shown
    <3> QED
      BY <3>1, SeqFacts, RangeFacts
  <2>14. d \in FieldEntry
    <3>1. list \in Seq(FieldEntry) /\ d \in Range(list)
      BY <2>6, <2>9 DEF Mirrors
    <3> QED
      BY <3>1, SeqFacts, RangeFacts
  <2>15. d = e
    BY <2>7, <2>13, <2>14 DEF FieldEntry
  <2> QED
    BY <2>6, <2>12, <2>15
<1>2. IInv /\ SyncInv /\ ShownInv => ShownIsStoredOrPending
  BY <1>1 DEF ShownIsStoredOrPending
<1> QED
  BY <1>2, InvariantHolds, SyncHolds, ShownHolds, PTL

-----------------------------------------------------------------------------
(* The names of the schemas, while the user waits for the answers.         *)

Orderly == mishaps \cap {"disorder", "lost", "refused", "hurry", "astray"} = {}

\* rs were sent together when K was listed.
Together(K, rs) ==
    /\ \A r \in rs : r.known = K /\ ~r.spoiled
    /\ \A r, q \in rs : r.batch = q.batch

\* A save or a drag on P; known is what the page lists by now.
Puts(K, P, rs, fs, known) ==
    /\ \A r \in rs : r.op # "delete" /\ (r.op = "create" => r.schema = P)
    /\ \A r \in rs : r.op = "update" /\ r.at = "checked" => r.id \in Stored(fs)
    /\ \A r \in rs : r.op = "create" /\ r.at = "done" => P \in SchemaNames(fs)
    /\ K \subseteq SchemaNames(fs) /\ SchemaNames(fs) \subseteq K \cup {P}
    /\ P \in K \/ (\A r \in rs : r.op # "create") => known = SchemaNames(fs)

\* The deletes of all that P has.
Empties(K, P, rs, fs) ==
    /\ \A r \in rs : r.op = "delete" /\ r.schema = P /\ (r.last \/ r.whole)
    /\ SchemaNames(fs) \cup {P} = K \cup {P}
    /\ \A id \in FieldsOf(fs, P) : \E r \in rs : r.id = id /\ r.at \in {"sent", "checked"}

\* The delete of one field that leaves another.
Thins(P, rs, fs, known) ==
    /\ \A r \in rs : r.op = "delete" /\ r.schema = P /\ ~r.last /\ ~r.whole
    /\ known = SchemaNames(fs)
    /\ \A r, q \in rs : r = q
    /\ \A r \in rs : r.at \in {"sent", "checked"} /\ r.id \in FieldsOf(fs, P) =>
          \E id \in FieldsOf(fs, P) : id # r.id

Works(K, P, rs, fs, known) ==
    Puts(K, P, rs, fs, known) \/ Empties(K, P, rs, fs) \/ Thins(P, rs, fs, known)

NamesOK(rs, fs, known) ==
    /\ rs = {} => known = SchemaNames(fs)
    /\ rs # {} => \E K, P : Together(K, rs) /\ Works(K, P, rs, fs, known)

NamesInv == Orderly => NamesOK(requests, fields, names.data)

\* The server's list of names does no harm at any time.
LEMMA NamesAnswered ==
  ASSUME NEW rs, NEW fs, NEW known, NamesOK(rs, fs, known),
         NEW known2, known2 = known \/ known2 = SchemaNames(fs)
  PROVE  NamesOK(rs, fs, known2)
<1>1. ASSUME NEW K, NEW P, Works(K, P, rs, fs, known)
      PROVE  Works(K, P, rs, fs, known2)
  BY <1>1 DEF Works, Puts, Empties, Thins
<1> QED
  BY <1>1 DEF NamesOK

\* The same request, further on.
Follows(q, r) ==
    /\ q.op = r.op /\ q.schema = r.schema /\ q.known = r.known /\ q.batch = r.batch
    /\ q.last = r.last /\ q.whole = r.whole /\ q.spoiled = r.spoiled

LEMMA TogetherFollows ==
  ASSUME NEW K, NEW rs, Together(K, rs), NEW r \in rs, NEW q, Follows(q, r)
  PROVE  Together(K, (rs \ {r}) \cup {q})
BY DEF Together, Follows

LEMMA CheckNames ==
  ASSUME NEW rs, NEW fs, NEW known, NamesOK(rs, fs, known),
         NEW r \in rs, NEW q, Follows(q, r), q.id = r.id, r.at = "sent", q.at = "checked",
         r.op = "update" => r.id \in Stored(fs)
  PROVE  NamesOK((rs \ {r}) \cup {q}, fs, known)
<1> DEFINE rs2 == (rs \ {r}) \cup {q}
<1>1. PICK K, P : Together(K, rs) /\ Works(K, P, rs, fs, known)
  BY DEF NamesOK
<1>2. Together(K, rs2)
  BY <1>1, TogetherFollows
<1>3. ASSUME Puts(K, P, rs, fs, known)
      PROVE  Works(K, P, rs2, fs, known)
  <2>1. \A x \in rs2 : x.op # "delete" /\ (x.op = "create" => x.schema = P)
    BY <1>3 DEF Puts, Follows
  <2>2. /\ \A x \in rs2 : x.op = "update" /\ x.at = "checked" => x.id \in Stored(fs)
        /\ \A x \in rs2 : x.op = "create" /\ x.at = "done" => P \in SchemaNames(fs)
    BY <1>3 DEF Puts, Follows
  <2>3. (\A x \in rs2 : x.op # "create") => (\A x \in rs : x.op # "create")
    BY DEF Follows
  <2> HIDE DEF rs2
  <2> QED
    BY <1>3, <2>1, <2>2, <2>3 DEF Puts, Works
<1>4. ASSUME Empties(K, P, rs, fs)
      PROVE  Works(K, P, rs2, fs, known)
  <2>1. \A x \in rs2 : x.op = "delete" /\ x.schema = P /\ (x.last \/ x.whole)
    BY <1>4 DEF Empties, Follows
  <2>2. \A x \in rs : x.at \in {"sent", "checked"} =>
           \E y \in rs2 : y.id = x.id /\ y.at \in {"sent", "checked"}
    OBVIOUS
  <2> HIDE DEF rs2
  <2> QED
    BY <1>4, <2>1, <2>2 DEF Empties, Works
<1>5. ASSUME Thins(P, rs, fs, known)
      PROVE  Works(K, P, rs2, fs, known)
  <2>1. rs = {r} /\ rs2 = {q}
    BY <1>5 DEF Thins
  <2> HIDE DEF rs2
  <2> QED
    BY <1>5, <2>1 DEF Thins, Works, Follows
<1>6. Works(K, P, rs2, fs, known)
  BY <1>1, <1>3, <1>4, <1>5 DEF Works
<1> QED
  BY <1>2, <1>6 DEF NamesOK

\* What a write does to the names.
Adds(a, b, s) == SchemaNames(b) = SchemaNames(a) \cup {s} /\ Stored(a) \subseteq Stored(b)
Keeps(a, b) == SchemaNames(b) = SchemaNames(a) /\ Stored(a) \subseteq Stored(b)
Takes(a, b, id) == \A s : FieldsOf(b, s) = FieldsOf(a, s) \ {id}

LEMMA CreateNames ==
  ASSUME NEW a, NEW b, NEW id \in Ids, RowsOK(a), id \notin Stored(a), NEW row \in FieldRow,
         b = [a EXCEPT ![id] = row], NEW s, s = row.schema
  PROVE  Adds(a, b, s)
<1>1. a = [k \in Ids |-> a[k]] /\ row # None /\ row.schema \in Schemas
  BY NoneAssumption DEF RowsOK, FieldRow
<1>2. \A k \in Ids : b[k] = IF k = id THEN row ELSE a[k]
  BY <1>1
<1>3. \A x : FieldsOf(b, x) = FieldsOf(a, x) \cup (IF x = row.schema THEN {id} ELSE {})
  BY <1>1, <1>2 DEF FieldsOf, Stored
<1>4. Stored(a) \subseteq Stored(b)
  BY <1>1, <1>2 DEF Stored
<1> QED
  BY <1>1, <1>3, <1>4 DEF SchemaNames, Adds

LEMMA UpdateNames ==
  ASSUME NEW a, NEW b, NEW id, RowsOK(a), id \in Stored(a), NEW row \in FieldRow,
         b = [a EXCEPT ![id] = row], row.schema = a[id].schema
  PROVE  Keeps(a, b)
<1>1. a = [k \in Ids |-> a[k]] /\ row # None /\ id \in Ids
  BY NoneAssumption DEF RowsOK, FieldRow, Stored
<1>2. \A k \in Ids : b[k] = IF k = id THEN row ELSE a[k]
  BY <1>1
<1>3. \A s : FieldsOf(b, s) = FieldsOf(a, s)
  BY <1>1, <1>2 DEF FieldsOf, Stored
<1>4. Stored(a) \subseteq Stored(b)
  BY <1>1, <1>2 DEF Stored
<1> QED
  BY <1>3, <1>4 DEF SchemaNames, Keeps

LEMMA DeleteNames ==
  ASSUME NEW a, NEW b, NEW id, RowsOK(a), b = IF id \in Stored(a) THEN WithoutField(a, id) ELSE a
  PROVE  Takes(a, b, id)
<1>1. CASE id \in Stored(a)
  <2>1. /\ \A k \in Ids : k # id => /\ k \in Stored(b) <=> k \in Stored(a)
                                    /\ k \in Stored(a) => b[k].schema = a[k].schema
        /\ id \notin Stored(b)
    BY <1>1, WithoutFieldRows
  <2>2. \A k \in Stored(a) \cup Stored(b) : k \in Ids
    BY DEF Stored
  <2> QED
    BY <2>1, <2>2 DEF FieldsOf, Takes
<1>2. CASE id \notin Stored(a)
  BY <1>2 DEF FieldsOf, Takes
<1> QED
  BY <1>1, <1>2

\* A thread writes what was asked.
LEMMA WriteNames ==
  ASSUME NEW home, NEW rs, NEW a, NEW b, NEW known, NamesOK(rs, a, known), RowsOK(a),
           Homes(home, a),
         NEW r \in rs, r.at = "checked",
         NEW q, Follows(q, r), q.at = "done", q.id = r.id \/ r.op = "create",
         r.op \in {"create", "update", "delete"},
         r.op = "create" => Adds(a, b, r.schema),
         r.op = "update" /\ r.id \in Stored(a) => Keeps(a, b),
         r.op = "delete" => Takes(a, b, r.id) /\ r.schema = home[r.id]
  PROVE  NamesOK((rs \ {r}) \cup {q}, b, known)
<1> DEFINE rs2 == (rs \ {r}) \cup {q}
<1>1. PICK K, P : Together(K, rs) /\ Works(K, P, rs, a, known)
  BY DEF NamesOK
<1>2. Together(K, rs2)
  BY <1>1, TogetherFollows
<1>3. ASSUME Puts(K, P, rs, a, known)
      PROVE  Puts(K, P, rs2, b, known)
  <2>1. \A x \in rs2 : x.op # "delete" /\ (x.op = "create" => x.schema = P)
    BY <1>3 DEF Puts, Follows
  <2>2. r.op = "create" \/ (r.op = "update" /\ r.id \in Stored(a))
    BY <1>3 DEF Puts
  <2>3. /\ Stored(a) \subseteq Stored(b)
        /\ SchemaNames(b) = SchemaNames(a) \cup (IF r.op = "create" THEN {P} ELSE {})
    BY <1>3, <2>2 DEF Puts, Adds, Keeps
  <2>4. /\ \A x \in rs2 : x.op = "update" /\ x.at = "checked" => x.id \in Stored(b)
        /\ \A x \in rs2 : x.op = "create" /\ x.at = "done" => P \in SchemaNames(b)
    BY <1>3, <2>3 DEF Puts, Follows
  <2>5. (\A x \in rs2 : x.op # "create") => (\A x \in rs : x.op # "create")
    BY DEF Follows
  <2>6. P \in K \/ (\A x \in rs : x.op # "create") => SchemaNames(b) = SchemaNames(a)
    <3>1. P \in K => P \in SchemaNames(a)
      BY <1>3 DEF Puts
    <3> QED
      BY <2>3, <3>1
  <2> HIDE DEF rs2
  <2>7. P \in K \/ (\A x \in rs2 : x.op # "create") => known = SchemaNames(b)
    BY <1>3, <2>5, <2>6 DEF Puts
  <2>8. K \subseteq SchemaNames(b) /\ SchemaNames(b) \subseteq K \cup {P}
    BY <1>3, <2>3 DEF Puts
  <2> QED
    BY <2>1, <2>4, <2>7, <2>8 DEF Puts
<1>4. ASSUME r.op = "delete", r.schema = P
      PROVE  /\ \A s : s # P => FieldsOf(b, s) = FieldsOf(a, s)
             /\ FieldsOf(b, P) = FieldsOf(a, P) \ {r.id}
             /\ SchemaNames(b) \cup {P} = SchemaNames(a) \cup {P}
  <2>1. \A s : s # P => r.id \notin FieldsOf(a, s)
    BY <1>4 DEF Homes, FieldsOf
  <2>2. \A s : s # P => FieldsOf(b, s) = FieldsOf(a, s)
    BY <1>4, <2>1 DEF Takes
  <2>3. SchemaNames(b) \cup {P} = SchemaNames(a) \cup {P}
    BY <2>2 DEF SchemaNames
  <2> QED
    BY <1>4, <2>2, <2>3 DEF Takes
<1>5. ASSUME Empties(K, P, rs, a)
      PROVE  Empties(K, P, rs2, b)
  <2>1. \A x \in rs2 : x.op = "delete" /\ x.schema = P /\ (x.last \/ x.whole)
    BY <1>5 DEF Empties, Follows
  <2>2. r.op = "delete" /\ r.schema = P
    BY <1>5 DEF Empties
  <2>3. \A id \in FieldsOf(b, P) : \E x \in rs2 : x.id = id /\ x.at \in {"sent", "checked"}
    <3>1. ASSUME NEW id \in FieldsOf(b, P)
          PROVE  \E x \in rs2 : x.id = id /\ x.at \in {"sent", "checked"}
      <4>1. id \in FieldsOf(a, P) /\ id # r.id
        BY <1>4, <2>2, <3>1
      <4>2. PICK x \in rs : x.id = id /\ x.at \in {"sent", "checked"}
        BY <1>5, <4>1 DEF Empties
      <4> QED
        BY <4>1, <4>2
    <3> QED
      BY <3>1
  <2>4. SchemaNames(b) \cup {P} = K \cup {P}
    BY <1>4, <1>5, <2>2 DEF Empties
  <2> HIDE DEF rs2
  <2> QED
    BY <2>1, <2>3, <2>4 DEF Empties
<1>6. ASSUME Thins(P, rs, a, known)
      PROVE  Thins(P, rs2, b, known)
  <2>1. rs2 = {q} /\ r.op = "delete" /\ r.schema = P
    BY <1>6 DEF Thins
  <2>2. FieldsOf(b, P) # {} <=> FieldsOf(a, P) # {}
    BY <1>4, <1>6, <2>1 DEF Thins
  <2>3. SchemaNames(b) = SchemaNames(a)
    BY <1>4, <2>1, <2>2 DEF SchemaNames
  <2>4. q.op = "delete" /\ q.schema = P /\ ~q.last /\ ~q.whole /\ q.at = "done"
    BY <1>6, <2>1 DEF Thins, Follows
  <2>5. known = SchemaNames(b)
    BY <1>6, <2>3 DEF Thins
  <2> HIDE DEF rs2
  <2> QED
    BY <2>1, <2>4, <2>5 DEF Thins
<1>7. Works(K, P, rs2, b, known)
  BY <1>1, <1>3, <1>5, <1>6 DEF Works
<1> QED
  BY <1>2, <1>7 DEF NamesOK

\* The promise of r, of those in rs.
Told(r, rs, known) ==
    LET ends == ~\E q \in rs \ {r} : q.batch = r.batch /\ q.op = r.op
    IN  IF r.op = "create" /\ ends /\ r.schema \notin r.known THEN r.known \cup {r.schema}
        ELSE IF r.op = "delete" /\ (r.last \/ (r.whole /\ ~r.spoiled /\ ends))
                 THEN r.known \ {r.schema}
        ELSE known

\* The page reads an answer.
LEMMA AnswerNames ==
  ASSUME NEW rs, NEW fs, NEW known, NamesOK(rs, fs, known),
         NEW r \in rs, r.at = "done"
  PROVE  NamesOK(rs \ {r}, fs, Told(r, rs, known))
<1> DEFINE rs2 == rs \ {r}
           told == Told(r, rs, known)
           ends == ~\E q \in rs \ {r} : q.batch = r.batch /\ q.op = r.op
<1>1. PICK K, P : Together(K, rs) /\ Works(K, P, rs, fs, known)
  BY DEF NamesOK
<1>2. Together(K, rs2) /\ r.known = K /\ ~r.spoiled
  BY <1>1 DEF Together
<1>3. ends <=> \A q \in rs2 : q.op # r.op
  BY <1>1 DEF Together
<1>4. told = IF r.op = "create" /\ ends /\ r.schema \notin K THEN K \cup {r.schema}
             ELSE IF r.op = "delete" /\ (r.last \/ (r.whole /\ ends)) THEN K \ {r.schema}
             ELSE known
  BY <1>2 DEF Told
<1> HIDE DEF told, ends
<1>5. ASSUME Puts(K, P, rs, fs, known)
      PROVE  Puts(K, P, rs2, fs, told) /\ (rs2 = {} => told = SchemaNames(fs))
  <2>1. P \in K \/ (\A x \in rs2 : x.op # "create") => told = SchemaNames(fs)
    <3>1. CASE r.op = "create" /\ P \notin K
      <4>1. P \in SchemaNames(fs) /\ r.schema = P
        BY <1>5, <3>1 DEF Puts
      <4>2. SchemaNames(fs) = K \cup {P}
        BY <1>5, <4>1 DEF Puts
      <4>3. ASSUME \A x \in rs2 : x.op # "create"
            PROVE  told = K \cup {P}
        BY <1>3, <1>4, <3>1, <4>1, <4>3
      <4> QED
        BY <3>1, <4>2, <4>3
    <3>2. CASE r.op = "create" /\ P \in K
      <4>1. known = SchemaNames(fs) /\ r.schema = P
        BY <1>5, <3>2 DEF Puts
      <4>2. told = known
        BY <1>4, <3>2, <4>1
      <4> QED
        BY <4>1, <4>2
    <3>3. CASE r.op # "create"
      <4>1. r.op # "delete"
        BY <1>5 DEF Puts
      <4>2. told = known
        BY <1>4, <3>3, <4>1
      <4>3. (\A x \in rs2 : x.op # "create") => (\A x \in rs : x.op # "create")
        BY <3>3
      <4> QED
        BY <1>5, <4>2, <4>3 DEF Puts
    <3> QED
      BY <3>1, <3>2, <3>3
  <2>2. \A x \in rs2 : x \in rs
    OBVIOUS
  <2>3. rs2 = {} => \A x \in rs2 : x.op # "create"
    OBVIOUS
  <2> HIDE DEF rs2
  <2> QED
    BY <1>5, <2>1, <2>2, <2>3 DEF Puts
<1>6. ASSUME Empties(K, P, rs, fs)
      PROVE  Empties(K, P, rs2, fs) /\ (rs2 = {} => told = SchemaNames(fs))
  <2>1. \A id \in FieldsOf(fs, P) : \E x \in rs2 : x.id = id /\ x.at \in {"sent", "checked"}
    BY <1>6 DEF Empties
  <2>2. ASSUME rs2 = {}
        PROVE  told = SchemaNames(fs)
    <3>1. FieldsOf(fs, P) = {}
      BY <2>1, <2>2
    <3>2. SchemaNames(fs) = K \ {P}
      BY <1>6, <3>1 DEF Empties, SchemaNames
    <3>3. ends /\ r.op = "delete" /\ r.schema = P /\ (r.last \/ r.whole)
      BY <1>3, <1>6, <2>2 DEF Empties
    <3> QED
      BY <1>4, <3>2, <3>3
  <2>3. \A x \in rs2 : x \in rs
    OBVIOUS
  <2> HIDE DEF rs2
  <2> QED
    BY <1>6, <2>1, <2>2, <2>3 DEF Empties
<1>7. ASSUME Thins(P, rs, fs, known)
      PROVE  rs2 = {} /\ told = SchemaNames(fs)
  <2>1. rs2 = {}
    BY <1>7 DEF Thins
  <2>2. r.op = "delete" /\ ~r.last /\ ~r.whole
    BY <1>7 DEF Thins
  <2>3. told = known
    BY <1>4, <2>2
  <2> QED
    BY <1>7, <2>1, <2>3 DEF Thins
<1> HIDE DEF rs2
<1>8. \/ Puts(K, P, rs2, fs, told) /\ (rs2 = {} => told = SchemaNames(fs))
      \/ Empties(K, P, rs2, fs) /\ (rs2 = {} => told = SchemaNames(fs))
      \/ rs2 = {} /\ told = SchemaNames(fs)
  BY <1>1, <1>5, <1>6, <1>7 DEF Works
<1> QED
  BY <1>2, <1>8 DEF NamesOK, Works, rs2, told

\* What the page has just sent.
Fresh(r) ==
    /\ r.known = names.data /\ ~r.spoiled /\ r.batch = sent + 1
    /\ r.at = "sent" /\ r.schema = page

\* The user waits, and what is sent begins where the names are right.
LEMMA SentNames ==
  ASSUME NamesOK(requests, fields, names.data), NEW batch, Send(batch), Orderly', 
         \A r \in batch : Fresh(r),
         names.data = SchemaNames(fields) =>
            \/ \A r \in batch : r.op # "delete"
            \/ Empties(names.data, page, batch, fields)
            \/ Thins(page, batch, fields, names.data)
  PROVE  NamesOK(requests', fields, names.data)
<1>1. requests = {}
  BY DEF Send, Orderly
<1>2. requests' = batch /\ batch # {} /\ names.data = SchemaNames(fields)
  BY <1>1 DEF Send, NamesOK
<1>3. Together(names.data, batch)
  BY DEF Together, Fresh
<1>4. ASSUME \A r \in batch : r.op # "delete"
      PROVE  Puts(names.data, page, batch, fields, names.data)
  BY <1>2, <1>4 DEF Puts, Fresh
<1>5. Works(names.data, page, batch, fields, names.data)
  BY <1>2, <1>4 DEF Works
<1> QED
  BY <1>2, <1>3, <1>5 DEF NamesOK

LEMMA SaveNames ==
  ASSUME NamesOK(requests, fields, names.data), Orderly', Save
  PROVE  NamesOK(requests', fields, names.data)
<1>1. \A r \in Saved(form) : Fresh(r) /\ r.op # "delete"
  <2>1. ASSUME NEW r, NEW id \in Edited(form),
               r = Request("update", id, 0, [NoChange EXCEPT !.display = form.edits[id]])
        PROVE  Fresh(r) /\ r.op # "delete"
    BY <2>1 DEF Request, Fresh
  <2>2. ASSUME NEW r, NEW k \in DOMAIN form.added,
               r = Request("create", None, k, [NoChange EXCEPT !.display = form.added[k]])
        PROVE  Fresh(r) /\ r.op # "delete"
    BY <2>2 DEF Request, Fresh
  <2> QED
    BY <2>1, <2>2 DEF Saved
<1>2. Send(Saved(form))
  BY DEF Save
<1> QED
  BY <1>1, <1>2, SentNames

LEMMA DragNames ==
  ASSUME NamesOK(requests, fields, names.data), Orderly', NEW i, NEW j, Drag(i, j)
  PROVE  NamesOK(requests', fields, names.data)
<1> DEFINE list == Part(Moved(Places(form), i, j), TRUE)
           moved == {k \in 1..Len(list) : list[k].index # k}
           batch == {Request("update", list[k].id, 0, [NoChange EXCEPT !.index = k]) : k \in moved}
<1>1. Send(batch) \/ UNCHANGED requests
  BY DEF Drag
<1>2. \A r \in batch : Fresh(r) /\ r.op # "delete"
  <2> HIDE DEF list, moved
  <2>1. ASSUME NEW r, NEW k \in moved,
               r = Request("update", list[k].id, 0, [NoChange EXCEPT !.index = k])
        PROVE  Fresh(r) /\ r.op # "delete"
    BY <2>1 DEF Request, Fresh
  <2> QED
    BY <2>1
<1> HIDE DEF batch
<1> QED
  BY <1>1, <1>2, SentNames

\* A schema with something on screen has the fields that are listed.
LEMMA ListedMirrors ==
  ASSUME NEW home, NEW h, NEW lo, NEW hi, Synced(home, h, lo, hi), requests = {},
         page \in Schemas, OnScreen(form, requests, names, lists, page), page # SchemaList,
         ~IsNew(names, page), NEW e \in Range(form.shown)
  PROVE  /\ Mirrors(Listed(names, lists, page), fields, page)
         /\ \E d \in Range(Listed(names, lists, page)) : d.id = e.id
         /\ \A id \in FieldsOf(fields, page) : \E x \in Range(form.shown) : x.id = id
<1> DEFINE list == Listed(names, lists, page)
<1>1. Shows(form, requests, list)
  BY DEF OnScreen
<1>2. \E d \in Range(list) : d.id = e.id
  BY <1>1 DEF Shows, Covers
<1>3. list = lists[page].data /\ lists[page].data # None
  <2>1. list # <<>>
    <3>1. Range(<<>>) = {}
      BY EmptyFacts
    <3> QED
      BY <1>2, <3>1
  <2> QED
    BY <2>1 DEF Listed, Known
<1>4. h[lo] = fields
  <2>1. Unread = {}
    BY DEF Unread
  <2> QED
    BY <2>1, NothingUnread
<1>5. Mirrors(list, fields, page)
  BY <1>3, <1>4, SyncedFacts DEF CopiesOK
<1>6. \A id \in FieldsOf(fields, page) : \E x \in Range(form.shown) : x.id = id
  <2>1. \A id \in FieldsOf(fields, page) : EntryOf(id, fields[id]) \in Range(list)
    BY <1>5, MirrorsFacts
  <2> QED
    BY <1>1, <2>1, EntryFacts DEF Shows
<1> QED
  BY <1>2, <1>5, <1>6

LEMMA DeleteEntryNames ==
  ASSUME NEW home, NEW h, NEW lo, NEW hi, Synced(home, h, lo, hi),
         OnScreen(form, requests, names, lists, page),
         NamesOK(requests, fields, names.data), Orderly', NEW k, DeleteEntry(k)
  PROVE  NamesOK(requests', fields, names.data)
<1> DEFINE list == Listed(names, lists, page)
           e == form.shown[k]
           F == FieldsOf(fields, page)
<1>a. PICK r : r = Request("delete", form.shown[k].id, 0, NoChange)
  OBVIOUS
<1>1. /\ Fresh(r) /\ r.op = "delete" /\ r.id = e.id /\ ~r.whole
      /\ r.last <=> Len(list) = 1
  BY <1>a DEF Request, Fresh
<1>2. Send({r}) /\ page # SchemaList /\ page \in Schemas /\ e \in Range(form.shown)
  BY <1>a, FormFacts, RangeFacts DEF DeleteEntry, OnSchema
<1>3. requests = {}
  BY <1>2 DEF Send, Orderly
<1>4. ASSUME ~IsNew(names, page)
      PROVE  Mirrors(list, fields, page) /\ \E d \in Range(list) : d.id = e.id
  BY <1>2, <1>3, <1>4, ListedMirrors
<1>5. ASSUME r.last
      PROVE  \A id \in F : id = r.id
  <2>1. ~IsNew(names, page)
    <3>1. list # <<>>
      <4>1. Len(list) = 1
        BY <1>1, <1>5
      <4> HIDE DEF list
      <4> QED
        BY <4>1
    <3> QED
      BY <3>1 DEF Listed
  <2>2. Mirrors(list, fields, page) /\ \E d \in Range(list) : d.id = e.id
    BY <1>4, <2>1
  <2>3. Len(list) = 1 /\ list \in Seq(FieldEntry)
    BY <1>1, <1>5, <2>2, MirrorsFacts
  <2> HIDE DEF list
  <2>4. \A x \in Range(list) : x = list[1]
    <3>1. DOMAIN list = {1}
      BY <2>3, SeqFacts
    <3> QED
      BY <3>1, RangeFacts
  <2>5. \A id \in F : EntryOf(id, fields[id]) \in Range(list)
    BY <2>2, MirrorsFacts
  <2> QED
    BY <1>1, <2>2, <2>4, <2>5, EntryFacts
<1>6. ASSUME ~r.last, names.data = SchemaNames(fields), r.id \in F
      PROVE  \E id \in F : id # r.id
  <2>1. ~IsNew(names, page)
    BY <1>2, <1>6 DEF IsNew, SchemaNames
  <2>2. Mirrors(list, fields, page) /\ \E d \in Range(list) : d.id = e.id
    BY <1>4, <2>1
  <2>3. Len(list) # 1 /\ list \in Seq(FieldEntry) /\ Distinct(list)
    BY <1>1, <1>6, <2>2, MirrorsFacts
  <2> DEFINE n == Len(list)
  <2> HIDE DEF list
  <2>4. DOMAIN list = 1..n /\ n \in Nat /\ n # 1
    BY <2>3, SeqFacts
  <2>5. DOMAIN list # {}
    BY <2>2, RangeFacts
  <2> HIDE DEF n
  <2>6. 1 \in DOMAIN list /\ 2 \in DOMAIN list
    BY <2>4, <2>5
  <2>7. list[1].id # list[2].id
    BY <2>3, <2>6 DEF Distinct
  <2>8. list[1].id \in F /\ list[2].id \in F
    BY <2>2, <2>6, MirrorsFacts, RangeFacts
  <2> QED
    BY <2>7, <2>8
<1>7. ASSUME names.data = SchemaNames(fields)
      PROVE  Empties(names.data, page, {r}, fields) \/ Thins(page, {r}, fields, names.data)
  <2>1. CASE r.last
    BY <1>1, <1>5, <1>7, <2>1 DEF Empties, Fresh
  <2>2. CASE ~r.last
    BY <1>1, <1>6, <1>7, <2>2 DEF Thins, Fresh
  <2> QED
    BY <2>1, <2>2
<1>8. \A q \in {r} : Fresh(q)
  BY <1>1
<1> QED
  BY <1>2, <1>7, <1>8, SentNames

LEMMA DeleteSchemaNames ==
  ASSUME NEW home, NEW h, NEW lo, NEW hi, Synced(home, h, lo, hi),
         OnScreen(form, requests, names, lists, page),
         NamesOK(requests, fields, names.data), Orderly', DeleteSchema
  PROVE  NamesOK(requests', fields, names.data)
<1> DEFINE D == DOMAIN form.shown
           batch == {[Request("delete", form.shown[k].id, k,
                    NoChange) EXCEPT !.whole = TRUE] : k \in D}
<1>1. /\ Send(batch) /\ page # SchemaList /\ ~IsNew(names, page) /\ form.shown # <<>>
      /\ page \in Schemas
  BY FormFacts DEF DeleteSchema, OnSchema
<1>2. requests = {}
  BY <1>1 DEF Send, Orderly
<1>3. ASSUME NEW r, NEW k \in D,
             r = [Request("delete", form.shown[k].id, k, NoChange) EXCEPT !.whole = TRUE]
      PROVE  Fresh(r) /\ r.op = "delete" /\ r.id = form.shown[k].id /\ r.whole
  BY <1>3 DEF Request, Fresh
<1>4. \A r \in batch : Fresh(r) /\ r.op = "delete" /\ r.whole
  BY <1>3
<1>5. PICK e : e \in Range(form.shown)
  <2> DEFINE list == form.shown
  <2>1. list \in Seq(FieldEntry) /\ list # <<>>
    BY <1>1, FormFacts
  <2> HIDE DEF list
  <2>2. 1 \in DOMAIN list
    BY <2>1
  <2>3. list[1] \in Range(list)
    BY <2>2, RangeFacts
  <2> QED
    BY <2>3 DEF list
<1>6. \A id \in FieldsOf(fields, page) : \E x \in Range(form.shown) : x.id = id
  BY <1>1, <1>2, <1>5, ListedMirrors
<1>7. \A id \in FieldsOf(fields, page) : \E r \in batch : r.id = id /\ r.at \in {"sent", "checked"}
  <2>1. ASSUME NEW id \in FieldsOf(fields, page)
        PROVE  \E r \in batch : r.id = id /\ r.at \in {"sent", "checked"}
    <3>1. PICK k \in D : form.shown[k].id = id
      BY <1>6, <2>1, RangeFacts
    <3>2. PICK r : r = [Request("delete", form.shown[k].id, k, NoChange) EXCEPT !.whole = TRUE]
      OBVIOUS
    <3>3. r \in batch
      BY <3>2
    <3>4. r.id = id /\ r.at = "sent"
      BY <1>3, <3>1, <3>2 DEF Fresh
    <3> QED
      BY <3>3, <3>4
  <2> QED
    BY <2>1
<1> HIDE DEF batch
<1>8. ASSUME names.data = SchemaNames(fields)
      PROVE  Empties(names.data, page, batch, fields)
  BY <1>4, <1>7, <1>8 DEF Empties, Fresh
<1> QED
  BY <1>1, <1>4, <1>8, SentNames

LEMMA UserNames ==
  ASSUME NEW home, NEW h, NEW lo, NEW hi, Synced(home, h, lo, hi),
         OnScreen(form, requests, names, lists, page),
         NamesOK(requests, fields, names.data), Orderly', UserStep
  PROVE  NamesOK(requests', fields', names'.data)
<1>1. fields' = fields /\ names' = names
  BY DEF UserStep, Navigate, Edit, DeleteEntry, AddEntry, EditAdded, RemoveAdded, Import,
     Save, Drag,
         DeleteSchema, server, queries
<1>2. ASSUME NEW k, Navigate(k) \/ Edit(k) \/ AddEntry \/ EditAdded(k) \/ RemoveAdded(k)
         \/ Import(k)
      PROVE  requests' = requests
  BY <1>2 DEF Navigate, Edit, AddEntry, EditAdded, RemoveAdded, Import
<1>3. NamesOK(requests', fields, names.data)
  BY <1>2, SaveNames, DragNames, DeleteEntryNames, DeleteSchemaNames DEF UserStep
<1> QED
  BY <1>1, <1>3

LEMMA FollowsParts ==
  ASSUME NEW r, IsRequest(r)
  PROVE  /\ \A at, row : Follows([r EXCEPT !.at = at, !.row = row], r)
         /\ \A at, id, turn : Follows([r EXCEPT !.at = at, !.id = id, !.turn = turn], r)
<1>1. ASSUME NEW at, NEW row
      PROVE  Follows([r EXCEPT !.at = at, !.row = row], r)
  BY DEF Follows
<1>2. ASSUME NEW at, NEW id, NEW turn
      PROVE  Follows([r EXCEPT !.at = at, !.id = id, !.turn = turn], r)
  BY DEF Follows
<1> QED
  BY <1>1, <1>2

LEMMA ThreadNames ==
  ASSUME NEW home, NEW h, NEW lo, NEW hi, Synced(home, h, lo, hi), CountOK, IInv,
         NamesOK(requests, fields, names.data), Orderly',
         NEW r \in requests, Check(r) \/ Write(r)
  PROVE  NamesOK(requests', fields', names'.data)
<1>1. /\ IsRequest(r) /\ r.op \in {"create", "update", "delete"} /\ names' = names
  BY DEF IInv, RequestsOK, IsRequest, Check, Write, queries
<1>2. CASE Check(r)
  <2> DEFINE row == IF r.op = "delete" THEN None ELSE Checked(r)
             at == "checked"
             q == [r EXCEPT !.at = at, !.row = row]
  <2>1. ~Refused(r)
    BY <1>2 DEF Check, Orderly
  <2>2. requests' = (requests \ {r}) \cup {q} /\ r.at = "sent" /\ fields' = fields
    BY <1>2, <2>1 DEF Check, server
  <2>3. r.op = "update" => r.id \in Stored(fields)
    BY <2>1 DEF Refused
  <2> HIDE DEF row, at
  <2>4. Follows(q, r)
    BY <1>1, FollowsParts
  <2>5. q.id = r.id /\ q.at = at
    BY <1>1, RequestParts
  <2> HIDE DEF q
  <2>6. q.at = "checked"
    BY <2>5 DEF at
  <2>7. NamesOK((requests \ {r}) \cup {q}, fields, names.data)
    BY <2>2, <2>3, <2>4, <2>5, <2>6, CheckNames
  <2> QED
    BY <1>1, <2>2, <2>7
<1>3. CASE Write(r)
  <2> DEFINE id == IF r.op = "create" THEN made + 1 ELSE r.id
             turn == Max({q.turn : q \in Unread} \cup {0}) + 1
             q == [r EXCEPT !.at = "done", !.id = id, !.turn = turn]
  <2>a. PICK new : new = fields'
    OBVIOUS
  <2>1. /\ requests' = (requests \ {r}) \cup {q} /\ r.at = "checked"
        /\ new = CASE r.op # "delete" -> [fields EXCEPT ![id] = r.row]
                   [] r.op = "delete" /\ id \in Stored(fields) -> WithoutField(fields, id)
                   [] OTHER -> fields
    BY <1>3, <2>a DEF Write
  <2>2. id = r.id \/ r.op = "create"
    OBVIOUS
  <2>3. Aimed(home, made, h[lo], lists, r)
    BY <2>1, StoredFacts DEF RequestOK
  <2>4. /\ made \in Nat /\ Ids \subseteq Int
        /\ RowsOK(fields) /\ Homes(home, fields) /\ \A k \in Stored(fields) : k <= made
    BY SyncedFacts, StoredFacts, FieldsFinite
  <2>5. ASSUME r.op = "create"
        PROVE  Adds(fields, new, r.schema)
    <3>1. id = made + 1 /\ id \in Ids
      BY <2>1, <2>5, IdLeft
    <3>2. id \notin Stored(fields)
      BY <2>4, <3>1
    <3>a. PICK row, s, i : row = r.row /\ s = r.schema /\ i = id
      OBVIOUS
    <3>3. row \in FieldRow /\ s = row.schema
      BY <3>a, <2>1, <2>3, <2>5 DEF Aimed
    <3>4. new = [fields EXCEPT ![i] = row]
      BY <2>1, <2>5, <3>a
    <3>5. i \in Ids /\ i \notin Stored(fields)
      BY <3>1, <3>2, <3>a
    <3>6. Adds(fields, new, s)
      BY <2>4, <3>3, <3>4, <3>5, CreateNames
    <3> QED
      BY <3>a, <3>6
  <2>6. ASSUME r.op = "update", r.id \in Stored(fields)
        PROVE  Keeps(fields, new)
    <3>a. PICK row, i : row = r.row /\ i = r.id
      OBVIOUS
    <3>1. new = [fields EXCEPT ![i] = row]
      BY <2>1, <2>6, <3>a
    <3>2. row \in FieldRow /\ row.schema = home[i]
      BY <2>1, <2>3, <2>6, <3>a DEF Aimed
    <3>3. fields[i].schema = home[i] /\ i \in Stored(fields)
      BY <2>4, <2>6, <3>a DEF Homes
    <3> QED
      BY <2>4, <3>1, <3>2, <3>3, UpdateNames
  <2>7. ASSUME r.op = "delete"
        PROVE  Takes(fields, new, r.id) /\ r.schema = home[r.id]
    <3>1. new = IF r.id \in Stored(fields) THEN WithoutField(fields, r.id) ELSE fields
      BY <2>1, <2>7
    <3>2. Takes(fields, new, r.id)
      BY <2>4, <3>1, DeleteNames
    <3> QED
      BY <2>3, <2>7, <3>2 DEF Aimed
  <2> HIDE DEF id, turn
  <2>8. Follows(q, r)
    <3> DEFINE at == "done"
    <3> HIDE DEF at
    <3>1. Follows([r EXCEPT !.at = at, !.id = id, !.turn = turn], r)
      BY <1>1, FollowsParts
    <3> QED
      BY <3>1 DEF at
  <2>9. q.at = "done" /\ q.id = id
    BY <1>1, DoneParts
  <2> HIDE DEF q
  <2>10. q.id = r.id \/ r.op = "create"
    BY <2>2, <2>9
  <2>11. NamesOK((requests \ {r}) \cup {q}, new, names.data)
    BY <1>1, <2>1, <2>4, <2>5, <2>6, <2>7, <2>8, <2>9, <2>10, WriteNames
  <2> QED
    BY <1>1, <2>a, <2>1, <2>11
<1> QED
  BY <1>2, <1>3

LEMMA ReadNames ==
  ASSUME NEW home, NEW h, NEW lo, NEW hi, Synced(home, h, lo, hi),
         NamesOK(requests, fields, names.data), NEW r \in requests, Receive(r)
  PROVE  NamesOK(requests', fields', names'.data)
<1>1. /\ r.at = "done" /\ requests' = requests \ {r} /\ fields' = fields
      /\ names' = NamesAfter(r, TRUE)
  BY DEF Receive, Cached, CachedAndLeft, server
<1>2. IsEntry(names)
  BY FormFacts
<1>3. \A v : SetData(names, v).data = v
  BY <1>2 DEF IsEntry, SetData
<1>4. NamesAfter(r, TRUE).data = Told(r, requests, names.data)
  BY <1>3 DEF NamesAfter, Told, EndsBatch
<1>5. NamesOK(requests \ {r}, fields, Told(r, requests, names.data))
  BY <1>1, AnswerNames
<1> QED
  BY <1>1, <1>4, <1>5

LEMMA QueryNames ==
  ASSUME NEW home, NEW h, NEW lo, NEW hi, Synced(home, h, lo, hi),
         NamesOK(requests, fields, names.data), QueryStep
  PROVE  NamesOK(requests', fields', names'.data)
<1>1. requests' = requests /\ fields' = fields
  BY DEF QueryStep, Focus, ServeFetch, ReceiveNames, ReceiveList, server
<1>2. IsEntry(names) /\ (HasAnswer(names) => names.fetch.value = SchemaNames(fields))
  BY FormFacts DEF Synced, AnswersOK
<1>3. CASE Focus
  <2>1. CASE names' = names
    BY <1>1, <2>1
  <2>2. CASE names' = Ask([names EXCEPT !.stale = TRUE])
    <3>1. names'.data = names.data
      BY <1>2, <2>2, CacheFacts
    <3> QED
      BY <1>1, <3>1
  <2> QED
    BY <1>3, <2>1, <2>2 DEF Focus
<1>4. CASE ServeFetch
  <2>1. CASE names' = names
    BY <1>1, <2>1
  <2>2. CASE names' = [names EXCEPT !.fetch = Answered(SchemaNames(fields))]
    <3>1. names'.data = names.data
      BY <1>2, <2>2 DEF IsEntry
    <3> QED
      BY <1>1, <3>1
  <2> QED
    BY <1>4, <2>1, <2>2 DEF ServeFetch
<1>5. CASE ReceiveNames
  <2>1. names' = Arrived(names) /\ HasAnswer(names)
    BY <1>5 DEF ReceiveNames, Cached
  <2>2. names'.data = SchemaNames(fields)
    BY <1>2, <2>1, CacheFacts
  <2> QED
    BY <1>1, <2>2, NamesAnswered
<1>6. ASSUME NEW s \in Schemas, ReceiveList(s)
      PROVE  NamesOK(requests', fields', names'.data)
  <2>1. names' = names
    BY <1>6 DEF ReceiveList, Cached
  <2> QED
    BY <1>1, <2>1
<1> QED
  BY <1>3, <1>4, <1>5, <1>6 DEF QueryStep

LEMMA InitNames ==
  ASSUME Init
  PROVE  NamesInv
<1>1. names.data = SchemaNames(fields) /\ requests = {}
  BY DEF Init, SetData, EmptyEntry
<1> QED
  BY <1>1 DEF NamesInv, NamesOK

LEMMA NextNames ==
  ASSUME IInv, SyncInv, ShownInv, NamesInv, [Next]_vars
  PROVE  NamesInv'
<1> SUFFICES ASSUME Orderly'
             PROVE  NamesOK(requests', fields', names'.data)
  BY DEF NamesInv
<1>1. mishaps \subseteq mishaps'
  BY MishapsStay
<1>2. Orderly /\ NothingFailed /\ Peaceful
  BY <1>1 DEF Orderly, NothingFailed, Peaceful
<1>3. /\ \A r \in requests : AsAsked(r)
      /\ OnScreen(form, requests, names, lists, page)
      /\ NamesOK(requests, fields, names.data)
  BY <1>2 DEF ShownInv, NamesInv
<1>4. CountOK
  BY <1>2 DEF SyncInv
<1>5. PICK home, h, lo, hi : Synced(home, h, lo, hi)
  BY <1>2 DEF SyncInv
<1>6. CASE UserStep
  BY <1>3, <1>5, <1>6, UserNames
<1>7. ASSUME NEW r \in requests, Check(r) \/ Write(r)
      PROVE  NamesOK(requests', fields', names'.data)
  BY <1>3, <1>4, <1>5, <1>7, ThreadNames
<1>8. ASSUME NEW r \in requests, Receive(r)
      PROVE  NamesOK(requests', fields', names'.data)
  BY <1>3, <1>5, <1>8, ReadNames
<1>9. ASSUME NEW r \in requests, ReceiveFailure(r) \/ Lose(r)
      PROVE  FALSE
  <2>1. ~ReceiveFailure(r)
    BY <1>3 DEF ReceiveFailure, AsAsked
  <2>2. ~Lose(r)
    BY DEF Lose, Orderly
  <2> QED
    BY <1>9, <2>1, <2>2
<1>10. CASE QueryStep
  BY <1>3, <1>5, <1>10, QueryNames
<1>11. CASE UNCHANGED vars
  BY <1>3, <1>11 DEF vars, server, queries
<1> QED
  BY <1>6, <1>7, <1>8, <1>9, <1>10, <1>11 DEF Next, RequestStep

LEMMA NamesHold == Spec => []NamesInv
<1>1. Init => NamesInv
  BY InitNames
<1>2. IInv /\ SyncInv /\ ShownInv /\ NamesInv /\ [Next]_vars => NamesInv'
  BY NextNames
<1> QED
  BY <1>1, <1>2, InvariantHolds, SyncHolds, ShownHolds, PTL DEF Spec

\* A schema is listed while it has fields, when the user waits for each answer,
\* none is a failure and no field was deleted under another schema's name: the
\* promises of addSchemaData, deleteSchemaData and the dialog write just the
\* names that the server would answer.
THEOREM NamesAreOfFields == Spec => []NamesFollowTheFields
<1>1. NamesInv => NamesFollowTheFields
  BY DEF NamesInv, NamesFollowTheFields, Orderly, NamesOK, Quiet
<1> QED
  BY <1>1, NamesHold, PTL

-----------------------------------------------------------------------------
(* Types.                                                                  *)

\* An entry of the query cache, and what a fetch has brought for it.
Holds(q, D) == q \in Entries(D) /\ (HasAnswer(q) => q.fetch.value \in D)

CacheTyped(ns, ls) ==
    /\ Holds(ns, SUBSET Schemas) /\ ns.data \in SUBSET Schemas
    /\ ls = [s \in Schemas |-> ls[s]] /\ \A s \in Schemas : Holds(ls[s], Seq(Entry))

FormTyped(f, p) ==
    /\ f \in FormType /\ p \in Schemas \cup {SchemaList}
    /\ p = SchemaList => f = NoForm

RequestTyped(r) ==
    /\ r \in RequestType
    /\ r.op # "create" \/ r.at = "done" => r.id \in Ids
    /\ r.op = "create" => r.change.display \in BOOLEAN
    /\ r.at \in {"checked", "done"} /\ r.op # "delete" => r.row \in Row

FieldsTyped == fields \in [Ids -> Row \cup {None}] /\ made \in Ids

TypeInv ==
    /\ FieldsTyped /\ CacheTyped(names, lists) /\ FormTyped(form, page)
    /\ \A r \in requests : RequestTyped(r)
    /\ CountOK

\* A value of the right kind written over an entry, or brought for it.
LEMMA HoldsValue ==
  ASSUME NEW D, NEW q, Holds(q, D), NEW v, v \in D
  PROVE  /\ Holds(SetData(q, v), D) /\ SetData(q, v).data = v
         /\ Holds([q EXCEPT !.fetch = Answered(v)], D)
         /\ [q EXCEPT !.fetch = Answered(v)].data = q.data
<1>1. q \in Entries(D)
  BY DEF Holds
<1>2. SetData(q, v) \in Entries(D) /\ SetData(q, v).fetch = q.fetch /\ SetData(q, v).data = v
  BY <1>1 DEF SetData, Entries
<1>3. Holds(SetData(q, v), D)
  BY <1>2 DEF Holds, HasAnswer
<1>4. /\ Holds([q EXCEPT !.fetch = Answered(v)], D)
      /\ [q EXCEPT !.fetch = Answered(v)].data = q.data
  BY <1>1 DEF Holds, Entries, Answered
<1> QED
  BY <1>2, <1>3, <1>4

LEMMA NamesFacts ==
  ASSUME NEW q, Holds(q, SUBSET Schemas), NEW v \in SUBSET Schemas
  PROVE  /\ Holds(SetData(q, v), SUBSET Schemas) /\ SetData(q, v).data = v
         /\ Holds([q EXCEPT !.fetch = Answered(v)], SUBSET Schemas)
         /\ [q EXCEPT !.fetch = Answered(v)].data = q.data
<1> DEFINE D == SUBSET Schemas
<1>1. Holds(q, D) /\ v \in D
  OBVIOUS
<1> HIDE DEF D
<1>2. /\ Holds(SetData(q, v), D) /\ SetData(q, v).data = v
      /\ Holds([q EXCEPT !.fetch = Answered(v)], D)
      /\ [q EXCEPT !.fetch = Answered(v)].data = q.data
  BY <1>1, HoldsValue
<1> QED
  BY <1>2 DEF D

LEMMA HoldsFacts ==
  ASSUME NEW D, NEW q, Holds(q, D)
  PROVE  /\ q.data \in D \cup {None}
         /\ Holds(Ask(q), D) /\ Ask(q).data = q.data
         /\ \A v \in D : Holds(SetData(q, v), D) /\ SetData(q, v).data = v
         /\ HasAnswer(q) => Holds(Arrived(q), D) /\ Arrived(q).data \in D
         /\ Holds(Failed(q, "gone"), D)
         /\ Holds([q EXCEPT !.stale = TRUE], D) /\ [q EXCEPT !.stale = TRUE].data = q.data
         /\ \A v \in D : /\ Holds([q EXCEPT !.fetch = Answered(v)], D)
                         /\ [q EXCEPT !.fetch = Answered(v)].data = q.data
<1>1. q \in Entries(D) /\ IsEntry(q)
  BY DEF Holds, Entries, IsEntry
<1>2. q.data \in D \cup {None}
  BY <1>1 DEF Entries
<1>3. Holds(Ask(q), D) /\ Ask(q).data = q.data
  <2>1. Ask(q) \in Entries(D)
    BY <1>1 DEF Ask, Entries, Idle
  <2>2. /\ Ask(q).data = q.data
        /\ HasAnswer(Ask(q)) => HasAnswer(q) /\ Ask(q).fetch = q.fetch
    BY <1>1, CacheFacts
  <2> QED
    BY <2>1, <2>2 DEF Holds
<1>4. ASSUME NEW v \in D
      PROVE  /\ Holds(SetData(q, v), D) /\ SetData(q, v).data = v
             /\ Holds([q EXCEPT !.fetch = Answered(v)], D)
             /\ [q EXCEPT !.fetch = Answered(v)].data = q.data
  BY HoldsValue
<1>5. ASSUME HasAnswer(q)
      PROVE  Holds(Arrived(q), D) /\ Arrived(q).data \in D
  <2> DEFINE p == [q EXCEPT !.fetch = Idle]
             v == q.fetch.value
  <2>1. p \in Entries(D) /\ v \in D
    BY <1>1, <1>5 DEF Entries, Idle, Holds
  <2>2. Arrived(q) = SetData(p, v)
    BY DEF Arrived
  <2> HIDE DEF p, v
  <2>3. SetData(p, v) \in Entries(D) /\ SetData(p, v).data = v
    BY <2>1 DEF SetData, Entries
  <2>4. ~HasAnswer(Arrived(q))
    BY <1>1, CacheFacts
  <2> QED
    BY <2>1, <2>2, <2>3, <2>4 DEF Holds
<1>6. Holds(Failed(q, "gone"), D)
  <2>1. Failed(q, "gone") \in Entries(D)
    BY <1>1 DEF Failed, Entries, Idle
  <2>2. ~HasAnswer(Failed(q, "gone"))
    BY <1>1, CacheFacts
  <2> QED
    BY <2>1, <2>2 DEF Holds
<1>7. Holds([q EXCEPT !.stale = TRUE], D) /\ [q EXCEPT !.stale = TRUE].data = q.data
  BY <1>1 DEF Holds, HasAnswer, Entries
<1> QED
  BY <1>2, <1>3, <1>4, <1>5, <1>6, <1>7

LEMMA EmptyTyped ==
  ASSUME NEW D
  PROVE  Holds(EmptyEntry, D)
BY DEF Holds, Entries, EmptyEntry, Idle, HasAnswer

LEMMA NoFormTyped == NoForm \in FormType
<1>1. <<>> \in Seq(Entry) /\ <<>> \in Seq(BOOLEAN)
  OBVIOUS
<1>2. [id \in Ids |-> None] \in [Ids -> BOOLEAN \cup {None}]
  OBVIOUS
<1> QED
  BY <1>1, <1>2 DEF NoForm, FormType

\* What the page may show of its cache.
LEMMA KnownTyped ==
  ASSUME NEW ns, NEW ls, CacheTyped(ns, ls), NEW s \in Schemas
  PROVE  Known(ls[s]) \in Seq(Entry) /\ Listed(ns, ls, s) \in Seq(Entry)
<1>1. ls[s].data \in Seq(Entry) \cup {None}
  BY HoldsFacts DEF CacheTyped
<1>2. <<>> \in Seq(Entry)
  OBVIOUS
<1> QED
  BY <1>1, <1>2 DEF Known, Listed

LEMMA RenderedTyped ==
  ASSUME NEW f \in FormType, NEW ns, NEW ls, CacheTyped(ns, ls), NEW s \in Schemas
  PROVE  /\ Rendered(f, s, ns, ls) \in FormType /\ Opened(f, s, ns, ls) \in FormType
         /\ Cleared(f, s, ns) \in FormType
<1> DEFINE listed == Listed(ns, ls, s)
<1>1. listed \in Seq(Entry)
  BY KnownTyped
<1>2. /\ f.shown \in Seq(Entry) /\ f.added \in Seq(BOOLEAN)
      /\ <<>> \in Seq(BOOLEAN) /\ <<FALSE>> \in Seq(BOOLEAN)
  BY DEF FormType
<1>3. ASSUME NEW shown \in Seq(Entry), NEW added \in Seq(BOOLEAN)
      PROVE  [f EXCEPT !.shown = shown, !.added = added] \in FormType
  BY DEF FormType
<1>4. Rendered(f, s, ns, ls) \in FormType
  <2> DEFINE news == ~IsNew(ns, s) /\ (IsNew(names, s) \/ listed # Listed(names, lists, s))
             shown == IF news THEN listed ELSE f.shown
             added == IF IsNew(ns, s) /\ ~IsNew(names, s) THEN <<FALSE>>
                      ELSE IF news THEN <<>> ELSE f.added
  <2>1. Rendered(f, s, ns, ls) = [f EXCEPT !.shown = shown, !.added = added]
    BY DEF Rendered, FormType
  <2>2. shown \in Seq(Entry) /\ added \in Seq(BOOLEAN)
    BY <1>1, <1>2
  <2> HIDE DEF shown, added
  <2> QED
    BY <1>3, <2>1, <2>2
<1>5. Opened(f, s, ns, ls) \in FormType
  <2> DEFINE added == IF IsNew(ns, s) THEN <<FALSE>> ELSE <<>>
             shown == IF IsNew(ns, s) THEN f.shown ELSE listed
  <2>1. added \in Seq(BOOLEAN) /\ shown \in Seq(Entry)
    BY <1>1, <1>2
  <2>2. Opened(f, s, ns, ls) = [f EXCEPT !.shown = shown, !.added = added]
    BY DEF Opened, Cleared, FormType
  <2> HIDE DEF added, shown
  <2> QED
    BY <1>3, <2>1, <2>2
<1>6. Cleared(f, s, ns) \in FormType
  <2> DEFINE added == IF IsNew(ns, s) THEN <<FALSE>> ELSE <<>>
  <2>1. added \in Seq(BOOLEAN)
    BY <1>2
  <2>2. Cleared(f, s, ns) = [f EXCEPT !.shown = f.shown, !.added = added]
    BY DEF Cleared, FormType
  <2> HIDE DEF added
  <2> QED
    BY <1>2, <1>3, <2>1, <2>2
<1> QED
  BY <1>4, <1>5, <1>6

LEMMA ListTyped ==
  ASSUME NEW ns, NEW ls, CacheTyped(ns, ls), NEW s \in Schemas, NEW q, Holds(q, Seq(Entry))
  PROVE  CacheTyped(ns, [ls EXCEPT ![s] = q])
BY DEF CacheTyped

LEMMA QueriedTyped ==
  ASSUME NEW ns, NEW ls, CacheTyped(ns, ls), NEW s \in Schemas, NEW ns2
  PROVE  CacheTyped(ns, Queried(ls, s, ns2))
<1>1. Holds(Ask(ls[s]), Seq(Entry))
  BY HoldsFacts DEF CacheTyped
<1>2. CacheTyped(ns, [ls EXCEPT ![s] = Ask(ls[s])])
  BY <1>1, ListTyped
<1> QED
  BY <1>2 DEF Queried

LEMMA CachedTyped ==
  ASSUME FormTyped(form, page), NEW ns, NEW ls, CacheTyped(ns, ls),
         NEW f, page # SchemaList => f \in FormType,
         Cached(f, ns, ls) \/ CachedAndLeft(ns, ls)
  PROVE  CacheTyped(names', lists') /\ FormTyped(form', page')
<1>1. CASE CachedAndLeft(ns, ls)
  BY <1>1, NoFormTyped DEF CachedAndLeft, FormTyped
<1>2. CASE Cached(f, ns, ls) /\ page = SchemaList
  <2>1. names' = ns /\ lists' = ls /\ form' = form /\ page' = page
    BY <1>2 DEF Cached
  <2> QED
    BY <2>1
<1>3. CASE Cached(f, ns, ls) /\ page # SchemaList
  <2>1. page \in Schemas /\ f \in FormType
    BY <1>3 DEF FormTyped
  <2>2. /\ names' = ns /\ page' = page /\ form' = Rendered(f, page, ns, ls)
        /\ lists' = Queried(ls, page, ns) \/ lists' = ls
    BY <1>3 DEF Cached
  <2>3. CacheTyped(ns, Queried(ls, page, ns)) /\ Rendered(f, page, ns, ls) \in FormType
    BY <2>1, QueriedTyped, RenderedTyped
  <2> QED
    BY <1>3, <2>1, <2>2, <2>3 DEF FormTyped
<1> QED
  BY <1>1, <1>2, <1>3

\* What the page sends.
LEMMA SentTyped ==
  ASSUME page \in Schemas, CacheTyped(names, lists), CountOK,
         NEW op \in {"create", "update", "delete"}, NEW id \in Ids \cup {None}, NEW place \in Nat,
         NEW change \in [display : BOOLEAN \cup {None}, index : (Nat \ {0}) \cup {None}],
         op # "create" => id \in Ids, op = "create" => change.display \in BOOLEAN
  PROVE  /\ RequestTyped(Request(op, id, place, change))
         /\ RequestTyped([Request(op, id, place, change) EXCEPT !.whole = TRUE])
<1> DEFINE r == Request(op, id, place, change)
           last == op = "delete" /\ Len(Listed(names, lists, page)) = 1
<1>1. sent + 1 \in Nat /\ names.data \in SUBSET Schemas /\ last \in BOOLEAN
  BY DEF CountOK, CacheTyped
<1>2. r = [op |-> op, id |-> id, place |-> place, schema |-> page, change |-> change,
           known |-> names.data, last |-> last, whole |-> FALSE, spoiled |-> FALSE,
           batch |-> sent + 1, at |-> "sent", row |-> None, turn |-> 0]
  BY DEF Request
<1> HIDE DEF r, last
<1>3. r \in RequestType
  BY <1>1, <1>2 DEF RequestType
<1>4. r.op = op /\ r.id = id /\ r.change = change /\ r.at = "sent"
  BY <1>2
<1> DEFINE q == [r EXCEPT !.whole = TRUE]
<1>5. q \in RequestType /\ q.op = r.op /\ q.id = r.id /\ q.change = r.change /\ q.at = r.at
  BY <1>3 DEF RequestType
<1> HIDE DEF q
<1> QED
  BY <1>3, <1>4, <1>5 DEF RequestTyped, q, r

LEMMA ChangeTyped ==
  LET C == [display : BOOLEAN \cup {None}, index : (Nat \ {0}) \cup {None}]
  IN  /\ NoChange \in C
      /\ \A d \in BOOLEAN \cup {None} : /\ [NoChange EXCEPT !.display = d] \in C
                                        /\ [NoChange EXCEPT !.display = d].display = d
      /\ \A k \in Nat \ {0} : [NoChange EXCEPT !.index = k] \in C
BY DEF NoChange

\* A step that sends a batch, or nothing.
LEMMA SendTyped ==
  ASSUME TypeInv, NEW batch, \A r \in batch : RequestTyped(r),
         Send(batch) \/ UNCHANGED requests
  PROVE  \A r \in requests' : RequestTyped(r)
BY DEF TypeInv, Send

LEMMA SaveTyped ==
  ASSUME TypeInv, Save
  PROVE  FormTyped(form', page') /\ \A r \in requests' : RequestTyped(r)
<1>1. /\ page \in Schemas /\ page' = page /\ form \in FormType /\ CacheTyped(names, lists)
      /\ CountOK /\ Send(Saved(form))
  BY DEF Save, OnSchema, TypeInv, FormTyped
<1>2. /\ form.added \in Seq(BOOLEAN) /\ form.edits \in [Ids -> BOOLEAN \cup {None}]
  BY <1>1 DEF FormType
<1>3. ASSUME NEW id \in Edited(form)
      PROVE  RequestTyped(Request("update", id, 0, [NoChange EXCEPT !.display = form.edits[id]]))
  <2> DEFINE change == [NoChange EXCEPT !.display = form.edits[id]]
             C == [display : BOOLEAN \cup {None}, index : (Nat \ {0}) \cup {None}]
  <2>1. id \in Ids /\ form.edits[id] \in BOOLEAN \cup {None}
    BY <1>2 DEF Edited
  <2>2. change \in C
    BY <2>1, ChangeTyped
  <2> HIDE DEF change
  <2>3. RequestTyped(Request("update", id, 0, change))
    BY <1>1, <2>1, <2>2, SentTyped
  <2> QED
    BY <2>3 DEF change
<1>4. ASSUME NEW k \in DOMAIN form.added
      PROVE  RequestTyped(Request("create", None, k, [NoChange EXCEPT !.display = form.added[k]]))
  <2> DEFINE change == [NoChange EXCEPT !.display = form.added[k]]
             C == [display : BOOLEAN \cup {None}, index : (Nat \ {0}) \cup {None}]
  <2>1. k \in Nat /\ form.added[k] \in BOOLEAN
    BY <1>2
  <2>2. change \in C /\ change.display \in BOOLEAN
    BY <2>1, ChangeTyped
  <2> HIDE DEF change
  <2>3. RequestTyped(Request("create", None, k, change))
    BY <1>1, <2>1, <2>2, SentTyped
  <2> QED
    BY <2>3 DEF change
<1>5. \A r \in Saved(form) : RequestTyped(r)
  BY <1>3, <1>4 DEF Saved
<1>6. FormTyped(form', page')
  <2>1. NoForm.edits \in [Ids -> BOOLEAN \cup {None}]
    BY NoFormTyped DEF FormType
  <2>2. [form EXCEPT !.edits = NoForm.edits] \in FormType
    BY <1>1, <2>1 DEF FormType
  <2>3. form' = [form EXCEPT !.edits = NoForm.edits] /\ page # SchemaList
    BY DEF Save, OnSchema
  <2> QED
    BY <1>1, <2>2, <2>3 DEF FormTyped
<1> QED
  BY <1>1, <1>5, <1>6, SendTyped

LEMMA DragTyped ==
  ASSUME TypeInv, NEW i \in DOMAIN Places(form), NEW j \in DOMAIN Places(form), Drag(i, j)
  PROVE  FormTyped(form', page') /\ \A r \in requests' : RequestTyped(r)
<1> DEFINE order == Moved(Places(form), i, j)
           list == Part(order, TRUE)
           rest == Part(order, FALSE)
           moved == {k \in 1..Len(list) : list[k].index # k}
           batch == {Request("update", list[k].id, 0, [NoChange EXCEPT !.index = k]) : k \in moved}
<1>1. /\ page \in Schemas /\ page # SchemaList /\ page' = page /\ form \in FormType
      /\ CacheTyped(names, lists) /\ CountOK
  BY DEF Drag, OnSchema, TypeInv, FormTyped
<1>2. form.shown \in Seq(Entry) /\ form.added \in Seq(BOOLEAN)
  BY <1>1 DEF FormType
<1>3. list \in Seq(Entry) /\ rest \in Seq(BOOLEAN)
  BY <1>2, DragTypes
<1>4. /\ Send(batch) \/ UNCHANGED requests
      /\ form' = [form EXCEPT !.shown = list, !.added = rest]
  BY DEF Drag
<1> HIDE DEF list, rest
<1>5. ASSUME NEW k \in moved
      PROVE  RequestTyped(Request("update", list[k].id, 0, [NoChange EXCEPT !.index = k]))
  <2> DEFINE change == [NoChange EXCEPT !.index = k]
             C == [display : BOOLEAN \cup {None}, index : (Nat \ {0}) \cup {None}]
  <2>1. k \in Nat \ {0} /\ list[k] \in Entry
    BY <1>3
  <2>2. change \in C
    BY <2>1, ChangeTyped
  <2>3. list[k].id \in Ids
    BY <2>1 DEF Entry
  <2> HIDE DEF change
  <2>4. RequestTyped(Request("update", list[k].id, 0, change))
    BY <1>1, <2>2, <2>3, SentTyped
  <2> QED
    BY <2>4 DEF change
<1> HIDE DEF moved
<1>6. \A r \in batch : RequestTyped(r)
  BY <1>5
<1> HIDE DEF batch
<1>7. FormTyped(form', page')
  BY <1>1, <1>3, <1>4 DEF FormTyped, FormType
<1> QED
  BY <1>4, <1>6, <1>7, SendTyped

LEMMA DeletesTyped ==
  ASSUME TypeInv, NEW k, DeleteEntry(k) \/ DeleteSchema
  PROVE  FormTyped(form', page') /\ \A r \in requests' : RequestTyped(r)
<1>1. /\ page \in Schemas /\ page # SchemaList /\ form \in FormType
      /\ CacheTyped(names, lists) /\ CountOK
  BY DEF DeleteEntry, DeleteSchema, OnSchema, TypeInv, FormTyped
<1>2. \A x \in DOMAIN form.shown : x \in Nat /\ form.shown[x].id \in Ids
  <2>1. form.shown \in Seq(Entry)
    BY <1>1 DEF FormType
  <2>2. \A x \in DOMAIN form.shown : x \in Nat /\ form.shown[x] \in Entry
    BY <2>1, SeqFacts
  <2> QED
    BY <2>2 DEF Entry
<1>3. ASSUME NEW x \in DOMAIN form.shown, NEW place \in Nat
      PROVE  /\ RequestTyped(Request("delete", form.shown[x].id, place, NoChange))
             /\ RequestTyped([Request("delete", form.shown[x].id, place, NoChange)
                                 EXCEPT !.whole = TRUE])
  <2> DEFINE id == form.shown[x].id
             change == NoChange
             C == [display : BOOLEAN \cup {None}, index : (Nat \ {0}) \cup {None}]
  <2>1. change \in C /\ id \in Ids
    BY <1>2, ChangeTyped
  <2> HIDE DEF id, change
  <2>2. /\ RequestTyped(Request("delete", id, place, change))
        /\ RequestTyped([Request("delete", id, place, change) EXCEPT !.whole = TRUE])
    BY <1>1, <2>1, SentTyped
  <2> QED
    BY <2>2 DEF id, change
<1>4. CASE DeleteEntry(k)
  <2>1. /\ k \in DOMAIN form.shown /\ Send({Request("delete", form.shown[k].id, 0, NoChange)})
        /\ (page' = SchemaList /\ form' = NoForm) \/ UNCHANGED <<page, form>>
    BY <1>4 DEF DeleteEntry
  <2>2. \A r \in {Request("delete", form.shown[k].id, 0, NoChange)} : RequestTyped(r)
    BY <1>3, <2>1
  <2>3. FormTyped(form', page')
    BY <1>1, <2>1, NoFormTyped DEF FormTyped
  <2> QED
    BY <2>1, <2>2, <2>3, SendTyped
<1>5. CASE DeleteSchema
  <2> DEFINE batch == {[Request("delete", form.shown[x].id, x, NoChange) EXCEPT !.whole = TRUE] :
                           x \in DOMAIN form.shown}
  <2>1. Send(batch) /\ UNCHANGED <<page, form>>
    BY <1>5 DEF DeleteSchema
  <2>2. \A r \in batch : RequestTyped(r)
    BY <1>2, <1>3
  <2> HIDE DEF batch
  <2>3. FormTyped(form', page')
    BY <2>1 DEF FormTyped, TypeInv
  <2> QED
    BY <2>1, <2>2, <2>3, SendTyped
<1> QED
  BY <1>4, <1>5

LEMMA NavigateTyped ==
  ASSUME TypeInv, NEW s \in Schemas \cup {SchemaList}, Navigate(s)
  PROVE  CacheTyped(names', lists') /\ FormTyped(form', page')
<1>1. /\ names' = names /\ page' = s /\ form \in FormType /\ CacheTyped(names, lists)
  BY DEF Navigate, TypeInv, FormTyped
<1>2. CASE s = SchemaList
  BY <1>1, <1>2, NoFormTyped DEF Navigate, FormTyped
<1>3. CASE s # SchemaList
  <2>1. form' = Opened(form, s, names, lists) /\ lists' = Queried(lists, s, names) /\ s \in Schemas
    BY <1>3 DEF Navigate
  <2>2. Opened(form, s, names, lists) \in FormType /\ CacheTyped(names, Queried(lists, s, names))
    BY <1>1, <2>1, RenderedTyped, QueriedTyped
  <2> QED
    BY <1>1, <1>3, <2>1, <2>2 DEF FormTyped
<1> QED
  BY <1>2, <1>3

LEMMA RemoveAtTyped ==
  ASSUME NEW S, NEW list \in Seq(S), NEW k \in DOMAIN list
  PROVE  RemoveAt(list, k) \in Seq(S)
<1>1. Len(list) \in Nat /\ k \in 1..Len(list)
  BY SeqFacts
<1>2. SubSeq(list, 1, k - 1) \in Seq(S) /\ SubSeq(list, k + 1, Len(list)) \in Seq(S)
  BY <1>1
<1> QED
  BY <1>2, ConcatFacts DEF RemoveAt

LEMMA TypingTyped ==
  ASSUME TypeInv, NEW k, NEW file,
         \/ Edit(k) \/ AddEntry \/ EditAdded(k) \/ RemoveAdded(k)
         \/ file \in Imports /\ Import(file)
  PROVE  FormTyped(form', page') /\ UNCHANGED <<queries, requests>>
<1>1. /\ form \in FormType /\ page \in Schemas \cup {SchemaList}
      /\ page = SchemaList => form = NoForm
  BY DEF TypeInv, FormTyped
<1>2. /\ form.shown \in Seq(Entry) /\ form.added \in Seq(BOOLEAN)
      /\ form.edits \in [Ids -> BOOLEAN \cup {None}]
  BY <1>1 DEF FormType
<1>3. page # SchemaList /\ page' = page /\ UNCHANGED <<queries, requests>>
  <2>1. NoForm.added = <<>>
    BY DEF NoForm
  <2>2. DOMAIN <<>> = {}
    OBVIOUS
  <2> QED
    BY <1>1, <2>1, <2>2 DEF Edit, AddEntry, EditAdded, RemoveAdded, Import, OnSchema
<1>4. CASE Edit(k)
  <2> DEFINE value == ~form.shown[k].display
             shown == [form.shown EXCEPT ![k] = [@ EXCEPT !.display = value]]
             edits2 == [form.edits EXCEPT ![form.shown[k].id] = value]
  <2>1. k \in DOMAIN form.shown /\ form' = Changed(form, k, value)
    BY <1>4 DEF Edit
  <2>2. form.shown[k] \in Entry
    BY <1>2, <2>1
  <2>3. value \in BOOLEAN /\ form.shown[k].id \in Ids
    BY <2>2 DEF Entry
  <2>4. Changed(form, k, value) = [form EXCEPT !.shown = shown, !.edits = edits2]
    BY <1>1 DEF Changed, FormType
  <2>5. edits2 \in [Ids -> BOOLEAN \cup {None}]
    BY <1>2, <2>3
  <2>6. [form.shown[k] EXCEPT !.display = value] \in Entry
    BY <2>2, <2>3 DEF Entry
  <2>7. shown \in Seq(Entry)
    BY <1>2, <2>1, <2>6
  <2> HIDE DEF shown, edits2, value
  <2> QED
    BY <1>1, <1>3, <2>1, <2>4, <2>5, <2>7 DEF FormTyped, FormType
<1>5. ASSUME ~Edit(k)
      PROVE  \E added \in Seq(BOOLEAN) : form' = [form EXCEPT !.added = added]
  <2>1. CASE AddEntry
    <3>1. Append(form.added, FALSE) \in Seq(BOOLEAN)
      BY <1>2
    <3>2. form' = [form EXCEPT !.added = Append(form.added, FALSE)]
      BY <1>1, <2>1 DEF AddEntry, FormType
    <3> QED
      BY <3>1, <3>2
  <2>2. CASE EditAdded(k)
    <3>1. k \in DOMAIN form.added /\ form' = [form EXCEPT !.added[k] = ~@]
      BY <2>2 DEF EditAdded
    <3>2. [form.added EXCEPT ![k] = ~@] \in Seq(BOOLEAN)
      BY <1>2, <3>1
    <3> QED
      BY <3>1, <3>2
  <2>3. CASE RemoveAdded(k)
    <3>1. k \in DOMAIN form.added /\ form' = [form EXCEPT !.added = RemoveAt(@, k)]
      BY <2>3 DEF RemoveAdded
    <3>2. RemoveAt(form.added, k) \in Seq(BOOLEAN)
      BY <1>2, <3>1, RemoveAtTyped
    <3> QED
      BY <3>1, <3>2
  <2>4. CASE file \in Imports /\ Import(file)
    <3>1. file \in Seq(BOOLEAN)
      BY <2>4, SchemaAssumption
    <3>2. form.added \o file \in Seq(BOOLEAN)
      BY <1>2, <3>1, ConcatFacts
    <3>3. form' = [form EXCEPT !.added = form.added \o file]
      BY <1>1, <2>4 DEF Import, FormType
    <3> QED
      BY <3>2, <3>3
  <2> QED
    BY <1>5, <2>1, <2>2, <2>3, <2>4
<1> QED
  BY <1>1, <1>3, <1>4, <1>5 DEF FormTyped, FormType

LEMMA UserTyped == TypeInv /\ UserStep => TypeInv'
<1> SUFFICES ASSUME TypeInv, UserStep PROVE TypeInv'
  OBVIOUS
<1>1. CountOK'
  <2>1. form.shown \in Seq(Entry) /\ form.added \in Seq(BOOLEAN) /\ CountOK
    BY DEF TypeInv, FormTyped, FormType
  <2> QED
    BY <2>1, UserCounts
<1>2. UNCHANGED server
  BY DEF UserStep, Navigate, Edit, AddEntry, EditAdded, RemoveAdded, Import, Save, Drag,
     DeleteEntry, DeleteSchema
<1>3. FieldsTyped'
  BY <1>2 DEF TypeInv, FieldsTyped, server
<1>4. /\ CacheTyped(names', lists') /\ FormTyped(form', page')
      /\ \A r \in requests' : RequestTyped(r)
  <2> DEFINE Typed == /\ CacheTyped(names', lists') /\ FormTyped(form', page')
                      /\ \A r \in requests' : RequestTyped(r)
  <2>1. ASSUME UNCHANGED queries
        PROVE  CacheTyped(names', lists')
    BY <2>1 DEF TypeInv, queries
  <2>2. ASSUME requests' = requests
        PROVE  \A r \in requests' : RequestTyped(r)
    BY <2>2 DEF TypeInv
  <2>3. ASSUME NEW s \in Schemas \cup {SchemaList}, Navigate(s)
        PROVE  Typed
    <3>1. requests' = requests
      BY <2>3 DEF Navigate
    <3> QED
      BY <2>2, <2>3, <3>1, NavigateTyped
  <2>4. ASSUME NEW k, NEW file, \/ Edit(k) \/ AddEntry \/ EditAdded(k) \/ RemoveAdded(k)
                                \/ file \in Imports /\ Import(file)
        PROVE  Typed
    <3>1. FormTyped(form', page') /\ UNCHANGED <<queries, requests>>
      BY <2>4, TypingTyped
    <3> QED
      BY <2>1, <2>2, <3>1
  <2>5. ASSUME Save
        PROVE  Typed
    BY <2>1, <2>5, SaveTyped DEF Save
  <2>6. ASSUME NEW i \in DOMAIN Places(form), NEW j \in DOMAIN Places(form), Drag(i, j)
        PROVE  Typed
    BY <2>1, <2>6, DragTyped DEF Drag
  <2>7. ASSUME NEW k, DeleteEntry(k) \/ DeleteSchema
        PROVE  Typed
    BY <2>1, <2>7, DeletesTyped DEF DeleteEntry, DeleteSchema
  <2>8. ASSUME NEW k, Edit(k) \/ AddEntry \/ EditAdded(k) \/ RemoveAdded(k)
        PROVE  Typed
    BY <2>4, <2>8
  <2>9. ASSUME NEW file \in Imports, Import(file)
        PROVE  Typed
    BY <2>4, <2>9
  <2> HIDE DEF Typed
  <2>10. ASSUME AddEntry \/ DeleteSchema
         PROVE  Typed
    BY <2>7, <2>8, <2>10
  <2>11. ASSUME NEW k, Edit(k) \/ DeleteEntry(k) \/ EditAdded(k) \/ RemoveAdded(k)
         PROVE  Typed
    BY <2>7, <2>8, <2>11
  <2>12. Typed
    BY <2>3, <2>5, <2>6, <2>9, <2>10, <2>11 DEF UserStep
  <2> QED
    BY <2>12 DEF Typed
<1> QED
  BY <1>1, <1>3, <1>4 DEF TypeInv

LEMMA FailedTyped ==
  ASSUME NEW r, RequestTyped(r)
  PROVE  RequestTyped([r EXCEPT !.at = "failed"])
<1> DEFINE q == [r EXCEPT !.at = "failed"]
<1>1. /\ q \in RequestType /\ q.op = r.op /\ q.id = r.id /\ q.change = r.change
      /\ q.at = "failed"
  BY DEF RequestTyped, RequestType
<1> HIDE DEF q
<1>2. RequestTyped(q)
  BY <1>1 DEF RequestTyped
<1> QED
  BY <1>2 DEF q

LEMMA StoredTyped ==
  ASSUME FieldsTyped
  PROVE  /\ \A id \in Stored(fields) : id \in Ids /\ fields[id] \in Row
         /\ RowsOK(fields)
<1>1. Row \subseteq FieldRow
  BY DEF Row, FieldRow
<1> QED
  BY <1>1 DEF FieldsTyped, Stored, RowsOK

LEMMA CheckTyped ==
  ASSUME TypeInv, IInv, NEW r \in requests, Check(r)
  PROVE  \A q \in requests' : RequestTyped(q)
<1>1. RequestTyped(r) /\ FieldsTyped /\ FieldsOK /\ \A q \in requests : RequestTyped(q)
  BY DEF TypeInv, IInv
<1>2. CASE Refused(r)
  <2>1. requests' = (requests \ {r}) \cup {[r EXCEPT !.at = "failed"]}
    BY <1>2 DEF Check
  <2> QED
    BY <1>1, <2>1, FailedTyped
<1>3. CASE ~Refused(r)
  <2> DEFINE row == IF r.op = "delete" THEN None ELSE Checked(r)
             q == [r EXCEPT !.at = "checked", !.row = row]
  <2>1. requests' = (requests \ {r}) \cup {q}
    BY <1>3 DEF Check
  <2>2. /\ r.op \in {"create", "update", "delete"} /\ r.schema \in Schemas
        /\ r.op = "create" => r.change.display \in BOOLEAN
        /\ r.change.display \in BOOLEAN \cup {None}
        /\ r.change.index \in (Nat \ {0}) \cup {None}
    BY <1>1 DEF RequestTyped, RequestType
  <2>3. ASSUME r.op = "create"
        PROVE  Checked(r) \in Row
    <3>1. NextIndex(fields, r.schema) \in Nat \ {0}
      BY <1>1, NextIndexFacts
    <3> QED
      BY <2>2, <2>3, <3>1 DEF Checked, Row
  <2>4. ASSUME r.op = "update"
        PROVE  Checked(r) \in Row
    <3> DEFINE old == fields[r.id]
               index == IF r.change.index = None THEN old.index ELSE r.change.index
               display == IF r.change.display = None THEN old.display ELSE r.change.display
    <3>1. old \in Row
      BY <1>1, <1>3, <2>4, StoredTyped DEF Refused
    <3>2. index \in Nat \ {0} /\ display \in BOOLEAN
      BY <2>2, <3>1 DEF Row
    <3>3. Checked(r) = [old EXCEPT !.index = index, !.display = display]
      BY <2>4, <3>1 DEF Checked, Row
    <3> HIDE DEF old, index, display
    <3> QED
      BY <3>1, <3>2, <3>3 DEF Row
  <2>5. row \in Row \cup {None} /\ (r.op # "delete" => row \in Row)
    BY <2>2, <2>3, <2>4
  <2> HIDE DEF row
  <2>6. /\ q \in RequestType /\ q.op = r.op /\ q.id = r.id /\ q.change = r.change
        /\ q.at = "checked" /\ q.row = row
    BY <1>1, <2>5 DEF RequestTyped, RequestType
  <2> HIDE DEF q
  <2>7. RequestTyped(q)
    BY <1>1, <2>5, <2>6 DEF RequestTyped
  <2> QED
    BY <1>1, <2>1, <2>7
<1> QED
  BY <1>2, <1>3

LEMMA TurnTyped ==
  ASSUME TypeInv
  PROVE  Max({q.turn : q \in Unread} \cup {0}) + 1 \in Nat
<1> DEFINE f == [q \in Unread |-> q.turn]
           S == {f[q] : q \in DOMAIN f}
<1>1. Unread \in SUBSET requests /\ IsFiniteSet(requests)
  BY DEF Unread, TypeInv, CountOK
<1>2. IsFiniteSet(DOMAIN f)
  BY <1>1, FS_Subset
<1>3. S = {q.turn : q \in Unread}
  OBVIOUS
<1>4. S \subseteq Nat
  BY <1>1, <1>3 DEF TypeInv, RequestTyped, RequestType
<1> HIDE DEF f
<1>5. IsFiniteSet(S)
  BY <1>2, ImageFinite
<1> HIDE DEF S
<1> DEFINE T == S \cup {0}
<1>6. IsFiniteSet(T) /\ T \in SUBSET Int /\ T # {}
  BY <1>4, <1>5, FS_AddElement
<1>7. \A x \in T : x + 1 \in Nat
  BY <1>4
<1>8. T = {q.turn : q \in Unread} \cup {0}
  BY <1>3
<1> HIDE DEF T
<1>9. Max(T) \in T
  BY <1>6, MaxFacts
<1> QED
  BY <1>7, <1>8, <1>9

LEMMA WithoutFieldTyped ==
  ASSUME FieldsTyped, NEW id \in Stored(fields)
  PROVE  WithoutField(fields, id) \in [Ids -> Row \cup {None}]
<1> DEFINE fs == WithoutField(fields, id)
           s == fields[id].schema
<1>1. fields[id] \in Row
  BY StoredTyped
<1>2. ASSUME NEW k \in Ids
      PROVE  fs[k] \in Row \cup {None}
  <2> DEFINE old == fields[k]
  <2>1. CASE k \in FieldsOf(fields, s) /\ old.index > fields[id].index /\ k # id
    <3>1. old \in Row
      BY <2>1, StoredTyped DEF FieldsOf
    <3>2. fs[k] = [old EXCEPT !.index = old.index - 1]
      BY <2>1, <3>1 DEF WithoutField, Row
    <3>3. old.index - 1 \in Nat \ {0}
      BY <1>1, <2>1, <3>1 DEF Row
    <3> HIDE DEF fs, old
    <3> QED
      BY <3>1, <3>2, <3>3 DEF Row
  <2>2. CASE ~(k \in FieldsOf(fields, s) /\ old.index > fields[id].index /\ k # id)
    <3>1. fs[k] = IF k = id THEN None ELSE old
      BY <2>2 DEF WithoutField
    <3> QED
      BY <3>1 DEF FieldsTyped
  <2> QED
    BY <2>1, <2>2
<1> QED
  BY <1>2 DEF WithoutField

LEMMA WriteTyped ==
  ASSUME TypeInv, NEW r \in requests, Write(r)
  PROVE  FieldsTyped' /\ \A q \in requests' : RequestTyped(q)
<1> DEFINE id == IF r.op = "create" THEN made + 1 ELSE r.id
           turn == Max({x.turn : x \in Unread} \cup {0}) + 1
           q == [r EXCEPT !.at = "done", !.id = id, !.turn = turn]
<1>1. /\ RequestTyped(r) /\ r.at = "checked" /\ FieldsTyped
      /\ \A x \in requests : RequestTyped(x)
      /\ fields' = CASE r.op # "delete" -> [fields EXCEPT ![id] = r.row]
                     [] r.op = "delete" /\ id \in Stored(fields) -> WithoutField(fields, id)
                     [] OTHER -> fields
      /\ made' = IF r.op = "create" THEN id ELSE made
      /\ requests' = (requests \ {r}) \cup {q}
  BY DEF TypeInv, Write
<1>2. id \in Ids
  BY <1>1, IdLeft DEF TypeInv, RequestTyped
<1>3. turn \in Nat
  BY TurnTyped
<1> HIDE DEF id, turn
<1>4. r \in RequestType /\ (r.op # "delete" => r.row \in Row)
  BY <1>1 DEF RequestTyped
<1>5. /\ q \in RequestType /\ q.op = r.op /\ q.id = id /\ q.change = r.change /\ q.row = r.row
      /\ q.at = "done"
  BY <1>2, <1>3, <1>4 DEF RequestType
<1> HIDE DEF q
<1>6. RequestTyped(q)
  BY <1>1, <1>2, <1>4, <1>5 DEF RequestTyped
<1>7. fields' \in [Ids -> Row \cup {None}]
  <2>1. CASE r.op # "delete"
    BY <1>1, <1>2, <1>4, <2>1 DEF FieldsTyped
  <2>2. CASE r.op = "delete" /\ id \in Stored(fields)
    BY <1>1, <2>2, WithoutFieldTyped
  <2>3. CASE r.op = "delete" /\ id \notin Stored(fields)
    BY <1>1, <2>3 DEF FieldsTyped
  <2> QED
    BY <2>1, <2>2, <2>3
<1>8. made' \in Ids
  BY <1>1, <1>2 DEF FieldsTyped, id
<1> QED
  BY <1>1, <1>6, <1>7, <1>8 DEF FieldsTyped

\* The page's own changes to a list of fields.
LEMMA OthersTyped ==
  ASSUME NEW S, NEW list \in Seq(S), NEW id
  PROVE  Others(list, id) \in Seq(S)
<1>1. {k \in DOMAIN list : list[k].id # id} \in SUBSET (DOMAIN list)
  OBVIOUS
<1> QED
  BY <1>1, KeptEntries DEF Others

LEMMA RemovedTyped ==
  ASSUME NEW list \in Seq(Entry), NEW id
  PROVE  Removed(list, id) \in Seq(Entry)
<1> DEFINE rest == Others(list, id)
           D == {k \in DOMAIN list : list[k].id = id}
           f == [k \in D |-> list[k].index]
           S == {f[k] : k \in DOMAIN f}
           at == {e.index : e \in {x \in Range(list) : x.id = id}}
<1>1. rest \in Seq(Entry)
  BY OthersTyped
<1>2. Len(list) \in Nat /\ DOMAIN list = 1..Len(list) /\ \A k \in DOMAIN list : list[k] \in Entry
  BY SeqFacts
<1>3. at = S
  <2>1. \A x \in Range(list) : x.id = id => x.index \in S
    <3>1. \A k \in D : f[k] = list[k].index /\ f[k] \in S
      OBVIOUS
    <3> HIDE DEF f, S
    <3> QED
      BY <3>1, RangeFacts
  <2>2. \A k \in D : list[k].index \in at
    BY RangeFacts
  <2> QED
    BY <2>1, <2>2
<1>4. IsFiniteSet(at)
  <2>1. DOMAIN f \subseteq 1..Len(list)
    BY <1>2
  <2> HIDE DEF f
  <2>2. IsFiniteSet(S)
    BY <1>2, <2>1, BatchFinite
  <2> QED
    BY <1>3, <2>2
<1>5. at \subseteq Nat \ {0}
  <2>1. \A x \in Range(list) : x \in Entry
    BY <1>2, RangeFacts
  <2> QED
    BY <2>1 DEF Entry
<1>6. Removed(list, id) =
        IF at = {} THEN list
        ELSE [k \in 1..Len(rest) |-> [rest[k] EXCEPT !.index = IF @ > Max(at) THEN @ - 1 ELSE @]]
  BY DEF Removed
<1> HIDE DEF at, rest, D
<1>7. CASE at = {}
  BY <1>6, <1>7
<1>8. CASE at # {}
  <2>1. Max(at) \in Nat \ {0}
    <3>1. at \in SUBSET Int
      BY <1>5
    <3>2. Max(at) \in at
      BY <1>4, <1>8, <3>1, MaxFacts
    <3> QED
      BY <1>5, <3>2
  <2> DEFINE m == Max(at)
             up(e) == [e EXCEPT !.index = IF @ > m THEN @ - 1 ELSE @]
  <2>2. m \in Nat \ {0}
    BY <2>1
  <2>3. Removed(list, id) = [k \in 1..Len(rest) |-> up(rest[k])]
    BY <1>6, <1>8
  <2> HIDE DEF m
  <2>4. ASSUME NEW e \in Entry
        PROVE  up(e) \in Entry
    <3> DEFINE index == IF e.index > m THEN e.index - 1 ELSE e.index
    <3>1. index \in Nat \ {0}
      BY <2>2 DEF Entry
    <3>2. up(e) = [e EXCEPT !.index = index]
      BY DEF Entry
    <3> HIDE DEF index
    <3> QED
      BY <3>1, <3>2 DEF Entry
  <2> HIDE DEF up
  <2>5. Len(rest) \in Nat /\ \A k \in 1..Len(rest) : rest[k] \in Entry
    BY <1>1, SeqFacts
  <2>6. Removed(list, id) \in [1..Len(rest) -> Entry]
    BY <2>3, <2>4, <2>5
  <2> QED
    BY <2>5, <2>6, ListIsSeq
<1> QED
  BY <1>7, <1>8

LEMMA PatchedTyped ==
  ASSUME NEW list \in Seq(Entry), NEW r, RequestTyped(r), r.at = "done"
  PROVE  Patched(list, r) \in Seq(Entry) /\ ListOf(r) \in Schemas
<1>1. /\ r.op \in {"create", "update", "delete"} /\ r.id \in Ids /\ r.schema \in Schemas
      /\ r.op # "delete" => r.row \in Row
  BY DEF RequestTyped, RequestType
<1> DEFINE e == EntryOf(r.id, r.row)
<1>2. ASSUME r.op # "delete"
      PROVE  e \in Entry /\ ListOf(r) \in Schemas
  BY <1>1, <1>2 DEF EntryOf, Row, Entry, ListOf
<1> HIDE DEF e
<1>3. CASE r.op = "create"
  <2>1. Append(list, e) \in Seq(Entry)
    BY <1>2, <1>3
  <2> QED
    BY <1>2, <1>3, <2>1 DEF Patched, WithEntry, e
<1>4. CASE r.op = "update"
  <2> DEFINE all == Append(Others(list, e.id), e)
  <2>1. Others(list, e.id) \in Seq(Entry)
    BY OthersTyped
  <2>2. all \in Seq(Entry)
    BY <1>2, <1>4, <2>1
  <2>3. \A x \in Entry : x.index \in Int
    BY DEF Entry
  <2>4. Replaced(list, e) = Sorted(all)
    BY DEF Replaced
  <2> HIDE DEF all
  <2>5. Replaced(list, e) \in Seq(Entry)
    BY <2>2, <2>3, <2>4, SortedPlaces
  <2> QED
    BY <1>2, <1>4, <2>5 DEF Patched, e
<1>5. CASE r.op = "delete"
  BY <1>1, <1>5, RemovedTyped DEF Patched, ListOf
<1> QED
  BY <1>1, <1>3, <1>4, <1>5

LEMMA NamesAfterTyped ==
  ASSUME TypeInv, NEW r \in requests, NEW ok
  PROVE  CacheTyped(NamesAfter(r, ok), lists)
<1>1. CacheTyped(names, lists) /\ r.known \in SUBSET Schemas /\ r.schema \in Schemas
  BY DEF TypeInv, RequestTyped, RequestType
<1>2. \A v \in SUBSET Schemas : CacheTyped(SetData(names, v), lists)
  <2>1. \A v \in SUBSET Schemas : /\ Holds(SetData(names, v), SUBSET Schemas)
                                  /\ SetData(names, v).data = v
    BY <1>1, NamesFacts DEF CacheTyped
  <2> QED
    BY <1>1, <2>1 DEF CacheTyped
<1>3. r.known \cup {r.schema} \in SUBSET Schemas /\ r.known \ {r.schema} \in SUBSET Schemas
  BY <1>1
<1> QED
  BY <1>1, <1>2, <1>3 DEF NamesAfter

LEMMA AnswersTyped ==
  ASSUME TypeInv, NEW r \in requests, Receive(r) \/ ReceiveFailure(r)
  PROVE  /\ CacheTyped(names', lists') /\ FormTyped(form', page')
         /\ \A q \in requests' : RequestTyped(q)
<1>1. /\ RequestTyped(r) /\ CacheTyped(names, lists) /\ FormTyped(form, page)
      /\ \A q \in requests : RequestTyped(q)
  BY DEF TypeInv
<1>2. CASE Receive(r)
  <2> DEFINE s == ListOf(r)
             list == Patched(Known(lists[s]), r)
             ls == [lists EXCEPT ![s] = SetData(@, list)]
             ns == NamesAfter(r, TRUE)
  <2>1. r.at = "done" /\ (Cached(form, ns, ls) \/ CachedAndLeft(ns, ls)) /\ requests' = requests \ {r}
    BY <1>2 DEF Receive
  <2>2. s \in Schemas
    <3>1. <<>> \in Seq(Entry)
      OBVIOUS
    <3> QED
      BY <1>1, <2>1, <3>1, PatchedTyped
  <2>3. CacheTyped(ns, lists)
    BY NamesAfterTyped
  <2> HIDE DEF s, ns
  <2>4. list \in Seq(Entry)
    BY <1>1, <2>1, <2>2, KnownTyped, PatchedTyped
  <2>5. Holds(SetData(lists[s], list), Seq(Entry))
    <3> HIDE DEF list
    <3>1. Holds(lists[s], Seq(Entry))
      BY <1>1, <2>2 DEF CacheTyped
    <3> QED
      BY <2>4, <3>1, HoldsFacts
  <2>6. CacheTyped(ns, [lists EXCEPT ![s] = SetData(lists[s], list)])
    BY <2>2, <2>3, <2>5, ListTyped
  <2>7. CacheTyped(ns, ls)
    BY <2>6
  <2> HIDE DEF ls
  <2> QED
    BY <1>1, <2>1, <2>7, CachedTyped DEF FormTyped
<1>3. CASE ReceiveFailure(r)
  <2>1. /\ Cached(form, NamesAfter(r, FALSE), lists)
        /\ requests' = {[q EXCEPT !.spoiled = @ \/ (q.batch = r.batch /\ r.whole)] :
                            q \in requests \ {r}}
    BY <1>3 DEF ReceiveFailure
  <2>2. CacheTyped(names', lists') /\ FormTyped(form', page')
    BY <1>1, <2>1, NamesAfterTyped, CachedTyped DEF FormTyped
  <2>3. ASSUME NEW q \in requests
        PROVE  RequestTyped([q EXCEPT !.spoiled = @ \/ (q.batch = r.batch /\ r.whole)])
    <3> DEFINE spoiled == q.spoiled \/ (q.batch = r.batch /\ r.whole)
               p == [q EXCEPT !.spoiled = spoiled]
    <3>1. p = [q EXCEPT !.spoiled = @ \/ (q.batch = r.batch /\ r.whole)]
      BY <1>1 DEF RequestTyped, RequestType
    <3>2. RequestTyped(q) /\ spoiled \in BOOLEAN
      BY <1>1 DEF RequestTyped, RequestType
    <3> HIDE DEF spoiled
    <3>3. /\ p \in RequestType /\ p.op = q.op /\ p.id = q.id /\ p.change = q.change
          /\ p.at = q.at /\ p.row = q.row
      BY <3>2 DEF RequestTyped, RequestType
    <3> HIDE DEF p
    <3>4. RequestTyped(p)
      BY <3>2, <3>3 DEF RequestTyped
    <3> QED
      BY <3>1, <3>4
  <2> QED
    BY <2>1, <2>2, <2>3
<1> QED
  BY <1>2, <1>3

LEMMA RequestStepTyped ==
  ASSUME TypeInv, IInv, NEW r \in requests,
         Check(r) \/ Write(r) \/ Receive(r) \/ ReceiveFailure(r) \/ Lose(r)
  PROVE  TypeInv'
<1>1. /\ FieldsTyped /\ CacheTyped(names, lists) /\ FormTyped(form, page) /\ CountOK
      /\ RequestTyped(r) /\ \A q \in requests : RequestTyped(q)
  BY DEF TypeInv
<1>2. CountOK'
  BY <1>1, CheckCounts, WriteCounts, AnswersCount
<1>3. ASSUME UNCHANGED <<queries, page, form>>
      PROVE  CacheTyped(names', lists') /\ FormTyped(form', page')
  BY <1>1, <1>3 DEF queries
<1>4. ASSUME UNCHANGED server
      PROVE  FieldsTyped'
  BY <1>1, <1>4 DEF server, FieldsTyped
<1>5. CASE Check(r)
  BY <1>2, <1>3, <1>4, <1>5, CheckTyped DEF TypeInv, Check
<1>6. CASE Write(r)
  BY <1>2, <1>3, <1>6, WriteTyped DEF TypeInv, Write
<1>7. CASE Receive(r) \/ ReceiveFailure(r)
  BY <1>2, <1>4, <1>7, AnswersTyped DEF TypeInv, Receive, ReceiveFailure
<1>8. CASE Lose(r)
  <2>1. requests' = (requests \ {r}) \cup {[r EXCEPT !.at = "failed"]}
    BY <1>8 DEF Lose
  <2>2. \A q \in requests' : RequestTyped(q)
    BY <1>1, <2>1, FailedTyped
  <2> QED
    BY <1>2, <1>3, <1>4, <1>8, <2>2 DEF TypeInv, Lose
<1> QED
  BY <1>5, <1>6, <1>7, <1>8

\* What the server answers.
LEMMA AnswerTyped ==
  ASSUME FieldsTyped, NEW s
  PROVE  Answer(fields, s) \in Seq(Entry)
<1> DEFINE list == Answer(fields, s)
<1>1. Mirrors(list, fields, s)
  BY StoredTyped, AnswerMirrors
<1> HIDE DEF list
<1>2. list \in Seq(FieldEntry) /\ Len(list) \in Nat /\ DOMAIN list = 1..Len(list)
  BY <1>1, MirrorsFacts, SeqFacts
<1>3. ASSUME NEW k \in DOMAIN list
      PROVE  list[k] \in Entry
  <2> DEFINE x == list[k]
  <2>1. x \in Range(list)
    BY RangeFacts
  <2> HIDE DEF x
  <2>2. x.id \in FieldsOf(fields, s) /\ x = EntryOf(x.id, fields[x.id])
    BY <1>1, <2>1, MirrorsFacts
  <2>3. x.id \in Ids /\ fields[x.id] \in Row
    BY <2>2, StoredTyped DEF FieldsOf
  <2>4. x \in Entry
    BY <2>2, <2>3 DEF EntryOf, Row, Entry
  <2> QED
    BY <2>4 DEF x
<1>4. list = [k \in 1..Len(list) |-> list[k]]
  BY <1>2
<1>5. list \in [1..Len(list) -> Entry]
  BY <1>2, <1>3, <1>4
<1>6. list \in Seq(Entry)
  BY <1>2, <1>5, ListIsSeq
<1> QED
  BY <1>6 DEF list

LEMMA QueryTyped == TypeInv /\ QueryStep => TypeInv'
<1> SUFFICES ASSUME TypeInv, QueryStep PROVE TypeInv'
  OBVIOUS
<1>1. /\ FieldsTyped /\ CacheTyped(names, lists) /\ FormTyped(form, page) /\ CountOK
      /\ \A r \in requests : RequestTyped(r)
      /\ Holds(names, SUBSET Schemas) /\ names.data \in SUBSET Schemas
      /\ \A s \in Schemas : Holds(lists[s], Seq(Entry))
  BY DEF TypeInv, CacheTyped
<1>2. ASSUME NEW q, Holds(q, SUBSET Schemas), q.data \in SUBSET Schemas
      PROVE  CacheTyped(q, lists)
  BY <1>1, <1>2 DEF CacheTyped
<1>3. ASSUME NEW s \in Schemas, NEW q, Holds(q, Seq(Entry))
      PROVE  CacheTyped(names, [lists EXCEPT ![s] = q])
  BY <1>1, <1>3, ListTyped
<1>4. CASE Focus
  <2> DEFINE old(q) == [q EXCEPT !.stale = TRUE]
  <2>1. ASSUME names' = Ask(old(names)), lists' = lists
        PROVE  CacheTyped(names', lists')
    <3>1. Holds(old(names), SUBSET Schemas) /\ old(names).data = names.data
      BY <1>1, HoldsFacts
    <3> HIDE DEF old
    <3>2. /\ Holds(Ask(old(names)), SUBSET Schemas)
          /\ Ask(old(names)).data = old(names).data
      BY <3>1, HoldsFacts
    <3> QED
      BY <1>1, <1>2, <2>1, <3>1, <3>2
  <2>2. ASSUME page \in Schemas, lists' = [lists EXCEPT ![page] = Ask(old(lists[page]))],
               names' = names
        PROVE  CacheTyped(names', lists')
    <3>1. Holds(old(lists[page]), Seq(Entry))
      BY <1>1, <2>2, HoldsFacts
    <3> HIDE DEF old
    <3>2. Holds(Ask(old(lists[page])), Seq(Entry))
      BY <3>1, HoldsFacts
    <3> QED
      BY <1>3, <2>2, <3>2
  <2>3. /\ \/ names' = Ask(old(names)) /\ lists' = lists
           \/ /\ page \in Schemas /\ names' = names
              /\ lists' = [lists EXCEPT ![page] = Ask(old(lists[page]))]
        /\ UNCHANGED <<server, page, form, requests, sent>>
    BY <1>1, <1>4 DEF Focus, FormTyped, OnSchema
  <2>4. CacheTyped(names', lists')
    BY <2>1, <2>2, <2>3
  <2> HIDE DEF old
  <2> QED
    BY <1>1, <2>3, <2>4 DEF TypeInv, FieldsTyped, CountOK, Pending, server
<1>5. CASE ServeFetch
  <2> DEFINE some == SchemaNames(fields)
             all(s) == Answer(fields, s)
  <2>1. /\ \/ names' = [names EXCEPT !.fetch = Answered(some)] /\ lists' = lists
           \/ \E s \in Schemas : /\ lists' = [lists EXCEPT ![s].fetch = Answered(all(s))]
                                 /\ names' = names
        /\ UNCHANGED <<server, page, form, requests, sent>>
    BY <1>5 DEF ServeFetch
  <2>2. some \in SUBSET Schemas /\ \A s : all(s) \in Seq(Entry)
    BY <1>1, AnswerTyped DEF SchemaNames
  <2> HIDE DEF some, all
  <2>3. ASSUME names' = [names EXCEPT !.fetch = Answered(some)], lists' = lists
        PROVE  CacheTyped(names', lists')
    BY <1>1, <1>2, <2>2, <2>3, NamesFacts
  <2>4. ASSUME NEW s \in Schemas, lists' = [lists EXCEPT ![s].fetch = Answered(all(s))],
               names' = names
        PROVE  CacheTyped(names', lists')
    <3>1. lists' = [lists EXCEPT ![s] = [lists[s] EXCEPT !.fetch = Answered(all(s))]]
      BY <2>4
    <3>2. Holds([lists[s] EXCEPT !.fetch = Answered(all(s))], Seq(Entry))
      BY <1>1, <2>2, HoldsFacts
    <3> QED
      BY <1>3, <2>4, <3>1, <3>2
  <2>5. CacheTyped(names', lists')
    BY <2>1, <2>3, <2>4
  <2> QED
    BY <1>1, <2>1, <2>5 DEF TypeInv, FieldsTyped, CountOK, Pending, server
<1>6. ASSUME NEW ns, NEW ls, NEW f, CacheTyped(ns, ls), page # SchemaList => f \in FormType,
             Cached(f, ns, ls),
             UNCHANGED <<server, requests, sent>>
      PROVE  TypeInv'
  BY <1>1, <1>6, CachedTyped DEF TypeInv, FieldsTyped, CountOK, Pending, server
<1>7. CASE ReceiveNames
  <2>1. /\ HasAnswer(names) /\ UNCHANGED <<server, requests, sent>>
        /\ \E f \in {form, Cleared(form, page, Arrived(names))} : Cached(f, Arrived(names), lists)
    BY <1>7 DEF ReceiveNames
  <2>2. CacheTyped(Arrived(names), lists)
    BY <1>1, <1>2, <2>1, HoldsFacts
  <2>3. PICK f \in {form, Cleared(form, page, Arrived(names))} : Cached(f, Arrived(names), lists)
    BY <2>1
  <2>4. page # SchemaList => f \in FormType
    BY <1>1, <2>2, RenderedTyped DEF FormTyped
  <2> QED
    BY <1>6, <2>1, <2>2, <2>3, <2>4
<1>8. ASSUME NEW s \in Schemas, ReceiveList(s)
      PROVE  TypeInv'
  <2> DEFINE q == IF lists[s].fetch.value = <<>>
                  THEN Failed(lists[s], "gone") ELSE Arrived(lists[s])
  <2>1. /\ HasAnswer(lists[s]) /\ Cached(form, names, [lists EXCEPT ![s] = q])
        /\ UNCHANGED <<server, requests, sent>>
    BY <1>8 DEF ReceiveList
  <2>2. Holds(q, Seq(Entry))
    BY <1>1, <2>1, HoldsFacts
  <2> HIDE DEF q
  <2>3. CacheTyped(names, [lists EXCEPT ![s] = q])
    BY <1>3, <2>2
  <2> QED
    BY <1>1, <1>6, <2>1, <2>3 DEF FormTyped
<1> QED
  BY <1>4, <1>5, <1>7, <1>8 DEF QueryStep

LEMMA InitTyped == Init => TypeInv
<1> SUFFICES ASSUME Init PROVE TypeInv
  OBVIOUS
<1>1. StartFields \in Nat \ {0} /\ MaxRequests \in Nat /\ Existing \in Schemas
  BY SchemaAssumption
<1>2. FieldsTyped
  <2>1. ASSUME NEW id \in Ids
        PROVE  [schema |-> Existing, index |-> id, display |-> id = 1] \in Row
    <3>1. id \in Nat \ {0} /\ (id = 1) \in BOOLEAN
      BY <1>1 DEF Ids
    <3> DEFINE display == id = 1
    <3> HIDE DEF display
    <3>2. display \in BOOLEAN
      BY <3>1 DEF display
    <3>3. [schema |-> Existing, index |-> id, display |-> display] \in Row
      BY <1>1, <3>1, <3>2 DEF Row
    <3> QED
      BY <3>3 DEF display
  <2> DEFINE row(id) == [schema |-> Existing, index |-> id, display |-> id = 1]
  <2>2. fields = [id \in Ids |-> IF id > StartFields THEN None ELSE row(id)]
    BY DEF Init
  <2>3. \A id \in Ids : row(id) \in Row
    BY <2>1
  <2> HIDE DEF row
  <2>4. fields \in [Ids -> Row \cup {None}]
    BY <2>2, <2>3
  <2>5. made \in Ids
    BY <1>1 DEF Init, Ids
  <2> QED
    BY <2>4, <2>5 DEF FieldsTyped
<1>3. CacheTyped(names, lists)
  <2>1. SchemaNames(fields) \in SUBSET Schemas
    BY DEF SchemaNames
  <2>2. /\ Holds(EmptyEntry, SUBSET Schemas) /\ Holds(EmptyEntry, Seq(Entry))
    BY EmptyTyped
  <2>3. /\ names = SetData(EmptyEntry, SchemaNames(fields))
        /\ lists = [s \in Schemas |-> EmptyEntry]
    BY DEF Init
  <2>4. /\ Holds(SetData(EmptyEntry, SchemaNames(fields)), SUBSET Schemas)
        /\ SetData(EmptyEntry, SchemaNames(fields)).data = SchemaNames(fields)
    BY <2>1, <2>2, NamesFacts
  <2> QED
    BY <2>1, <2>2, <2>3, <2>4 DEF CacheTyped
<1>4. FormTyped(form, page)
  BY NoFormTyped DEF Init, FormTyped
<1>5. CountOK
  <2>1. Peaceful
    BY DEF Init, Peaceful
  <2> QED
    BY <2>1, InitSynced DEF SyncInv
<1>6. requests = {}
  BY DEF Init
<1> QED
  BY <1>2, <1>3, <1>4, <1>5, <1>6 DEF TypeInv

LEMMA NextTyped == IInv /\ TypeInv /\ [Next]_vars => TypeInv'
<1> SUFFICES ASSUME IInv, TypeInv, [Next]_vars PROVE TypeInv'
  OBVIOUS
<1>1. CASE UNCHANGED vars
  <2>1. UNCHANGED <<fields, made, names, lists, page, form, requests, sent>>
    BY <1>1 DEF vars, server, queries
  <2> QED
    BY <2>1 DEF TypeInv, FieldsTyped, CountOK, Pending
<1> QED
  BY <1>1, UserTyped, RequestStepTyped, QueryTyped DEF Next, RequestStep

\* The server's fields, the page's copies of them, what is on screen and what
\* is in flight hold what their types announce, whatever answers come in
\* whatever order: there is an id left for each create, no index falls below
\* one, and a handler that passed its check has a whole row to write.
THEOREM TypeCorrect == Spec => []TypeOK
<1>1. TypeInv => TypeOK
  <2> SUFFICES ASSUME TypeInv PROVE TypeOK
    OBVIOUS
  <2>1. /\ names \in Entries(SUBSET Schemas)
        /\ lists \in [Schemas -> Entries(Seq(Entry))]
    BY DEF TypeInv, CacheTyped, Holds
  <2>2. sent \in 0..MaxRequests
    BY SchemaAssumption DEF TypeInv, CountOK
  <2>3. /\ requests \subseteq RequestType
        /\ \A r \in requests :
              /\ r.op # "create" \/ r.at = "done" => r.id \in Ids
              /\ r.at \in {"checked", "done"} /\ r.op # "delete" => r.row \in Row
    BY DEF TypeInv, RequestTyped
  <2> QED
    BY <2>1, <2>2, <2>3 DEF TypeInv, TypeOK, FieldsTyped, FormTyped
<1>2. Init => TypeInv
  BY InitTyped
<1>3. IInv /\ TypeInv /\ [Next]_vars => TypeInv'
  BY NextTyped
<1> QED
  BY <1>1, <1>2, <1>3, InvariantHolds, PTL DEF Spec
=============================================================================
