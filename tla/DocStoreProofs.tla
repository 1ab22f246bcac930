---------------------------- MODULE DocStoreProofs ----------------------------
(***************************************************************************)
(* Proofs about DocStore, for every set of workspaces, collections,        *)
(* documents and values, every limit on versions, and whether or not       *)
(* clients resend creates.                                                 *)
(***************************************************************************)
EXTENDS DocStore, FiniteSetTheorems, SequenceTheorems, TLAPS

-----------------------------------------------------------------------------
(* Lemmas about orders of ids.                                             *)

\* A list comprehension over a list of ids is a list of ids, and keeps
\* exactly the entries that are in S.
LEMMA SelectedFacts ==
  ASSUME NEW s \in Seq(Docs), NEW S, NEW t \in Selected(s, S)
  PROVE  t \in Seq(Docs) /\ Range(t) = Range(s) \cap S
<1> DEFINE kept == {i \in DOMAIN s : s[i] \in S}
           n    == Cardinality(kept)
<1>1. DOMAIN s = 1 .. Len(s) /\ Len(s) \in Nat /\ \A i \in DOMAIN s : s[i] \in Docs
  BY LenProperties, ElementOfSeq
<1>2. n \in Nat
  <2>1. IsFiniteSet(1 .. Len(s))
    BY <1>1, FS_Interval
  <2>2. kept \subseteq 1 .. Len(s)
    BY <1>1
  <2> QED
    BY <2>1, <2>2, FS_Subset, FS_CardinalityType
<1>3. PICK f \in [1 .. n -> kept] : Range(f) = kept /\ t = [i \in 1 .. n |-> s[f[i]]]
  BY DEF Selected
<1> HIDE DEF n
<1>4. \A i \in 1 .. n : t[i] \in Docs
  BY <1>1, <1>3
<1>5. t \in Seq(Docs)
  BY <1>2, <1>3, <1>4, SeqDef
<1>6. Range(t) = {s[i] : i \in kept}
  BY <1>3 DEF Range
<1>7. {s[i] : i \in kept} = Range(s) \cap S
  BY DEF Range
<1> QED
  BY <1>5, <1>6, <1>7

\* An ordering of a set of ids is a list of ids whose entries are the set.
LEMMA OrderingsFacts ==
  ASSUME NEW S \in SUBSET Docs, NEW t \in Orderings(S)
  PROVE  t \in Seq(Docs) /\ Range(t) = S
<1>1. Cardinality(S) \in Nat
  BY DocsAssumption, FS_Subset, FS_CardinalityType
<1>2. t \in [1 .. Cardinality(S) -> Docs]
  BY DEF Orderings
<1> QED
  BY <1>1, <1>2, SeqDef DEF Orderings

LEMMA AppendRange ==
  ASSUME NEW s \in Seq(Docs), NEW d \in Docs
  PROVE  Append(s, d) \in Seq(Docs) /\ Range(Append(s, d)) = Range(s) \cup {d}
<1>1. /\ Append(s, d) \in Seq(Docs)
      /\ Len(Append(s, d)) = Len(s) + 1
      /\ \A i \in 1 .. Len(s) : Append(s, d)[i] = s[i]
      /\ Append(s, d)[Len(s) + 1] = d
  BY AppendProperties
<1>2. Len(s) \in Nat
  BY LenProperties
<1>3. Range(s) = {s[i] : i \in 1 .. Len(s)}
  BY RangeEquality
<1>4. Range(Append(s, d)) = {Append(s, d)[i] : i \in 1 .. Len(s) + 1}
  BY <1>1, RangeEquality
<1> QED
  BY <1>1, <1>2, <1>3, <1>4

\* The orders a collection push can give production list the stored rows.
LEMMA PushOrdersFacts ==
  ASSUME NEW R, NEW M, NEW w, NEW c, M[w][c].sequence \in Seq(Docs),
         NEW s \in PushOrders(R, M, w, c)
  PROVE  s \in Seq(Docs) /\ Range(s) = Present(R, w, c)
<1> DEFINE P == Present(R, w, c)
           q == M[w][c].sequence
<1>1. PICK a \in Selected(q, P), b \in Orderings(P \ Range(q)) : s = a \o b
  BY DEF PushOrders
<1>2. a \in Seq(Docs) /\ Range(a) = Range(q) \cap P
  BY <1>1, SelectedFacts
<1>3. P \ Range(q) \in SUBSET Docs
  BY DEF Present
<1>4. b \in Seq(Docs) /\ Range(b) = P \ Range(q)
  BY <1>1, <1>3, OrderingsFacts
<1> HIDE DEF P, q
<1>5. s \in Seq(Docs) /\ Range(s) = Range(a) \cup Range(b)
  BY <1>1, <1>2, <1>4, ConcatProperties, RangeConcatenation
<1> QED
  BY <1>2, <1>4, <1>5 DEF P

\* Saving a version keeps the history well-formed and within the limit.
LEMMA SavedFacts ==
  ASSUME NEW h \in Seq(Values), Len(h) <= MaxVersions, NEW v \in Values
  PROVE  Saved(h, v) \in Seq(Values) /\ Len(Saved(h, v)) <= MaxVersions
<1> DEFINE g == Append(h, v)
<1>1. g \in Seq(Values) /\ Len(g) = Len(h) + 1 /\ Len(h) \in Nat
  BY AppendProperties, LenProperties
<1>2. MaxVersions \in Nat
  BY VersionsAssumption
<1> HIDE DEF g
<1>3. CASE Len(g) > MaxVersions
  <2>1. \A i \in Len(g) - MaxVersions + 1 .. Len(g) : g[i] \in Values
    BY <1>1, <1>2, <1>3, ElementOfSeq
  <2>2. /\ SubSeq(g, Len(g) - MaxVersions + 1, Len(g)) \in Seq(Values)
        /\ Len(SubSeq(g, Len(g) - MaxVersions + 1, Len(g))) <= MaxVersions
    BY <2>1, <1>1, <1>2, <1>3, SubSeqProperties
  <2> QED
    BY <2>2, <1>3 DEF Saved, g
<1>4. CASE ~(Len(g) > MaxVersions)
  BY <1>1, <1>2, <1>4 DEF Saved, g
<1> QED
  BY <1>3, <1>4

\* The pieces of the type invariant, one per variable.
RowsOK == rows \in [AllWorkspaces -> [Collections -> [Docs -> Rows \cup {NoRow}]]]
MetaOK == meta \in [AllWorkspaces -> [Collections -> Metas]]
VersionsOK ==
    /\ versions \in [AllWorkspaces -> [Collections -> [Docs -> Seq(Values)]]]
    /\ \A w \in AllWorkspaces, c \in Collections, d \in Docs :
          Len(versions[w][c][d]) <= MaxVersions

CollectionsOK == collections \in [Collections -> {"unused", "live", "deleted"}]

LEMMA TypeSplit ==
  TypeOK <=> /\ RowsOK /\ MetaOK /\ VersionsOK
             /\ workspaces \subseteq Workspaces /\ CollectionsOK
BY DEF TypeOK, RowsOK, MetaOK, VersionsOK, CollectionsOK

\* Putting a well-typed row or meta row in its place keeps the types.
LEMMA PutRow ==
  ASSUME RowsOK, NEW w \in AllWorkspaces, NEW c \in Collections, NEW d \in Docs,
         NEW r \in Rows \cup {NoRow}, rows' = [rows EXCEPT ![w][c][d] = r]
  PROVE  RowsOK'
BY DEF RowsOK

LEMMA PutMeta ==
  ASSUME MetaOK, NEW w \in AllWorkspaces, NEW c \in Collections,
         NEW m \in Metas, meta' = [meta EXCEPT ![w][c] = m]
  PROVE  MetaOK'
BY DEF MetaOK

\* The row a key holds, once it is known to hold one.
LEMMA RowType ==
  ASSUME RowsOK, NEW w \in AllWorkspaces, NEW c \in Collections, NEW d \in Docs,
         rows[w][c][d] # NoRow
  PROVE  /\ rows[w][c][d] \in Rows
         /\ rows[w][c][d].data \in Values
         /\ rows[w][c][d].status \in Statuses
BY DEF RowsOK, Rows

LEMMA MetaType ==
  ASSUME MetaOK, NEW w \in AllWorkspaces, NEW c \in Collections
  PROVE  /\ meta[w][c] \in Metas
         /\ meta[w][c].sequence \in Seq(Docs)
         /\ meta[w][c].statuses \in [Docs -> Statuses \cup {"none"}]
BY DEF MetaOK, Metas

LEMMA OrderedType ==
  ASSUME NEW s \in Seq(Docs), NEW st \in [Docs -> Statuses \cup {"none"}]
  PROVE  Ordered(s, st) \in Metas
BY DEF Ordered, Metas

LEMMA NoMetaType == NoMeta \in Metas
<1>1. <<>> \in Seq(Docs)
  BY EmptySeq
<1> QED
  BY <1>1 DEF NoMeta, Metas

LEMMA WithStatusType ==
  ASSUME NEW m \in Metas, NEW d \in Docs, NEW st \in Statuses
  PROVE  /\ WithStatus(m, d, st) \in Metas
         /\ Range(WithStatus(m, d, st).sequence) = Range(m.sequence) \cup {d}
         /\ WithStatus(m, d, st).statuses = [m.statuses EXCEPT ![d] = st]
<1>1. m.sequence \in Seq(Docs) /\ m.statuses \in [Docs -> Statuses \cup {"none"}]
  BY DEF Metas
<1> DEFINE q == IF d \in Range(m.sequence) THEN m.sequence ELSE Append(m.sequence, d)
<1>2. q \in Seq(Docs) /\ Range(q) = Range(m.sequence) \cup {d}
  BY <1>1, AppendRange
<1>3. [m.statuses EXCEPT ![d] = st] \in [Docs -> Statuses \cup {"none"}]
  BY <1>1
<1>4. WithStatus(m, d, st) = Ordered(q, [m.statuses EXCEPT ![d] = st])
  BY DEF WithStatus
<1> HIDE DEF q
<1> QED
  BY <1>2, <1>3, <1>4, OrderedType DEF Ordered

LEMMA SaveVersionType ==
  ASSUME TypeOK, NEW w \in AllWorkspaces, NEW c \in Collections, NEW d \in Docs,
         rows[w][c][d] # NoRow, SaveVersion(w, c, d)
  PROVE  VersionsOK'
<1>1. RowsOK /\ VersionsOK
  BY TypeSplit
<1> DEFINE new == Saved(versions[w][c][d], rows[w][c][d].data)
<1>2. new \in Seq(Values) /\ Len(new) <= MaxVersions
  BY <1>1, RowType, SavedFacts DEF VersionsOK
<1>3. versions' = [versions EXCEPT ![w][c][d] = new]
  BY DEF SaveVersion
<1> HIDE DEF new
<1> QED
  BY <1>1, <1>2, <1>3 DEF VersionsOK

-----------------------------------------------------------------------------
(* The inductive invariant. Neither agreement nor listing is inductive     *)
(* without the types, and a push of a collection needs both: the rows it   *)
(* stamps are the ones whose statuses it writes to the meta row only       *)
(* because every listed document has a row.                                *)

IInv == TypeOK /\ ListedDocumentsAgree /\ NoHiddenDocuments

\* The two parts of IInv for one collection of one workspace.
Agree(r, m)  == \A d \in Range(m.sequence) : r[d] # NoRow /\ r[d].status = m.statuses[d]
Covers(r, m) == \A d \in Docs : r[d] # NoRow => d \in Range(m.sequence)

LEMMA IInvByCollection ==
  IInv <=> /\ TypeOK
           /\ \A w \in AllWorkspaces, c \in Collections : Agree(rows[w][c], meta[w][c])
           /\ \A w \in Workspaces, c \in Collections : Covers(rows[w][c], meta[w][c])
BY DEF IInv, ListedDocumentsAgree, NoHiddenDocuments, Agree, Covers, Present

\* A step keeps IInv when each collection it changes is left in order.
LEMMA StepByCollection ==
  ASSUME IInv, TypeOK',
         \A w \in AllWorkspaces, c \in Collections :
            \/ rows'[w][c] = rows[w][c] /\ meta'[w][c] = meta[w][c]
            \/ /\ Agree(rows'[w][c], meta'[w][c])
               /\ w \in Workspaces => Covers(rows'[w][c], meta'[w][c])
  PROVE  IInv'
<1>1. /\ \A w \in AllWorkspaces, c \in Collections : Agree(rows[w][c], meta[w][c])
      /\ \A w \in Workspaces, c \in Collections : Covers(rows[w][c], meta[w][c])
  BY IInvByCollection
<1>2. ListedDocumentsAgree'
  <2> SUFFICES ASSUME NEW w \in AllWorkspaces, NEW c \in Collections
               PROVE  Agree(rows'[w][c], meta'[w][c])
    BY DEF ListedDocumentsAgree, Agree
  <2> QED
    BY <1>1
<1>3. NoHiddenDocuments'
  <2> SUFFICES ASSUME NEW w \in Workspaces, NEW c \in Collections
               PROVE  Covers(rows'[w][c], meta'[w][c])
    BY DEF NoHiddenDocuments, Covers, Present
  <2>1. w \in AllWorkspaces
    BY DEF AllWorkspaces
  <2> QED
    BY <1>1, <2>1
<1> QED
  BY <1>2, <1>3 DEF IInv

LEMMA InitIInv == Init => IInv
<1> SUFFICES ASSUME Init PROVE IInv
  OBVIOUS
<1>1. \A w \in AllWorkspaces, c \in Collections :
         /\ rows[w][c] = [d \in Docs |-> NoRow]
         /\ meta[w][c] = NoMeta
         /\ \A d \in Docs : versions[w][c][d] = <<>>
  BY DEF Init, NoRows, NoMetas
<1>2. TypeOK
  <2>1. RowsOK
    BY DEF Init, RowsOK, NoRows
  <2>2. MetaOK
    BY NoMetaType DEF Init, MetaOK, NoMetas
  <2>3. VersionsOK
    <3>1. <<>> \in Seq(Values) /\ Len(<<>>) = 0
      BY EmptySeq
    <3> QED
      BY <1>1, <3>1, VersionsAssumption DEF Init, VersionsOK
  <2> QED
    BY <2>1, <2>2, <2>3, TypeSplit DEF Init, CollectionsOK
<1>3. Range(NoMeta.sequence) = {}
  BY DEF NoMeta, Range
<1>4. \A w \in AllWorkspaces, c \in Collections :
         Agree(rows[w][c], meta[w][c]) /\ Covers(rows[w][c], meta[w][c])
  BY <1>1, <1>3 DEF Agree, Covers
<1> QED
  BY <1>2, <1>4, IInvByCollection DEF AllWorkspaces

\* Row r of document d and meta row m fit together, where m replaces m0.
Fits(r, m, m0, d) ==
    /\ Range(m.sequence) \subseteq Range(m0.sequence) \cup {d}
    /\ Range(m0.sequence) \ {d} \subseteq Range(m.sequence)
    /\ \A e \in Docs \ {d} : m.statuses[e] = m0.statuses[e]
    /\ d \in Range(m.sequence) => r # NoRow /\ r.status = m.statuses[d]
    /\ r # NoRow => d \in Range(m.sequence)

\* A step that changes one row and its collection's meta row only.
LEMMA OneCell ==
  ASSUME IInv, NEW w \in AllWorkspaces, NEW c \in Collections, NEW d \in Docs,
         NEW r \in Rows \cup {NoRow}, NEW m \in Metas,
         rows' = [rows EXCEPT ![w][c][d] = r],
         meta' = [meta EXCEPT ![w][c] = m],
         VersionsOK', UNCHANGED <<workspaces, collections>>,
         Fits(r, m, meta[w][c], d)
  PROVE  IInv'
<1>1. RowsOK /\ MetaOK /\ workspaces \subseteq Workspaces /\ CollectionsOK
  BY TypeSplit DEF IInv
<1>2. TypeOK'
  BY <1>1, PutRow, PutMeta, TypeSplit DEF TypeOK, RowsOK, MetaOK, VersionsOK, CollectionsOK
<1>3. rows'[w][c] = [rows[w][c] EXCEPT ![d] = r] /\ meta'[w][c] = m
  BY <1>1 DEF RowsOK, MetaOK
<1>4. rows[w][c] \in [Docs -> Rows \cup {NoRow}]
  BY <1>1 DEF RowsOK
<1>5. Range(m.sequence) \subseteq Docs
  BY RangeOfSeq DEF Metas
<1>6. Agree(rows[w][c], meta[w][c]) /\ (w \in Workspaces => Covers(rows[w][c], meta[w][c]))
  BY IInvByCollection
<1>7. Agree(rows'[w][c], meta'[w][c])
  BY <1>3, <1>4, <1>5, <1>6 DEF Agree, Fits
<1>8. w \in Workspaces => Covers(rows'[w][c], meta'[w][c])
  BY <1>3, <1>4, <1>6 DEF Covers, Fits
<1>9. \A x \in AllWorkspaces, y \in Collections :
         x # w \/ y # c => rows'[x][y] = rows[x][y] /\ meta'[x][y] = meta[x][y]
  BY <1>1 DEF RowsOK, MetaOK
<1> QED
  BY <1>2, <1>7, <1>8, <1>9, StepByCollection

-----------------------------------------------------------------------------
(* Each handler keeps the invariant.                                       *)

LEMMA WorkspaceIsAny == \A w \in Workspaces : w \in AllWorkspaces
BY DEF AllWorkspaces

LEMMA DraftType == \A v \in Values : Draft(v) \in Rows /\ Draft(v).status = "draft" /\ Draft(v) # NoRow
BY NoRowAssumption DEF Draft, Rows, Statuses

LEMMA RowIsNotNoRow == \A r \in Rows : r # NoRow
BY NoRowAssumption DEF Rows, Statuses

LEMMA CreateKeepsIInv ==
  ASSUME IInv, NEW w \in Workspaces, NEW c \in Collections, NEW d \in Docs, NEW v \in Values,
         CreateDocument(w, c, d, v)
  PROVE  IInv'
<1> DEFINE st == [meta[w][c].statuses EXCEPT ![d] = "draft"]
           q  == Append(meta[w][c].sequence, d)
           m  == Ordered(q, st)
<1>1. w \in AllWorkspaces /\ TypeOK /\ RowsOK /\ MetaOK /\ VersionsOK
  BY WorkspaceIsAny, TypeSplit DEF IInv
<1>2. /\ meta[w][c].sequence \in Seq(Docs)
      /\ meta[w][c].statuses \in [Docs -> Statuses \cup {"none"}]
  BY <1>1, MetaType
<1>3. q \in Seq(Docs) /\ Range(q) = Range(meta[w][c].sequence) \cup {d}
  BY <1>2, AppendRange
<1>4. st \in [Docs -> Statuses \cup {"none"}]
  BY <1>2 DEF Statuses
<1>5. st[d] = "draft" /\ \A e \in Docs \ {d} : st[e] = meta[w][c].statuses[e]
  BY <1>2
<1>6. m \in Metas /\ m.sequence = q /\ m.statuses = st
  BY <1>3, <1>4, OrderedType DEF Ordered
<1>7. rows' = [rows EXCEPT ![w][c][d] = Draft(v)] /\ meta' = [meta EXCEPT ![w][c] = m]
  BY DEF CreateDocument
<1>8. VersionsOK' /\ UNCHANGED <<workspaces, collections>>
  BY <1>1 DEF CreateDocument, VersionsOK
<1> HIDE DEF st, q, m
<1>9. Draft(v) \in Rows \cup {NoRow} /\ Fits(Draft(v), m, meta[w][c], d)
  BY <1>3, <1>5, <1>6, DraftType DEF Fits
<1> QED
  BY <1>1, <1>6, <1>7, <1>8, <1>9, OneCell

LEMMA UpdateKeepsIInv ==
  ASSUME IInv, NEW w \in Workspaces, NEW c \in Collections, NEW d \in Docs, NEW v \in Values,
         UpdateDocument(w, c, d, v)
  PROVE  IInv'
<1> DEFINE old == rows[w][c][d]
           st  == [meta[w][c].statuses EXCEPT ![d] = "draft"]
           m   == IF old.status = "published" THEN Ordered(meta[w][c].sequence, st) ELSE meta[w][c]
           r   == [data |-> v, status |-> IF old.status = "published" THEN "draft" ELSE old.status]
<1>1. w \in AllWorkspaces /\ TypeOK /\ RowsOK /\ MetaOK
  BY WorkspaceIsAny, TypeSplit DEF IInv
<1>2. old # NoRow /\ d \in Range(meta[w][c].sequence)
  BY DEF UpdateDocument, Editable, Listed
<1>3. old.status \in Statuses
  BY <1>1, <1>2, RowType
<1>4. meta[w][c] \in Metas /\ meta[w][c].sequence \in Seq(Docs)
      /\ meta[w][c].statuses \in [Docs -> Statuses \cup {"none"}]
  BY <1>1, MetaType
<1>5. st \in [Docs -> Statuses \cup {"none"}]
  BY <1>4 DEF Statuses
<1>6. m \in Metas /\ m.sequence = meta[w][c].sequence
  BY <1>4, <1>5, OrderedType DEF Ordered
<1>7. \A e \in Docs \ {d} : m.statuses[e] = meta[w][c].statuses[e]
  BY <1>4 DEF Ordered
<1>8. old.status = meta[w][c].statuses[d]
  BY <1>1, <1>2, IInvByCollection DEF Agree
<1>9. r \in Rows /\ r.status = m.statuses[d]
  BY <1>3, <1>4, <1>8 DEF Rows, Statuses, Ordered
<1>10. VersionsOK'
  BY <1>1, <1>2, SaveVersionType DEF UpdateDocument
<1>11. meta' = [meta EXCEPT ![w][c] = m]
  BY <1>1 DEF UpdateDocument, MetaOK
<1>12. rows' = [rows EXCEPT ![w][c][d] = r] /\ UNCHANGED <<workspaces, collections>>
  BY DEF UpdateDocument
<1> HIDE DEF old, st, m, r
<1>13. r \in Rows \cup {NoRow} /\ Fits(r, m, meta[w][c], d)
  BY <1>2, <1>6, <1>7, <1>9, RowIsNotNoRow DEF Fits
<1> QED
  BY <1>1, <1>6, <1>10, <1>11, <1>12, <1>13, OneCell

LEMMA StatusKeepsIInv ==
  ASSUME IInv, NEW w \in Workspaces, NEW c \in Collections, NEW d \in Docs,
         UpdateDocumentStatus(w, c, d)
  PROVE  IInv'
<1> DEFINE old == rows[w][c][d]
           st  == [meta[w][c].statuses EXCEPT ![d] = "draft"]
           m   == Ordered(meta[w][c].sequence, st)
           r   == [old EXCEPT !.status = "draft"]
<1>1. w \in AllWorkspaces /\ TypeOK /\ RowsOK /\ MetaOK /\ VersionsOK
  BY WorkspaceIsAny, TypeSplit DEF IInv
<1>2. old # NoRow /\ d \in Range(meta[w][c].sequence)
  BY DEF UpdateDocumentStatus, Editable, Listed
<1>3. r \in Rows /\ r.status = "draft"
  BY <1>1, <1>2, RowType DEF Rows, Statuses
<1>4. /\ meta[w][c].sequence \in Seq(Docs)
      /\ meta[w][c].statuses \in [Docs -> Statuses \cup {"none"}]
  BY <1>1, MetaType
<1>5. st \in [Docs -> Statuses \cup {"none"}] /\ st[d] = "draft"
      /\ \A e \in Docs \ {d} : st[e] = meta[w][c].statuses[e]
  BY <1>4 DEF Statuses
<1>6. m \in Metas /\ m.sequence = meta[w][c].sequence /\ m.statuses = st
  BY <1>4, <1>5, OrderedType DEF Ordered
<1>7. rows' = [rows EXCEPT ![w][c][d] = r] /\ meta' = [meta EXCEPT ![w][c] = m]
  BY <1>1 DEF UpdateDocumentStatus, RowsOK
<1>8. VersionsOK' /\ UNCHANGED <<workspaces, collections>>
  BY <1>1 DEF UpdateDocumentStatus, VersionsOK
<1> HIDE DEF old, st, m, r
<1>9. r \in Rows \cup {NoRow} /\ Fits(r, m, meta[w][c], d)
  BY <1>2, <1>3, <1>5, <1>6, RowIsNotNoRow DEF Fits
<1> QED
  BY <1>1, <1>6, <1>7, <1>8, <1>9, OneCell

LEMMA DeleteKeepsIInv ==
  ASSUME IInv, NEW w \in Workspaces, NEW c \in Collections, NEW d \in Docs,
         DeleteDocument(w, c, d)
  PROVE  IInv'
<1> DEFINE st == [meta[w][c].statuses EXCEPT ![d] = "none"]
<1>1. w \in AllWorkspaces /\ TypeOK /\ RowsOK /\ MetaOK /\ VersionsOK
  BY WorkspaceIsAny, TypeSplit DEF IInv
<1>2. /\ meta[w][c].sequence \in Seq(Docs)
      /\ meta[w][c].statuses \in [Docs -> Statuses \cup {"none"}]
  BY <1>1, MetaType
<1>3. PICK s \in Selected(meta[w][c].sequence, Docs \ {d}) :
         meta' = [meta EXCEPT ![w][c] = Ordered(s, st)]
  BY DEF DeleteDocument
<1>4. s \in Seq(Docs) /\ Range(s) = Range(meta[w][c].sequence) \cap (Docs \ {d})
  BY <1>2, <1>3, SelectedFacts
<1>5. Range(meta[w][c].sequence) \subseteq Docs
  BY <1>2, RangeOfSeq
<1>6. st \in [Docs -> Statuses \cup {"none"}]
      /\ \A e \in Docs \ {d} : st[e] = meta[w][c].statuses[e]
  BY <1>2
<1> DEFINE m == Ordered(s, st)
<1>7. m \in Metas /\ m.sequence = s /\ m.statuses = st
  BY <1>4, <1>6, OrderedType DEF Ordered
<1>8. rows' = [rows EXCEPT ![w][c][d] = NoRow] /\ UNCHANGED <<workspaces, collections>>
  BY DEF DeleteDocument
<1>9. VersionsOK'
  BY <1>1 DEF DeleteDocument, VersionsOK
<1>10. meta' = [meta EXCEPT ![w][c] = m]
  BY <1>3
<1> HIDE DEF st, m
<1>11. Fits(NoRow, m, meta[w][c], d)
  BY <1>4, <1>5, <1>6, <1>7 DEF Fits
<1> QED
  BY <1>1, <1>7, <1>8, <1>9, <1>10, <1>11, OneCell

LEMMA RestoreKeepsIInv ==
  ASSUME IInv, NEW w \in Workspaces, NEW c \in Collections, NEW d \in Docs, NEW v \in Values,
         RestoreVersion(w, c, d, v)
  PROVE  IInv'
<1> DEFINE old == rows[w][c][d]
           r   == [old EXCEPT !.data = v]
<1>1. w \in AllWorkspaces /\ TypeOK /\ RowsOK /\ MetaOK
  BY WorkspaceIsAny, TypeSplit DEF IInv
<1>2. old # NoRow
  BY DEF RestoreVersion
<1>3. r \in Rows /\ r.status = old.status
  BY <1>1, <1>2, RowType DEF Rows
<1>4. VersionsOK'
  BY <1>1, <1>2, SaveVersionType DEF RestoreVersion
<1>5. rows' = [rows EXCEPT ![w][c][d] = r] /\ meta' = meta
      /\ UNCHANGED <<workspaces, collections>>
  BY <1>1 DEF RestoreVersion, RowsOK
<1>6. meta' = [meta EXCEPT ![w][c] = meta[w][c]]
  BY <1>1, <1>5 DEF MetaOK
<1>7. meta[w][c] \in Metas
  BY <1>1, MetaType
<1>8. d \in Range(meta[w][c].sequence) /\ old.status = meta[w][c].statuses[d]
  BY <1>1, <1>2, IInvByCollection DEF Agree, Covers
<1> HIDE DEF old, r
<1>9. r \in Rows \cup {NoRow} /\ Fits(r, meta[w][c], meta[w][c], d)
  BY <1>3, <1>8, RowIsNotNoRow DEF Fits
<1> QED
  BY <1>1, <1>4, <1>5, <1>6, <1>7, <1>9, OneCell

LEMMA UpdateWithoutEffectKeepsIInv ==
  ASSUME IInv, NEW w \in Workspaces, NEW c \in Collections, NEW d \in Docs,
         UpdateWithoutEffect(w, c, d)
  PROVE  IInv'
<1>1. w \in AllWorkspaces /\ TypeOK /\ RowsOK /\ MetaOK
  BY WorkspaceIsAny, TypeSplit DEF IInv
<1>2. VersionsOK'
  BY <1>1, SaveVersionType DEF UpdateWithoutEffect, Editable
<1>3. UNCHANGED <<rows, meta, workspaces, collections>>
  BY DEF UpdateWithoutEffect
<1>4. TypeOK'
  BY <1>1, <1>2, <1>3 DEF TypeOK, VersionsOK
<1> QED
  BY <1>3, <1>4, StepByCollection

\* Replacing one row and its meta row by ones that fit leaves the collection
\* in order.
LEMMA FitsKeepsOrder ==
  ASSUME NEW r0 \in [Docs -> Rows \cup {NoRow}], NEW m0, NEW d \in Docs,
         NEW r, NEW m \in Metas, Agree(r0, m0), Fits(r, m, m0, d)
  PROVE  /\ Agree([r0 EXCEPT ![d] = r], m)
         /\ Covers(r0, m0) => Covers([r0 EXCEPT ![d] = r], m)
<1>1. Range(m.sequence) \subseteq Docs
  BY RangeOfSeq DEF Metas
<1> QED
  BY <1>1 DEF Agree, Covers, Fits

LEMMA PushDocumentKeepsIInv ==
  ASSUME IInv, NEW w \in Workspaces, NEW c \in Collections, NEW d \in Docs,
         PushDocument(w, c, d)
  PROVE  IInv'
<1> DEFINE r  == [rows[w][c][d] EXCEPT !.status = "published"]
           m  == WithStatus(meta[w][c], d, "published")
           mp == WithStatus(meta[Production][c], d, "published")
<1>1. /\ w \in AllWorkspaces /\ Production \in AllWorkspaces /\ w # Production
      /\ TypeOK /\ RowsOK /\ MetaOK /\ VersionsOK
      /\ workspaces \subseteq Workspaces /\ CollectionsOK
  BY WorkspaceIsAny, TypeSplit, ProductionAssumption DEF IInv, AllWorkspaces
<1>2. r \in Rows /\ r.status = "published"
  BY <1>1, RowType DEF PushDocument, Rows, Statuses
<1>3. meta[w][c] \in Metas /\ meta[Production][c] \in Metas
  BY <1>1, MetaType
<1>4. "published" \in Statuses
  BY DEF Statuses
<1>5. \A o \in Metas :
         LET n == WithStatus(o, d, "published")
         IN  n \in Metas /\ Fits(r, n, o, d)
  <2> SUFFICES ASSUME NEW o \in Metas
               PROVE  LET n == WithStatus(o, d, "published")
                      IN  n \in Metas /\ Fits(r, n, o, d)
    OBVIOUS
  <2> DEFINE n == WithStatus(o, d, "published")
  <2>1. /\ n \in Metas
        /\ Range(n.sequence) = Range(o.sequence) \cup {d}
        /\ n.statuses = [o.statuses EXCEPT ![d] = "published"]
    BY <1>4, WithStatusType
  <2>2. o.statuses \in [Docs -> Statuses \cup {"none"}]
    BY DEF Metas
  <2> HIDE DEF n, r
  <2>3. Fits(r, n, o, d)
    BY <1>2, <2>1, <2>2, RowIsNotNoRow DEF Fits
  <2> QED
    BY <2>1, <2>3 DEF n
<1>6. m \in Metas /\ Fits(r, m, meta[w][c], d)
  BY <1>3, <1>5
<1>7. mp \in Metas /\ Fits(r, mp, meta[Production][c], d)
  BY <1>3, <1>5
<1>8. /\ rows' = [rows EXCEPT ![w][c][d] = r, ![Production][c][d] = r]
      /\ meta' = [meta EXCEPT ![w][c] = m, ![Production][c] = mp]
      /\ UNCHANGED <<versions, workspaces, collections>>
  BY <1>1 DEF PushDocument, PushDocumentRows, PushDocumentMeta, MetaOK
<1> HIDE DEF r, m, mp
<1>9. RowsOK' /\ MetaOK'
  BY <1>1, <1>2, <1>6, <1>7, <1>8 DEF RowsOK, MetaOK
<1>10. TypeOK'
  BY <1>1, <1>8, <1>9 DEF TypeOK, RowsOK, MetaOK
<1>11. /\ rows'[w][c] = [rows[w][c] EXCEPT ![d] = r] /\ meta'[w][c] = m
       /\ rows'[Production][c] = [rows[Production][c] EXCEPT ![d] = r]
       /\ meta'[Production][c] = mp
  BY <1>1, <1>8 DEF RowsOK, MetaOK
<1>12. /\ rows[w][c] \in [Docs -> Rows \cup {NoRow}]
       /\ rows[Production][c] \in [Docs -> Rows \cup {NoRow}]
  BY <1>1 DEF RowsOK
<1>13. /\ Agree(rows[w][c], meta[w][c]) /\ Covers(rows[w][c], meta[w][c])
       /\ Agree(rows[Production][c], meta[Production][c])
  BY <1>1, IInvByCollection
<1>14. Agree(rows'[w][c], meta'[w][c]) /\ Covers(rows'[w][c], meta'[w][c])
  <2>1. /\ Agree([rows[w][c] EXCEPT ![d] = r], m)
        /\ Covers([rows[w][c] EXCEPT ![d] = r], m)
    BY <1>6, <1>12, <1>13, FitsKeepsOrder
  <2> QED
    BY <2>1, <1>11
<1>15. Agree(rows'[Production][c], meta'[Production][c])
  BY <1>7, <1>11, <1>12, <1>13, FitsKeepsOrder
<1>16. \A x \in AllWorkspaces, y \in Collections :
          (x # w /\ x # Production) \/ y # c
             => rows'[x][y] = rows[x][y] /\ meta'[x][y] = meta[x][y]
  BY <1>1, <1>8 DEF RowsOK, MetaOK
<1> QED
  BY <1>10, <1>14, <1>15, <1>16, ProductionAssumption, StepByCollection

\* What a collection push makes of the source: the rows present are stamped.
LEMMA StampedFacts ==
  ASSUME RowsOK, NEW w \in AllWorkspaces, NEW c \in Collections
  PROVE  /\ Stamped(rows, w, c) \in [Docs -> Rows \cup {NoRow}]
         /\ \A d \in Docs : IF rows[w][c][d] = NoRow THEN Stamped(rows, w, c)[d] = NoRow
                            ELSE /\ Stamped(rows, w, c)[d] # NoRow
                                 /\ Stamped(rows, w, c)[d].status = "published"
<1> SUFFICES ASSUME NEW d \in Docs, rows[w][c][d] # NoRow
             PROVE  /\ Stamped(rows, w, c)[d] \in Rows
                    /\ Stamped(rows, w, c)[d] # NoRow
                    /\ Stamped(rows, w, c)[d].status = "published"
  BY DEF Stamped
<1>1. Stamped(rows, w, c)[d] = [rows[w][c][d] EXCEPT !.status = "published"]
  BY DEF Stamped
<1>2. rows[w][c][d] \in Rows
  BY RowType
<1>3. Stamped(rows, w, c)[d] \in Rows /\ Stamped(rows, w, c)[d].status = "published"
  BY <1>1, <1>2 DEF Rows, Statuses
<1> QED
  BY <1>3, RowIsNotNoRow

\* The source of a collection push stays in order.
LEMMA SourceStaysInOrder ==
  ASSUME IInv, NEW w \in Workspaces, NEW c \in Collections
  PROVE  /\ StampedMeta(rows, meta, w, c) \in Metas
         /\ Agree(Stamped(rows, w, c), StampedMeta(rows, meta, w, c))
         /\ Covers(Stamped(rows, w, c), StampedMeta(rows, meta, w, c))
<1> DEFINE m == StampedMeta(rows, meta, w, c)
           r == Stamped(rows, w, c)
<1>1. w \in AllWorkspaces /\ RowsOK /\ MetaOK
  BY WorkspaceIsAny, TypeSplit DEF IInv
<1>2. /\ meta[w][c].sequence \in Seq(Docs)
      /\ meta[w][c].statuses \in [Docs -> Statuses \cup {"none"}]
      /\ meta[w][c].kind \in {"absent", "unordered", "ordered"}
  BY <1>1, MetaType DEF Metas
<1>3. m \in Metas
  BY <1>2 DEF StampedMeta, Metas, Statuses
<1>4. /\ m.sequence = meta[w][c].sequence
      /\ \A d \in Docs : rows[w][c][d] # NoRow => m.statuses[d] = "published"
  BY DEF StampedMeta
<1>5. Agree(rows[w][c], meta[w][c]) /\ Covers(rows[w][c], meta[w][c])
  BY <1>1, IInvByCollection
<1>6. Range(meta[w][c].sequence) \subseteq Docs
  BY <1>2, RangeOfSeq
<1>7. \A d \in Docs : IF rows[w][c][d] = NoRow THEN r[d] = NoRow
                      ELSE r[d] # NoRow /\ r[d].status = "published"
  BY <1>1, StampedFacts
<1> HIDE DEF m, r
<1>8. Agree(r, m)
  BY <1>4, <1>5, <1>6, <1>7 DEF Agree
<1>9. Covers(r, m)
  BY <1>4, <1>5, <1>7 DEF Covers
<1> QED
  BY <1>3, <1>8, <1>9 DEF m, r

\* A collection is replaced in a workspace and in production.
RowsPut(w, c, r, p) == rows' = [rows EXCEPT ![w][c] = r, ![Production][c] = p]
MetaPut(w, c, m, n) == meta' = [meta EXCEPT ![w][c] = m, ![Production][c] = n]

LEMMA PutCollectionRows ==
  ASSUME RowsOK, NEW w \in Workspaces, NEW c \in Collections,
         NEW r \in [Docs -> Rows \cup {NoRow}], NEW p \in [Docs -> Rows \cup {NoRow}],
         RowsPut(w, c, r, p)
  PROVE  /\ RowsOK'
         /\ rows'[w][c] = r /\ rows'[Production][c] = p
         /\ \A x \in AllWorkspaces, y \in Collections :
               (x # w /\ x # Production) \/ y # c => rows'[x][y] = rows[x][y]
<1>1. w # Production /\ w \in AllWorkspaces /\ Production \in AllWorkspaces
  BY ProductionAssumption DEF AllWorkspaces
<1>2. rows' = [x \in AllWorkspaces |->
                  IF x = w THEN [rows[w] EXCEPT ![c] = r]
                  ELSE IF x = Production THEN [rows[Production] EXCEPT ![c] = p] ELSE rows[x]]
  BY <1>1 DEF RowsOK, RowsPut
<1> DEFINE CR == [Collections -> [Docs -> Rows \cup {NoRow}]]
<1>3. \A x \in AllWorkspaces : rows[x] \in CR
  BY DEF RowsOK
<1>4. [rows[w] EXCEPT ![c] = r] \in CR /\ [rows[Production] EXCEPT ![c] = p] \in CR
  BY <1>1, <1>3
<1>5. RowsOK'
  BY <1>2, <1>3, <1>4 DEF RowsOK
<1> QED
  BY <1>1, <1>2, <1>3, <1>5

LEMMA PutCollectionMeta ==
  ASSUME MetaOK, NEW w \in Workspaces, NEW c \in Collections,
         NEW m \in Metas, NEW n \in Metas, MetaPut(w, c, m, n)
  PROVE  /\ MetaOK'
         /\ meta'[w][c] = m /\ meta'[Production][c] = n
         /\ \A x \in AllWorkspaces, y \in Collections :
               (x # w /\ x # Production) \/ y # c => meta'[x][y] = meta[x][y]
<1>1. w # Production /\ w \in AllWorkspaces /\ Production \in AllWorkspaces
  BY ProductionAssumption DEF AllWorkspaces
<1>2. meta' = [x \in AllWorkspaces |->
                  IF x = w THEN [meta[w] EXCEPT ![c] = m]
                  ELSE IF x = Production THEN [meta[Production] EXCEPT ![c] = n] ELSE meta[x]]
  BY <1>1 DEF MetaOK, MetaPut
<1> DEFINE CM == [Collections -> Metas]
<1>3. \A x \in AllWorkspaces : meta[x] \in CM
  BY DEF MetaOK
<1>4. [meta[w] EXCEPT ![c] = m] \in CM /\ [meta[Production] EXCEPT ![c] = n] \in CM
  BY <1>1, <1>3
<1>5. MetaOK'
  BY <1>2, <1>3, <1>4 DEF MetaOK
<1> QED
  BY <1>1, <1>2, <1>3, <1>5

\* A collection push, completed or aborted, that inserts the rows of ids and
\* gives production a meta row listing rows that were inserted.
LEMMA CollectionPush ==
  ASSUME IInv, NEW w \in Workspaces, NEW c \in Collections, NEW ids \in SUBSET Docs,
         NEW m \in Metas,
         rows' = PushCollectionRows(rows, w, c, ids),
         meta' = PushCollectionMeta(rows, meta, w, c, m),
         UNCHANGED <<versions, workspaces, collections>>,
         Agree(Copied(rows, w, c, ids), m)
  PROVE  IInv'
<1> DEFINE st == Stamped(rows, w, c)
           cp == Copied(rows, w, c, ids)
           ms == StampedMeta(rows, meta, w, c)
<1>1. /\ w \in AllWorkspaces /\ Production \in AllWorkspaces /\ w # Production
      /\ TypeOK /\ RowsOK /\ MetaOK
  BY WorkspaceIsAny, TypeSplit, ProductionAssumption DEF IInv, AllWorkspaces
<1>2. st \in [Docs -> Rows \cup {NoRow}]
  BY <1>1, StampedFacts
<1>3. cp \in [Docs -> Rows \cup {NoRow}]
  BY <1>2 DEF Copied
<1>4. ms \in Metas /\ Agree(st, ms) /\ Covers(st, ms)
  BY SourceStaysInOrder
<1>5. RowsPut(w, c, st, cp) /\ MetaPut(w, c, ms, m)
  BY DEF PushCollectionRows, PushCollectionMeta, RowsPut, MetaPut
<1>6. Agree(cp, m)
  OBVIOUS
<1> HIDE DEF st, cp, ms
<1>7. /\ RowsOK'
      /\ rows'[w][c] = st /\ rows'[Production][c] = cp
      /\ \A x \in AllWorkspaces, y \in Collections :
            (x # w /\ x # Production) \/ y # c => rows'[x][y] = rows[x][y]
  BY <1>1, <1>2, <1>3, <1>5, PutCollectionRows
<1>8. /\ MetaOK'
      /\ meta'[w][c] = ms /\ meta'[Production][c] = m
      /\ \A x \in AllWorkspaces, y \in Collections :
            (x # w /\ x # Production) \/ y # c => meta'[x][y] = meta[x][y]
  BY <1>1, <1>4, <1>5, PutCollectionMeta
<1>9. TypeOK'
  BY <1>1, <1>7, <1>8 DEF TypeOK, RowsOK, MetaOK
<1> QED
  BY <1>4, <1>6, <1>7, <1>8, <1>9, ProductionAssumption, StepByCollection

LEMMA PushCollectionKeepsIInv ==
  ASSUME IInv, NEW w \in Workspaces, NEW c \in Collections, PushCollection(w, c)
  PROVE  IInv'
<1>1. w \in AllWorkspaces /\ RowsOK /\ MetaOK
  BY WorkspaceIsAny, TypeSplit DEF IInv
<1>2. PICK s \in PushOrders(rows, meta, w, c) :
         /\ rows' = PushCollectionRows(rows, w, c, Range(s))
         /\ meta' = PushCollectionMeta(rows, meta, w, c, CopiedMeta(s))
  BY DEF PushCollection
<1>3. s \in Seq(Docs) /\ Range(s) = Present(rows, w, c)
  BY <1>1, <1>2, MetaType, PushOrdersFacts
<1>4. Range(s) \in SUBSET Docs
  BY <1>3 DEF Present
<1> DEFINE m == CopiedMeta(s)
<1>5. m \in Metas
  BY <1>3, OrderedType DEF CopiedMeta, Statuses
<1>6. m.sequence = s /\ \A d \in Range(s) : m.statuses[d] = "published"
  BY <1>4 DEF CopiedMeta, Ordered
<1>7. \A d \in Range(s) : /\ Copied(rows, w, c, Range(s))[d] # NoRow
                          /\ Copied(rows, w, c, Range(s))[d].status = "published"
  BY <1>1, <1>3, <1>4, StampedFacts DEF Copied, Present
<1> HIDE DEF m
<1>8. Agree(Copied(rows, w, c, Range(s)), m)
  BY <1>6, <1>7 DEF Agree
<1>9. UNCHANGED <<versions, workspaces, collections>>
  BY DEF PushCollection
<1>10. meta' = PushCollectionMeta(rows, meta, w, c, m)
  BY <1>2 DEF m
<1> QED
  BY <1>2, <1>4, <1>5, <1>8, <1>9, <1>10, CollectionPush

LEMMA PushCollectionAbortedKeepsIInv ==
  ASSUME IInv, NEW w \in Workspaces, NEW c \in Collections, PushCollectionAborted(w, c)
  PROVE  IInv'
<1>1. w \in AllWorkspaces /\ MetaOK
  BY WorkspaceIsAny, TypeSplit DEF IInv
<1>2. PICK s \in PushOrders(rows, meta, w, c) :
         /\ rows' = PushCollectionRows(rows, w, c, BeforeRepeat(s))
         /\ meta' = PushCollectionMeta(rows, meta, w, c, NoMeta)
  BY DEF PushCollectionAborted
<1>3. s \in Seq(Docs)
  BY <1>1, <1>2, MetaType, PushOrdersFacts
<1>4. BeforeRepeat(s) \in SUBSET Docs
  <2>1. \A i \in DOMAIN s : s[i] \in Docs
    BY <1>3, ElementOfSeq, LenProperties
  <2> QED
    BY <2>1 DEF BeforeRepeat
<1>5. Range(NoMeta.sequence) = {}
  BY DEF NoMeta, Range
<1>6. Agree(Copied(rows, w, c, BeforeRepeat(s)), NoMeta)
  BY <1>5 DEF Agree
<1>7. UNCHANGED <<versions, workspaces, collections>>
  BY DEF PushCollectionAborted
<1> QED
  BY <1>2, <1>4, <1>6, <1>7, NoMetaType, CollectionPush

LEMMA PushWorkspaceKeepsIInv ==
  ASSUME IInv, NEW w \in Workspaces, PushWorkspaceToProduction(w)
  PROVE  IInv'
<1>1. /\ w \in AllWorkspaces /\ Production \in AllWorkspaces
      /\ TypeOK /\ RowsOK /\ MetaOK
  BY WorkspaceIsAny, TypeSplit DEF IInv, AllWorkspaces
<1>2. /\ rows' = [rows EXCEPT ![Production] = rows[w]]
      /\ meta' = [meta EXCEPT ![Production] = meta[w]]
      /\ UNCHANGED <<versions, workspaces, collections>>
  BY DEF PushWorkspaceToProduction, PushWorkspace
<1>3. RowsOK' /\ MetaOK'
  BY <1>1, <1>2 DEF RowsOK, MetaOK
<1>4. TypeOK'
  BY <1>1, <1>2, <1>3 DEF TypeOK, RowsOK, MetaOK
<1>5. /\ rows'[Production] = rows[w] /\ meta'[Production] = meta[w]
      /\ \A x \in AllWorkspaces : x # Production => rows'[x] = rows[x] /\ meta'[x] = meta[x]
  BY <1>1, <1>2 DEF RowsOK, MetaOK
<1>6. \A c \in Collections : Agree(rows[w][c], meta[w][c])
  BY <1>1, IInvByCollection
<1> QED
  BY <1>4, <1>5, <1>6, ProductionAssumption, StepByCollection

\* A pulled collection: the rows in scope come from production, and each id
\* the workspace did not hold is listed, with production's status.
LEMMA PullKeepsIInv ==
  ASSUME IInv, NEW w \in Workspaces, NEW scope \in SUBSET (Collections \X Docs), NEW res,
         Pull(w, scope, res)
  PROVE  IInv'
<1> DEFINE in == Incoming(rows[w], rows[Production], scope, res)
<1>1. /\ w \in AllWorkspaces /\ Production \in AllWorkspaces
      /\ TypeOK /\ RowsOK /\ MetaOK
  BY WorkspaceIsAny, TypeSplit DEF IInv, AllWorkspaces
<1>2. PICK order \in PullOrders(rows[w], meta, w, in) : meta' = PullMeta(meta, w, in, rows[Production], order)
  BY DEF Pull
<1>3. rows' = PullRows(rows, w, in, rows[Production]) /\ UNCHANGED <<versions, workspaces, collections>>
  BY DEF Pull
<1>4. \A c \in Collections, d \in Docs : <<c, d>> \in in => rows[Production][c][d] # NoRow
  BY DEF Incoming
<1> DEFINE new(c) == Unlisted(rows[w], meta, w, in, c)
           pr(c)  == [d \in Docs |-> IF <<c, d>> \in in THEN rows[Production][c][d]
                                     ELSE rows[w][c][d]]
           st(c)  == [d \in Docs |-> IF <<c, d>> \in in THEN rows[Production][c][d].status
                                     ELSE meta[w][c].statuses[d]]
           pm(c)  == IF \A d \in Docs : <<c, d>> \notin in THEN meta[w][c]
                     ELSE Ordered(meta[w][c].sequence \o order[c], st(c))
<1>5. \A c \in Collections : order[c] \in Seq(Docs) /\ Range(order[c]) = new(c)
  <2> SUFFICES ASSUME NEW c \in Collections
               PROVE  order[c] \in Seq(Docs) /\ Range(order[c]) = new(c)
    OBVIOUS
  <2>1. order[c] \in Orderings(new(c))
    BY <1>2 DEF PullOrders
  <2>2. new(c) \in SUBSET Docs
    BY DEF Unlisted
  <2> QED
    BY <2>1, <2>2, OrderingsFacts
<1>6. \A c \in Collections : Agree(rows[w][c], meta[w][c]) /\ Covers(rows[w][c], meta[w][c])
  BY <1>1, IInvByCollection
<1>7. \A c \in Collections : /\ pr(c) \in [Docs -> Rows \cup {NoRow}]
                             /\ pm(c) \in Metas
                             /\ Agree(pr(c), pm(c)) /\ Covers(pr(c), pm(c))
  <2> SUFFICES ASSUME NEW c \in Collections
               PROVE  /\ pr(c) \in [Docs -> Rows \cup {NoRow}] /\ pm(c) \in Metas
                      /\ Agree(pr(c), pm(c)) /\ Covers(pr(c), pm(c))
    OBVIOUS
  <2> DEFINE q == meta[w][c].sequence
             o == order[c]
  <2>1. /\ meta[w][c] \in Metas /\ q \in Seq(Docs)
        /\ meta[w][c].statuses \in [Docs -> Statuses \cup {"none"}]
    BY <1>1, MetaType
  <2>2. pr(c) \in [Docs -> Rows \cup {NoRow}]
    BY <1>1 DEF RowsOK
  <2>3. \A d \in Docs : <<c, d>> \in in =>
           /\ rows[Production][c][d] # NoRow
           /\ rows[Production][c][d].status \in Statuses
    BY <1>1, <1>4, RowType
  <2>4. st(c) \in [Docs -> Statuses \cup {"none"}]
    BY <2>1, <2>3
  <2>5. o \in Seq(Docs) /\ Range(o) = new(c)
    BY <1>5
  <2>6. q \o o \in Seq(Docs) /\ Range(q \o o) = Range(q) \cup new(c)
    BY <2>1, <2>5, ConcatProperties, RangeConcatenation
  <2>7. \A d \in new(c) : d \in Docs /\ <<c, d>> \in in
    BY DEF Unlisted
  <2>8. \A d \in Docs : <<c, d>> \in in /\ rows[w][c][d] = NoRow /\ d \notin Range(q) => d \in new(c)
    BY DEF Unlisted
  <2>9. Agree(rows[w][c], meta[w][c]) /\ Covers(rows[w][c], meta[w][c])
    BY <1>6
  <2>10. Range(q) \subseteq Docs
    BY <2>1, RangeOfSeq
  <2>11. CASE \A d \in Docs : <<c, d>> \notin in
    <3>1. pm(c) = meta[w][c] /\ \A d \in Docs : pr(c)[d] = rows[w][c][d]
      BY <2>11
    <3> HIDE DEF pr, pm
    <3> QED
      BY <3>1, <2>1, <2>2, <2>9, <2>10 DEF Agree, Covers
  <2>12. CASE ~ \A d \in Docs : <<c, d>> \notin in
    <3> DEFINE n == Ordered(q \o o, st(c))
    <3>1. pm(c) = n
      BY <2>12
    <3>2. n \in Metas /\ n.sequence = q \o o /\ n.statuses = st(c)
      BY <2>4, <2>6, OrderedType DEF Ordered
    <3>3. \A d \in Docs : IF <<c, d>> \in in
                          THEN /\ pr(c)[d] = rows[Production][c][d]
                               /\ st(c)[d] = rows[Production][c][d].status
                          ELSE /\ pr(c)[d] = rows[w][c][d]
                               /\ st(c)[d] = meta[w][c].statuses[d]
      OBVIOUS
    <3> HIDE DEF in, new, pr, st, pm, n, q, o
    <3>4. Range(n.sequence) = Range(q) \cup new(c)
      BY <3>2, <2>6
    <3>5. \A d \in Range(q) : rows[w][c][d] # NoRow /\ rows[w][c][d].status = meta[w][c].statuses[d]
      BY <2>9 DEF Agree, q
    <3>6. \A d \in Docs : rows[w][c][d] # NoRow => d \in Range(q)
      BY <2>9 DEF Covers, q
    <3>7. Agree(pr(c), n)
      BY <3>2, <3>3, <3>4, <3>5, <2>3, <2>7, <2>10 DEF Agree
    <3>8. Covers(pr(c), n)
      BY <3>3, <3>4, <3>6, <2>8 DEF Covers, q
    <3> QED
      BY <3>1, <3>2, <3>7, <3>8, <2>2
  <2> QED
    BY <2>11, <2>12
<1>8. /\ rows' = [rows EXCEPT ![w] = [c \in Collections |-> pr(c)]]
      /\ meta' = [meta EXCEPT ![w] = [c \in Collections |-> pm(c)]]
  BY <1>2, <1>3 DEF PullRows, PullMeta
<1> HIDE DEF in, new, pr, st, pm
<1>9. RowsOK' /\ MetaOK'
  BY <1>1, <1>7, <1>8 DEF RowsOK, MetaOK
<1>10. TypeOK'
  BY <1>1, <1>3, <1>9 DEF TypeOK, RowsOK, MetaOK
<1>11. /\ \A c \in Collections : rows'[w][c] = pr(c) /\ meta'[w][c] = pm(c)
       /\ \A x \in AllWorkspaces : x # w => rows'[x] = rows[x] /\ meta'[x] = meta[x]
  BY <1>1, <1>8 DEF RowsOK, MetaOK
<1> QED
  BY <1>7, <1>10, <1>11, StepByCollection

\* An empty collection is in order.
LEMMA EmptyInOrder ==
  \A c \in Collections : Agree(NoRows[c], NoMeta) /\ Covers(NoRows[c], NoMeta)
<1>1. Range(NoMeta.sequence) = {}
  BY DEF NoMeta, Range
<1> QED
  BY <1>1 DEF Agree, Covers, NoRows

LEMMA CreateWorkspaceKeepsIInv ==
  ASSUME IInv, NEW w \in Workspaces, CreateWorkspace(w)
  PROVE  IInv'
<1>1. TypeOK
  BY DEF IInv
<1>2. TypeOK' /\ UNCHANGED <<rows, meta>>
  BY <1>1 DEF CreateWorkspace, TypeOK
<1> QED
  BY <1>2, StepByCollection

LEMMA DeleteWorkspaceKeepsIInv ==
  ASSUME IInv, NEW w \in Workspaces, DeleteWorkspace(w)
  PROVE  IInv'
<1>1. w \in AllWorkspaces /\ TypeOK /\ RowsOK /\ MetaOK
  BY WorkspaceIsAny, TypeSplit DEF IInv
<1>2. /\ rows' = [rows EXCEPT ![w] = NoRows] /\ meta' = [meta EXCEPT ![w] = NoMetas]
      /\ workspaces' = workspaces \ {w} /\ UNCHANGED <<versions, collections>>
  BY DEF DeleteWorkspace
<1>3. RowsOK' /\ MetaOK'
  BY <1>1, <1>2, NoMetaType DEF RowsOK, MetaOK, NoRows, NoMetas
<1>4. TypeOK'
  BY <1>1, <1>2, <1>3 DEF TypeOK, RowsOK, MetaOK
<1>5. /\ \A c \in Collections : rows'[w][c] = NoRows[c] /\ meta'[w][c] = NoMeta
      /\ \A x \in AllWorkspaces : x # w => rows'[x] = rows[x] /\ meta'[x] = meta[x]
  BY <1>1, <1>2 DEF RowsOK, MetaOK, NoMetas
<1> QED
  BY <1>4, <1>5, EmptyInOrder, StepByCollection

LEMMA CreateCollectionKeepsIInv ==
  ASSUME IInv, NEW c \in Collections, CreateCollection(c)
  PROVE  IInv'
<1> DEFINE m == Ordered(<<>>, NoMeta.statuses)
<1>1. TypeOK /\ RowsOK /\ MetaOK /\ Production \in AllWorkspaces
  BY TypeSplit DEF IInv, AllWorkspaces
<1>2. m \in Metas
  <2>1. <<>> \in Seq(Docs) /\ NoMeta.statuses \in [Docs -> Statuses \cup {"none"}]
    BY EmptySeq DEF NoMeta
  <2> QED
    BY <2>1, OrderedType
<1>3. Range(m.sequence) = {}
  BY DEF Ordered, Range
<1>4. /\ meta' = [meta EXCEPT ![Production][c] = m]
      /\ collections' = [collections EXCEPT ![c] = "live"]
      /\ UNCHANGED <<rows, versions, workspaces>>
  BY DEF CreateCollection
<1> HIDE DEF m
<1>5. MetaOK'
  BY <1>1, <1>2, <1>4, PutMeta
<1>6. TypeOK'
  BY <1>1, <1>4, <1>5 DEF TypeOK, RowsOK, MetaOK
<1>7. \A w \in AllWorkspaces, y \in Collections :
         \/ rows'[w][y] = rows[w][y] /\ meta'[w][y] = meta[w][y]
         \/ w = Production /\ meta'[w][y] = m
  BY <1>1, <1>4 DEF MetaOK
<1>8. \A r : Agree(r, m)
  BY <1>3 DEF Agree
<1> QED
  BY <1>6, <1>7, <1>8, ProductionAssumption, StepByCollection

LEMMA DeleteCollectionKeepsIInv ==
  ASSUME IInv, NEW c \in Collections, DeleteCollection(c)
  PROVE  IInv'
<1> DEFINE cleared == workspaces \cup {Production}
<1>1. TypeOK /\ RowsOK /\ MetaOK
  BY TypeSplit DEF IInv
<1>2. /\ rows' = [w \in AllWorkspaces |->
                    IF w \in cleared THEN [rows[w] EXCEPT ![c] = NoRows[c]] ELSE rows[w]]
      /\ meta' = [w \in AllWorkspaces |->
                    IF w \in cleared THEN [meta[w] EXCEPT ![c] = NoMeta] ELSE meta[w]]
      /\ collections' = [collections EXCEPT ![c] = "deleted"] /\ UNCHANGED <<versions, workspaces>>
  BY DEF DeleteCollection
<1> HIDE DEF cleared
<1>3. NoRows[c] \in [Docs -> Rows \cup {NoRow}]
  BY DEF NoRows
<1>4. RowsOK' /\ MetaOK'
  BY <1>1, <1>2, <1>3, NoMetaType DEF RowsOK, MetaOK
<1>5. TypeOK'
  BY <1>1, <1>2, <1>4 DEF TypeOK, RowsOK, MetaOK
<1>6. \A w \in AllWorkspaces, y \in Collections :
         \/ rows'[w][y] = rows[w][y] /\ meta'[w][y] = meta[w][y]
         \/ y = c /\ rows'[w][y] = NoRows[c] /\ meta'[w][y] = NoMeta
  BY <1>1, <1>2 DEF RowsOK, MetaOK
<1> QED
  BY <1>5, <1>6, EmptyInOrder, StepByCollection

-----------------------------------------------------------------------------
(* The theorems about states.                                              *)

LEMMA NextKeepsIInv == IInv /\ [Next]_vars => IInv'
<1> SUFFICES ASSUME IInv, [Next]_vars PROVE IInv'
  OBVIOUS
<1>1. ASSUME NEW w \in Workspaces, NEW c \in Collections, NEW d \in Docs, DocumentStep(w, c, d)
      PROVE  IInv'
  <2>1. ASSUME NEW v \in Values, CreateDocument(w, c, d, v) PROVE IInv'
    BY <2>1, CreateKeepsIInv
  <2>2. ASSUME NEW v \in Values, UpdateDocument(w, c, d, v) PROVE IInv'
    BY <2>2, UpdateKeepsIInv
  <2>3. ASSUME NEW v \in Values, RestoreVersion(w, c, d, v) PROVE IInv'
    BY <2>3, RestoreKeepsIInv
  <2>4. CASE UpdateWithoutEffect(w, c, d)
    BY <2>4, UpdateWithoutEffectKeepsIInv
  <2>5. CASE UpdateDocumentStatus(w, c, d)
    BY <2>5, StatusKeepsIInv
  <2>6. CASE DeleteDocument(w, c, d)
    BY <2>6, DeleteKeepsIInv
  <2>7. CASE PushDocument(w, c, d)
    BY <2>7, PushDocumentKeepsIInv
  <2>8. CASE PullDocument(w, c, d)
    <3>1. Pull(w, {<<c, d>>}, {<<c, d>>})
      BY <2>8 DEF PullDocument
    <3> QED
      BY <3>1, PullKeepsIInv
  <2> QED
    BY <1>1, <2>1, <2>2, <2>3, <2>4, <2>5, <2>6, <2>7, <2>8 DEF DocumentStep
<1>2. ASSUME NEW w \in Workspaces, NEW c \in Collections, CollectionStep(w, c)
      PROVE  IInv'
  <2>1. CASE PushCollection(w, c)
    BY <2>1, PushCollectionKeepsIInv
  <2>2. CASE PushCollectionAborted(w, c)
    BY <2>2, PushCollectionAbortedKeepsIInv
  <2>3. CASE PullCollection(w, c)
    <3>1. PICK res \in SUBSET ({c} \X Docs) : Pull(w, {c} \X Docs, res)
      BY <2>3 DEF PullCollection
    <3> QED
      BY <3>1, PullKeepsIInv
  <2> QED
    BY <1>2, <2>1, <2>2, <2>3 DEF CollectionStep
<1>3. ASSUME NEW w \in Workspaces, WorkspaceStep(w)
      PROVE  IInv'
  <2>1. CASE CreateWorkspace(w)
    BY <2>1, CreateWorkspaceKeepsIInv
  <2>2. CASE DeleteWorkspace(w)
    BY <2>2, DeleteWorkspaceKeepsIInv
  <2>3. CASE PushWorkspaceToProduction(w)
    BY <2>3, PushWorkspaceKeepsIInv
  <2>4. CASE PullWorkspace(w)
    <3>1. PICK res \in SUBSET (Collections \X Docs) : Pull(w, Collections \X Docs, res)
      BY <2>4 DEF PullWorkspace
    <3> QED
      BY <3>1, PullKeepsIInv
  <2> QED
    BY <1>3, <2>1, <2>2, <2>3, <2>4 DEF WorkspaceStep
<1>4. ASSUME NEW c \in Collections, CreateCollection(c) \/ DeleteCollection(c)
      PROVE  IInv'
  BY <1>4, CreateCollectionKeepsIInv, DeleteCollectionKeepsIInv
<1>5. CASE UNCHANGED vars
  <2>1. TypeOK'
    BY <1>5 DEF vars, TypeOK, IInv
  <2> QED
    BY <1>5, <2>1, StepByCollection DEF vars
<1> QED
  BY <1>1, <1>2, <1>3, <1>4, <1>5 DEF Next

\* The inductive invariant holds in every reachable state.
THEOREM InvariantHolds == Spec => []IInv
<1>1. Init => IInv
  BY InitIInv
<1>2. IInv /\ [Next]_vars => IInv'
  BY NextKeepsIInv
<1> QED
  BY <1>1, <1>2, PTL DEF Spec

\* The tables keep their types and no document exceeds the version limit.
THEOREM TypeCorrect == Spec => []TypeOK
<1>1. IInv => TypeOK
  BY DEF IInv
<1> QED
  BY <1>1, InvariantHolds, PTL

\* The two stored copies of a document's status never disagree, and a listed
\* document has a row, whatever handlers run in whatever order.
THEOREM StatusCopiesAgree == Spec => []ListedDocumentsAgree
<1>1. IInv => ListedDocumentsAgree
  BY DEF IInv
<1> QED
  BY <1>1, InvariantHolds, PTL

\* No handler leaves a document in an editable workspace that its collection
\* does not list.
THEOREM NothingHidden == Spec => []NoHiddenDocuments
<1>1. IInv => NoHiddenDocuments
  BY DEF IInv
<1> QED
  BY <1>1, InvariantHolds, PTL

-----------------------------------------------------------------------------
(* What one step does to the rows: of a workspace that authors edit, and   *)
(* of production.                                                          *)

Kept(w, c, d) == rows'[w][c][d] = rows[w][c][d]
Gone(w, c, d) == rows'[w][c][d] = NoRow

Pulled(w, c, d) ==
    /\ rows'[w][c][d] = rows[Production][c][d]
    /\ rows'[Production][c][d] = rows[Production][c][d]

Published(w, c, d) ==
    /\ rows[w][c][d] # NoRow
    /\ rows'[w][c][d] = [rows[w][c][d] EXCEPT !.status = "published"]

\* A push that completes leaves the same row in production; only one that
\* meets an id listed twice does not.
Pushed(w, c, d) ==
    /\ Published(w, c, d)
    /\ rows'[Production][c][d] = rows'[w][c][d] \/ ~SequencesAreUnique

Created(w, c, d) ==
    /\ Live(c)
    /\ rows'[w][c][d].status = "draft"
    /\ meta'[w][c].sequence # meta[w][c].sequence

Edited(w, c, d) ==
    /\ rows[w][c][d] # NoRow
    /\ rows'[w][c][d].status \in {"draft", rows[w][c][d].status}
    /\ SaveVersion(w, c, d)

Drafted(w, c, d) ==
    /\ rows[w][c][d] # NoRow
    /\ rows'[w][c][d].status = "draft" /\ rows'[w][c][d].data = rows[w][c][d].data

RowStep(w, c, d) ==
    \/ Kept(w, c, d) \/ Gone(w, c, d) \/ Pulled(w, c, d) \/ Pushed(w, c, d)
    \/ Created(w, c, d) \/ Edited(w, c, d) \/ Drafted(w, c, d)

\* Production gets the row of some workspace, which keeps its data.
Copy(w, c, d) ==
    /\ rows[w][c][d] # NoRow
    /\ rows[w][c][d].data = rows'[Production][c][d].data
    /\ rows'[w][c][d] = rows'[Production][c][d]

ProductionStep(c, d) ==
    \/ Kept(Production, c, d) \/ Gone(Production, c, d)
    \/ \E w \in Workspaces : Copy(w, c, d)

\* What one step does to the order of a workspace, and to production's.
SameOrder(w, c) == meta'[w][c].sequence = meta[w][c].sequence

OrderStep(w, c) ==
    LET old == meta[w][c].sequence
        new == meta'[w][c].sequence
    IN  \/ SameOrder(w, c)
        \/ new = <<>>
        \/ \E d \in Docs : (d \notin Range(old) \/ ResentCreates) /\ new = Append(old, d)
        \/ \E S : new \in Selected(old, S)
        \/ \E S \in SUBSET Docs : \E o \in Orderings(S) :
              S \cap Range(old) = {} /\ new = old \o o

ProductionOrderStep(c) ==
    LET old == meta[Production][c].sequence
        new == meta'[Production][c].sequence
    IN  \/ SameOrder(Production, c)
        \/ new = <<>>
        \/ \E d \in Docs : d \notin Range(old) /\ new = Append(old, d)
        \/ \E w \in Workspaces : new = meta[w][c].sequence
        \/ \E w \in Workspaces : new \in PushOrders(rows, meta, w, c) /\ IsInjective(new)

\* Production's rows stay listed, but for an aborted push, and for the empty
\* order a new collection gets whatever rows there are under its id.
CoverStep(c) ==
    Covers(rows[Production][c], meta[Production][c])
    => \/ Covers(rows'[Production][c], meta'[Production][c])
       \/ ~SequencesAreUnique
       \/ collections[c] = "unused" /\ rows'[Production][c] = rows[Production][c]

OnlyIn(w) == \A x \in Workspaces : x # w => rows'[x] = rows[x]

StepFacts ==
    /\ \A w \in Workspaces, c \in Collections :
          OrderStep(w, c) /\ \A d \in Docs : RowStep(w, c, d)
    /\ \A c \in Collections :
          /\ ProductionOrderStep(c) /\ CoverStep(c)
          /\ \A d \in Docs : ProductionStep(c, d)
          /\ collections'[c] = "unused" => collections[c] = "unused"
    /\ collections' # collections \/ \E w \in AllWorkspaces : OnlyIn(w)

-----------------------------------------------------------------------------
(* Orders without repetition.                                              *)

LEMMA SelectedOrder ==
  ASSUME NEW s \in Seq(Docs), NEW S, NEW t \in Selected(s, S)
  PROVE  /\ IsInjective(s) => IsInjective(t)
         /\ \A a, b : Before(t, a, b) => Before(s, a, b)
<1> DEFINE kept == {i \in DOMAIN s : s[i] \in S}
           n    == Cardinality(kept)
<1>1. PICK f \in [1 .. n -> kept] : /\ Range(f) = kept
                                    /\ \A i, j \in DOMAIN f : i < j => f[i] < f[j]
                                    /\ t = [i \in 1 .. n |-> s[f[i]]]
  BY DEF Selected
<1>2. kept \subseteq DOMAIN s /\ \A i \in kept : i \in Nat
  BY LenProperties
<1>3. n \in Nat
  <2>1. DOMAIN s = 1 .. Len(s) /\ Len(s) \in Nat
    BY LenProperties
  <2>2. IsFiniteSet(1 .. Len(s))
    BY <2>1, FS_Interval
  <2>3. kept \subseteq 1 .. Len(s)
    BY <2>1
  <2> QED
    BY <2>2, <2>3, FS_Subset, FS_CardinalityType
<1> HIDE DEF n, kept
<1>4. \A i, j \in 1 .. n : f[i] = f[j] => i = j
  <2> SUFFICES ASSUME NEW i \in 1 .. n, NEW j \in 1 .. n, f[i] = f[j], i # j
               PROVE  FALSE
    OBVIOUS
  <2>1. i < j \/ j < i
    BY <1>3
  <2>2. f[i] \in Nat /\ f[j] \in Nat
    BY <1>1, <1>2
  <2> QED
    BY <1>1, <2>1, <2>2
<1>5. DOMAIN t = 1 .. n /\ \A i \in 1 .. n : t[i] = s[f[i]] /\ f[i] \in DOMAIN s
  BY <1>1, <1>2
<1>6. IsInjective(s) => IsInjective(t)
  BY <1>4, <1>5 DEF IsInjective
<1>7. ASSUME NEW a, NEW b, Before(t, a, b)
      PROVE  Before(s, a, b)
  BY <1>1, <1>5, <1>7 DEF Before
<1> QED
  BY <1>6, <1>7

LEMMA OrderingsUnique ==
  ASSUME NEW S \in SUBSET Docs, NEW t \in Orderings(S)
  PROVE  IsInjective(t)
<1> DEFINE n == Cardinality(S)
<1>1. IsFiniteSet(S) /\ n \in Nat
  BY DocsAssumption, FS_Subset, FS_CardinalityType
<1>2. IsFiniteSet(1 .. n) /\ Cardinality(1 .. n) = n
  BY <1>1, FS_Interval
<1>3. t \in Surjection(1 .. n, S)
  BY DEF Orderings, Surjection, Range
<1>4. t \in Injection(1 .. n, S)
  BY <1>1, <1>2, <1>3, FS_SurjSameCardinalityImpliesInj
<1> QED
  BY <1>4 DEF Injection

LEMMA ConcatUnique ==
  ASSUME NEW a \in Seq(Docs), NEW b \in Seq(Docs), IsInjective(a), IsInjective(b),
         Range(a) \cap Range(b) = {}
  PROVE  IsInjective(a \o b)
<1> DEFINE m == Len(a)
           n == Len(b)
           s == a \o b
<1>1. /\ m \in Nat /\ n \in Nat /\ DOMAIN a = 1 .. m /\ DOMAIN b = 1 .. n
      /\ s \in Seq(Docs) /\ Len(s) = m + n
      /\ \A i \in 1 .. m + n : s[i] = IF i <= m THEN a[i] ELSE b[i - m]
  BY LenProperties, ConcatProperties
<1>2. DOMAIN s = 1 .. m + n
  BY <1>1, LenProperties
<1>3. \A i \in 1 .. m, j \in 1 .. n : a[i] # b[j]
  BY <1>1 DEF Range
<1> HIDE DEF m, n, s
<1>4. ASSUME NEW i \in 1 .. m + n, NEW j \in 1 .. m + n, s[i] = s[j]
      PROVE  i = j
  <2>1. CASE i <= m /\ j <= m
    <3>1. i \in DOMAIN a /\ j \in DOMAIN a /\ a[i] = a[j]
      BY <1>1, <1>4, <2>1
    <3> QED
      BY <3>1 DEF IsInjective
  <2>2. CASE ~(i <= m) /\ ~(j <= m)
    <3>1. i - m \in DOMAIN b /\ j - m \in DOMAIN b /\ b[i - m] = b[j - m]
      BY <1>1, <1>4, <2>2
    <3>2. i - m = j - m
      BY <3>1 DEF IsInjective
    <3> QED
      BY <1>1, <3>2
  <2>3. CASE i <= m /\ ~(j <= m)
    <3>1. i \in 1 .. m /\ j - m \in 1 .. n /\ a[i] = b[j - m]
      BY <1>1, <1>4, <2>3
    <3> QED
      BY <1>3, <3>1
  <2>4. CASE ~(i <= m) /\ j <= m
    <3>1. j \in 1 .. m /\ i - m \in 1 .. n /\ a[j] = b[i - m]
      BY <1>1, <1>4, <2>4
    <3> QED
      BY <1>3, <3>1
  <2> QED
    BY <2>1, <2>2, <2>3, <2>4
<1>5. IsInjective(s)
  BY <1>2, <1>4 DEF IsInjective
<1> QED
  BY <1>5 DEF s

LEMMA AppendUnique ==
  ASSUME NEW s \in Seq(Docs), NEW d \in Docs, IsInjective(s), d \notin Range(s)
  PROVE  IsInjective(Append(s, d))
<1> DEFINE n == Len(s)
           t == Append(s, d)
<1>1. /\ n \in Nat /\ DOMAIN s = 1 .. n
      /\ t \in Seq(Docs) /\ Len(t) = n + 1 /\ t[n + 1] = d
      /\ \A i \in 1 .. n : t[i] = s[i]
  BY LenProperties, AppendProperties
<1>2. DOMAIN t = 1 .. n + 1
  BY <1>1, LenProperties
<1>3. \A i \in 1 .. n : s[i] # d
  BY <1>1 DEF Range
<1>4. \A i, j \in 1 .. n : s[i] = s[j] => i = j
  BY <1>1 DEF IsInjective
<1> HIDE DEF n, t
<1>5. \A i, j \in 1 .. n + 1 : t[i] = t[j] => i = j
  <2> SUFFICES ASSUME NEW i \in 1 .. n + 1, NEW j \in 1 .. n + 1, t[i] = t[j]
               PROVE  i = j
    OBVIOUS
  <2>1. (i \in 1 .. n \/ i = n + 1) /\ (j \in 1 .. n \/ j = n + 1)
    BY <1>1
  <2> QED
    BY <1>1, <1>3, <1>4, <2>1
<1>6. IsInjective(t)
  BY <1>2, <1>5 DEF IsInjective
<1> QED
  BY <1>6 DEF t

\* A collection whose source lists nothing twice is copied whole; where the
\* source lists every row it has, production gets the source's order.
LEMMA PushOrdersOrder ==
  ASSUME NEW R, NEW M, NEW w, NEW c, M[w][c].sequence \in Seq(Docs),
         NEW s \in PushOrders(R, M, w, c)
  PROVE  /\ IsInjective(M[w][c].sequence) => IsInjective(s)
         /\ Present(R, w, c) \subseteq Range(M[w][c].sequence)
               => \A a, b : Before(s, a, b) => Before(M[w][c].sequence, a, b)
<1> DEFINE P == Present(R, w, c)
           q == M[w][c].sequence
<1>1. PICK a \in Selected(q, P), b \in Orderings(P \ Range(q)) : s = a \o b
  BY DEF PushOrders
<1>2. a \in Seq(Docs) /\ Range(a) = Range(q) \cap P
  BY <1>1, SelectedFacts
<1>3. P \ Range(q) \in SUBSET Docs
  BY DEF Present
<1>4. b \in Seq(Docs) /\ Range(b) = P \ Range(q) /\ IsInjective(b)
  BY <1>1, <1>3, OrderingsFacts, OrderingsUnique
<1> HIDE DEF P, q
<1>5. IsInjective(q) => IsInjective(s)
  <2>1. IsInjective(q) => IsInjective(a)
    BY <1>1, SelectedOrder DEF q
  <2>2. Range(a) \cap Range(b) = {}
    BY <1>2, <1>4
  <2> QED
    BY <1>1, <1>2, <1>4, <2>1, <2>2, ConcatUnique
<1>6. ASSUME P \subseteq Range(q)
      PROVE  \A x, y : Before(s, x, y) => Before(q, x, y)
  <2>1. Range(b) = {}
    BY <1>4, <1>6
  <2>2. b = <<>>
    <3>1. DOMAIN b = {}
      BY <2>1 DEF Range
    <3>2. DOMAIN b = 1 .. Len(b) /\ Len(b) \in Nat
      BY <1>4, LenProperties
    <3>3. Len(b) = 0
      BY <3>1, <3>2
    <3> QED
      BY <1>4, <3>3, EmptySeq
  <2>3. s = a
    BY <1>1, <1>2, <2>2, ConcatEmptySeq
  <2> QED
    BY <1>1, <2>3, SelectedOrder DEF q
<1> QED
  BY <1>5, <1>6 DEF P, q

-----------------------------------------------------------------------------
(* Each handler does to rows and orders what StepFacts says.               *)

\* A handler that touches one workspace only.
LEMMA LocalStep ==
  ASSUME NEW w \in Workspaces, UNCHANGED collections,
         \A x \in AllWorkspaces : x # w => rows'[x] = rows[x] /\ meta'[x] = meta[x],
         \A c \in Collections : OrderStep(w, c) /\ \A d \in Docs : RowStep(w, c, d)
  PROVE  StepFacts
<1>1. Production \in AllWorkspaces /\ Production # w
  BY ProductionAssumption DEF AllWorkspaces
<1>2. OnlyIn(w) /\ w \in AllWorkspaces
  BY WorkspaceIsAny DEF OnlyIn
<1>3. \A x \in Workspaces, c \in Collections :
         OrderStep(x, c) /\ \A d \in Docs : RowStep(x, c, d)
  <2> SUFFICES ASSUME NEW x \in Workspaces, NEW c \in Collections, x # w
               PROVE  OrderStep(x, c) /\ \A d \in Docs : RowStep(x, c, d)
    OBVIOUS
  <2>1. rows'[x] = rows[x] /\ meta'[x] = meta[x]
    BY WorkspaceIsAny
  <2> QED
    BY <2>1 DEF OrderStep, SameOrder, RowStep, Kept
<1>4. \A c \in Collections : /\ ProductionOrderStep(c) /\ CoverStep(c)
                             /\ \A d \in Docs : ProductionStep(c, d)
                             /\ collections'[c] = "unused" => collections[c] = "unused"
  <2>1. rows'[Production] = rows[Production] /\ meta'[Production] = meta[Production]
    BY <1>1
  <2> QED
    BY <2>1 DEF ProductionOrderStep, SameOrder, CoverStep, ProductionStep, Kept
<1> QED
  BY <1>2, <1>3, <1>4 DEF StepFacts

\* A handler that touches one row and its collection's meta row.
LEMMA CellStep ==
  ASSUME RowsOK, MetaOK, NEW w \in Workspaces, NEW c \in Collections, NEW d \in Docs,
         NEW r, NEW m, UNCHANGED collections,
         rows' = [rows EXCEPT ![w][c][d] = r], meta' = [meta EXCEPT ![w][c] = m],
         OrderStep(w, c), RowStep(w, c, d)
  PROVE  StepFacts
<1>1. w \in AllWorkspaces
  BY WorkspaceIsAny
<1>2. \A x \in AllWorkspaces : x # w => rows'[x] = rows[x] /\ meta'[x] = meta[x]
  BY DEF RowsOK, MetaOK
<1>3. \A y \in Collections : y # c => rows'[w][y] = rows[w][y] /\ meta'[w][y] = meta[w][y]
  BY <1>1 DEF RowsOK, MetaOK
<1>4. \A e \in Docs : e # d => rows'[w][c][e] = rows[w][c][e]
  BY <1>1 DEF RowsOK
<1>5. \A y \in Collections : OrderStep(w, y) /\ \A e \in Docs : RowStep(w, y, e)
  <2> SUFFICES ASSUME NEW y \in Collections
               PROVE  OrderStep(w, y) /\ \A e \in Docs : RowStep(w, y, e)
    OBVIOUS
  <2>1. CASE y = c
    <3>1. \A e \in Docs : e # d => RowStep(w, c, e)
      BY <1>4 DEF RowStep, Kept
    <3> QED
      BY <2>1, <3>1
  <2>2. CASE y # c
    BY <1>3, <2>2 DEF OrderStep, SameOrder, RowStep, Kept
  <2> QED
    BY <2>1, <2>2
<1> QED
  BY <1>2, <1>5, LocalStep

\* The row and the meta row such a handler leaves.
LEMMA RowAfter ==
  ASSUME RowsOK, NEW w \in AllWorkspaces, NEW c \in Collections, NEW d \in Docs, NEW r,
         rows' = [rows EXCEPT ![w][c][d] = r]
  PROVE  rows'[w][c][d] = r
BY DEF RowsOK

LEMMA MetaAfter ==
  ASSUME MetaOK, NEW w \in AllWorkspaces, NEW c \in Collections, NEW m,
         meta' = [meta EXCEPT ![w][c] = m]
  PROVE  meta'[w][c] = m
BY DEF MetaOK

LEMMA CreateStep ==
  ASSUME IInv, NEW w \in Workspaces, NEW c \in Collections, NEW d \in Docs, NEW v \in Values,
         CreateDocument(w, c, d, v)
  PROVE  StepFacts
<1> DEFINE q == Append(meta[w][c].sequence, d)
           m == Ordered(q, [meta[w][c].statuses EXCEPT ![d] = "draft"])
<1>1. w \in AllWorkspaces /\ RowsOK /\ MetaOK /\ meta[w][c].sequence \in Seq(Docs)
  BY WorkspaceIsAny, TypeSplit, MetaType DEF IInv
<1>2. /\ rows' = [rows EXCEPT ![w][c][d] = Draft(v)] /\ meta' = [meta EXCEPT ![w][c] = m]
      /\ UNCHANGED collections /\ Live(c)
      /\ ResentCreates \/ d \notin Range(meta[w][c].sequence)
  BY DEF CreateDocument
<1>3. m.sequence = q
  BY DEF Ordered
<1> HIDE DEF m
<1>4. rows'[w][c][d] = Draft(v) /\ meta'[w][c] = m
  BY <1>1, <1>2, RowAfter, MetaAfter
<1>5. OrderStep(w, c)
  BY <1>2, <1>3, <1>4 DEF OrderStep
<1>6. q # meta[w][c].sequence
  BY <1>1, AppendProperties, LenProperties
<1>7. RowStep(w, c, d)
  BY <1>2, <1>3, <1>4, <1>6, DraftType DEF RowStep, Created
<1> QED
  BY <1>1, <1>2, <1>5, <1>7, CellStep

LEMMA UpdateStep ==
  ASSUME IInv, NEW w \in Workspaces, NEW c \in Collections, NEW d \in Docs, NEW v \in Values,
         UpdateDocument(w, c, d, v)
  PROVE  StepFacts
<1> DEFINE old == rows[w][c][d]
           m   == IF old.status = "published"
                  THEN Ordered(meta[w][c].sequence, [meta[w][c].statuses EXCEPT ![d] = "draft"])
                  ELSE meta[w][c]
           r   == [data |-> v, status |-> IF old.status = "published" THEN "draft" ELSE old.status]
<1>1. w \in AllWorkspaces /\ RowsOK /\ MetaOK
  BY WorkspaceIsAny, TypeSplit DEF IInv
<1>2. /\ rows' = [rows EXCEPT ![w][c][d] = r] /\ UNCHANGED collections
      /\ SaveVersion(w, c, d) /\ old # NoRow
  BY DEF UpdateDocument, Editable
<1>3. meta' = [meta EXCEPT ![w][c] = m]
  BY <1>1 DEF UpdateDocument, MetaOK
<1>4. m.sequence = meta[w][c].sequence /\ r.status \in {"draft", old.status}
  BY DEF Ordered
<1> HIDE DEF m, r
<1>5. rows'[w][c][d] = r /\ meta'[w][c] = m
  BY <1>1, <1>2, <1>3, RowAfter, MetaAfter
<1>6. OrderStep(w, c)
  BY <1>4, <1>5 DEF OrderStep, SameOrder
<1>7. RowStep(w, c, d)
  BY <1>2, <1>4, <1>5 DEF RowStep, Edited
<1> QED
  BY <1>1, <1>2, <1>3, <1>6, <1>7, CellStep

LEMMA StatusStep ==
  ASSUME IInv, NEW w \in Workspaces, NEW c \in Collections, NEW d \in Docs,
         UpdateDocumentStatus(w, c, d)
  PROVE  StepFacts
<1> DEFINE m == Ordered(meta[w][c].sequence, [meta[w][c].statuses EXCEPT ![d] = "draft"])
           r == [rows[w][c][d] EXCEPT !.status = "draft"]
<1>1. w \in AllWorkspaces /\ RowsOK /\ MetaOK
  BY WorkspaceIsAny, TypeSplit DEF IInv
<1>2. /\ rows' = [rows EXCEPT ![w][c][d] = r] /\ meta' = [meta EXCEPT ![w][c] = m]
      /\ UNCHANGED collections /\ rows[w][c][d] # NoRow
  BY <1>1 DEF UpdateDocumentStatus, Editable, RowsOK
<1>3. rows[w][c][d] \in Rows
  BY <1>1, <1>2, RowType
<1>4. m.sequence = meta[w][c].sequence /\ r.status = "draft" /\ r.data = rows[w][c][d].data
  BY <1>3 DEF Ordered, Rows
<1> HIDE DEF m, r
<1>5. rows'[w][c][d] = r /\ meta'[w][c] = m
  BY <1>1, <1>2, RowAfter, MetaAfter
<1>6. OrderStep(w, c) /\ RowStep(w, c, d)
  BY <1>2, <1>4, <1>5 DEF OrderStep, SameOrder, RowStep, Drafted
<1> QED
  BY <1>1, <1>2, <1>6, CellStep

LEMMA DeleteStep ==
  ASSUME IInv, NEW w \in Workspaces, NEW c \in Collections, NEW d \in Docs,
         DeleteDocument(w, c, d)
  PROVE  StepFacts
<1>1. w \in AllWorkspaces /\ RowsOK /\ MetaOK
  BY WorkspaceIsAny, TypeSplit DEF IInv
<1> DEFINE st == [meta[w][c].statuses EXCEPT ![d] = "none"]
<1>2. PICK s \in Selected(meta[w][c].sequence, Docs \ {d}) :
         meta' = [meta EXCEPT ![w][c] = Ordered(s, st)]
  BY DEF DeleteDocument
<1> DEFINE m == Ordered(s, st)
<1>3. rows' = [rows EXCEPT ![w][c][d] = NoRow] /\ UNCHANGED collections
  BY DEF DeleteDocument
<1>4. m.sequence = s
  BY DEF Ordered
<1>5. meta' = [meta EXCEPT ![w][c] = m]
  BY <1>2
<1> HIDE DEF m, st
<1>6. rows'[w][c][d] = NoRow /\ meta'[w][c] = m
  BY <1>1, <1>3, <1>5, RowAfter, MetaAfter
<1>7. OrderStep(w, c)
  BY <1>2, <1>4, <1>6 DEF OrderStep
<1>8. RowStep(w, c, d)
  BY <1>6 DEF RowStep, Gone
<1> QED
  BY <1>1, <1>3, <1>5, <1>7, <1>8, CellStep

LEMMA RestoreStep ==
  ASSUME IInv, NEW w \in Workspaces, NEW c \in Collections, NEW d \in Docs, NEW v \in Values,
         RestoreVersion(w, c, d, v)
  PROVE  StepFacts
<1> DEFINE r == [rows[w][c][d] EXCEPT !.data = v]
<1>1. w \in AllWorkspaces /\ RowsOK /\ MetaOK
  BY WorkspaceIsAny, TypeSplit DEF IInv
<1>2. /\ rows' = [rows EXCEPT ![w][c][d] = r] /\ UNCHANGED <<meta, collections>>
      /\ rows[w][c][d] # NoRow /\ SaveVersion(w, c, d)
  BY <1>1 DEF RestoreVersion, RowsOK
<1>3. r.status = rows[w][c][d].status
  BY <1>1, <1>2, RowType DEF Rows
<1>4. meta' = [meta EXCEPT ![w][c] = meta[w][c]]
  BY <1>1, <1>2 DEF MetaOK
<1> HIDE DEF r
<1>5. rows'[w][c][d] = r
  BY <1>1, <1>2, RowAfter, MetaAfter
<1>6. OrderStep(w, c)
  BY <1>2 DEF OrderStep, SameOrder
<1>7. RowStep(w, c, d)
  BY <1>2, <1>3, <1>5 DEF RowStep, Edited
<1> QED
  BY <1>1, <1>2, <1>4, <1>6, <1>7, CellStep

\* Handlers that change neither rows nor orders.
LEMMA IdleStep ==
  ASSUME UNCHANGED <<rows, meta, collections>>
  PROVE  StepFacts
<1>1. rows' = rows /\ meta' = meta /\ collections' = collections
  OBVIOUS
<1>2. OnlyIn(Production) /\ Production \in AllWorkspaces
  BY <1>1 DEF OnlyIn, AllWorkspaces
<1>3. \A w \in Workspaces, c \in Collections :
         OrderStep(w, c) /\ \A d \in Docs : RowStep(w, c, d)
  BY <1>1 DEF OrderStep, SameOrder, RowStep, Kept
<1>4. \A c \in Collections : /\ ProductionOrderStep(c) /\ CoverStep(c)
                             /\ \A d \in Docs : ProductionStep(c, d)
                             /\ collections'[c] = "unused" => collections[c] = "unused"
  BY <1>1 DEF ProductionOrderStep, SameOrder, CoverStep, ProductionStep, Kept
<1> QED
  BY <1>2, <1>3, <1>4 DEF StepFacts

LEMMA PullStep ==
  ASSUME IInv, NEW w \in Workspaces, NEW scope \in SUBSET (Collections \X Docs), NEW res,
         Pull(w, scope, res)
  PROVE  StepFacts
<1> DEFINE in == Incoming(rows[w], rows[Production], scope, res)
<1>1. /\ w \in AllWorkspaces /\ Production \in AllWorkspaces /\ w # Production /\ RowsOK /\ MetaOK
  BY WorkspaceIsAny, TypeSplit, ProductionAssumption DEF IInv, AllWorkspaces
<1>2. PICK order \in PullOrders(rows[w], meta, w, in) : meta' = PullMeta(meta, w, in, rows[Production], order)
  BY DEF Pull
<1>3. rows' = PullRows(rows, w, in, rows[Production]) /\ UNCHANGED collections
  BY DEF Pull
<1>4. \A x \in AllWorkspaces : x # w => rows'[x] = rows[x] /\ meta'[x] = meta[x]
  BY <1>1, <1>2, <1>3 DEF RowsOK, MetaOK, PullRows, PullMeta
<1> SUFFICES ASSUME NEW c \in Collections
             PROVE  OrderStep(w, c) /\ \A d \in Docs : RowStep(w, c, d)
  BY <1>3, <1>4, LocalStep
<1>5. \A d \in Docs : rows'[w][c][d] = IF <<c, d>> \in in THEN rows[Production][c][d] ELSE rows[w][c][d]
  BY <1>1, <1>3 DEF RowsOK, PullRows
<1>6. rows'[Production] = rows[Production]
  BY <1>1, <1>4
<1> HIDE DEF in
<1>7. \A d \in Docs : RowStep(w, c, d)
  BY <1>5, <1>6 DEF RowStep, Kept, Pulled
<1> DEFINE st == [d \in Docs |-> IF <<c, d>> \in in THEN rows[Production][c][d].status
                                 ELSE meta[w][c].statuses[d]]
           q  == meta[w][c].sequence
<1>8. meta'[w][c] = IF \A d \in Docs : <<c, d>> \notin in THEN meta[w][c]
                    ELSE Ordered(q \o order[c], st)
  BY <1>1, <1>2 DEF MetaOK, PullMeta
<1>9. \/ meta'[w][c].sequence = q
      \/ meta'[w][c].sequence = q \o order[c]
  <2>1. CASE \A d \in Docs : <<c, d>> \notin in
    BY <1>8, <2>1
  <2>2. CASE ~ \A d \in Docs : <<c, d>> \notin in
    <3>1. meta'[w][c] = Ordered(q \o order[c], st)
      BY <1>8, <2>2
    <3> HIDE DEF st, q
    <3> QED
      BY <3>1 DEF Ordered
  <2> QED
    BY <2>1, <2>2
<1> DEFINE S == Unlisted(rows[w], meta, w, in, c)
<1>10. S \in SUBSET Docs /\ S \cap Range(q) = {} /\ order[c] \in Orderings(S)
  BY <1>2 DEF PullOrders, Unlisted
<1> HIDE DEF S, st
<1>11. OrderStep(w, c)
  BY <1>9, <1>10 DEF OrderStep, SameOrder
<1> QED
  BY <1>7, <1>11

LEMMA DeleteWorkspaceStep ==
  ASSUME IInv, NEW w \in Workspaces, DeleteWorkspace(w)
  PROVE  StepFacts
<1>1. w \in AllWorkspaces /\ RowsOK /\ MetaOK
  BY WorkspaceIsAny, TypeSplit DEF IInv
<1>2. /\ rows' = [rows EXCEPT ![w] = NoRows] /\ meta' = [meta EXCEPT ![w] = NoMetas]
      /\ UNCHANGED collections
  BY DEF DeleteWorkspace
<1>3. \A x \in AllWorkspaces : x # w => rows'[x] = rows[x] /\ meta'[x] = meta[x]
  BY <1>2 DEF RowsOK, MetaOK
<1>4. \A c \in Collections : meta'[w][c].sequence = <<>> /\ \A d \in Docs : rows'[w][c][d] = NoRow
  BY <1>1, <1>2 DEF RowsOK, MetaOK, NoRows, NoMetas, NoMeta
<1>5. \A c \in Collections : OrderStep(w, c) /\ \A d \in Docs : RowStep(w, c, d)
  BY <1>4 DEF OrderStep, RowStep, Gone
<1> QED
  BY <1>2, <1>3, <1>5, LocalStep

\* A handler that touches one collection of a workspace and of production.
LEMMA PushedStep ==
  ASSUME NEW w \in Workspaces, NEW c \in Collections, UNCHANGED collections,
         \A x \in AllWorkspaces, y \in Collections :
            (x # w /\ x # Production) \/ y # c
               => rows'[x][y] = rows[x][y] /\ meta'[x][y] = meta[x][y],
         \A x \in AllWorkspaces : x # w /\ x # Production => rows'[x] = rows[x],
         OrderStep(w, c), ProductionOrderStep(c), CoverStep(c),
         \A d \in Docs : RowStep(w, c, d) /\ ProductionStep(c, d)
  PROVE  StepFacts
<1>1. Production \in AllWorkspaces /\ w \in AllWorkspaces /\ Production \notin Workspaces
  BY ProductionAssumption DEF AllWorkspaces
<1>2. OnlyIn(w)
  BY <1>1, WorkspaceIsAny DEF OnlyIn
<1>3. \A x \in Workspaces, y \in Collections :
         OrderStep(x, y) /\ \A d \in Docs : RowStep(x, y, d)
  <2> SUFFICES ASSUME NEW x \in Workspaces, NEW y \in Collections, x # w \/ y # c
               PROVE  OrderStep(x, y) /\ \A d \in Docs : RowStep(x, y, d)
    OBVIOUS
  <2>1. rows'[x][y] = rows[x][y] /\ meta'[x][y] = meta[x][y]
    BY <1>1, WorkspaceIsAny
  <2> QED
    BY <2>1 DEF OrderStep, SameOrder, RowStep, Kept
<1>4. \A y \in Collections : /\ ProductionOrderStep(y) /\ CoverStep(y)
                             /\ \A d \in Docs : ProductionStep(y, d)
  <2> SUFFICES ASSUME NEW y \in Collections, y # c
               PROVE  /\ ProductionOrderStep(y) /\ CoverStep(y)
                      /\ \A d \in Docs : ProductionStep(y, d)
    OBVIOUS
  <2>1. rows'[Production][y] = rows[Production][y] /\ meta'[Production][y] = meta[Production][y]
    BY <1>1
  <2> QED
    BY <2>1 DEF ProductionOrderStep, SameOrder, CoverStep, ProductionStep, Kept
<1> QED
  BY <1>1, <1>2, <1>3, <1>4 DEF StepFacts

LEMMA PushDocumentStep ==
  ASSUME IInv, NEW w \in Workspaces, NEW c \in Collections, NEW d \in Docs,
         PushDocument(w, c, d)
  PROVE  StepFacts
<1> DEFINE r  == [rows[w][c][d] EXCEPT !.status = "published"]
           m  == WithStatus(meta[w][c], d, "published")
           mp == WithStatus(meta[Production][c], d, "published")
<1>1. /\ w \in AllWorkspaces /\ Production \in AllWorkspaces /\ w # Production
      /\ RowsOK /\ MetaOK
  BY WorkspaceIsAny, TypeSplit, ProductionAssumption DEF IInv, AllWorkspaces
<1>2. rows[w][c][d] # NoRow /\ rows[w][c][d] \in Rows /\ UNCHANGED collections
  BY <1>1, RowType DEF PushDocument
<1>3. r # NoRow /\ r.data = rows[w][c][d].data
  <2>1. r \in Rows /\ r.data = rows[w][c][d].data
    BY <1>2 DEF Rows, Statuses
  <2> QED
    BY <2>1, RowIsNotNoRow
<1>4. \A o \in Metas :
         /\ \/ WithStatus(o, d, "published").sequence = o.sequence /\ d \in Range(o.sequence)
            \/ /\ d \notin Range(o.sequence)
               /\ WithStatus(o, d, "published").sequence = Append(o.sequence, d)
         /\ Range(WithStatus(o, d, "published").sequence) = Range(o.sequence) \cup {d}
  <2> SUFFICES ASSUME NEW o \in Metas
               PROVE  /\ \/ /\ WithStatus(o, d, "published").sequence = o.sequence
                            /\ d \in Range(o.sequence)
                         \/ /\ d \notin Range(o.sequence)
                            /\ WithStatus(o, d, "published").sequence = Append(o.sequence, d)
                      /\ Range(WithStatus(o, d, "published").sequence) = Range(o.sequence) \cup {d}
    OBVIOUS
  <2>1. "published" \in Statuses
    BY DEF Statuses
  <2>2. Range(WithStatus(o, d, "published").sequence) = Range(o.sequence) \cup {d}
    BY <2>1, WithStatusType
  <2> QED
    BY <2>2 DEF WithStatus, Ordered
<1>5. /\ rows' = [rows EXCEPT ![w][c][d] = r, ![Production][c][d] = r]
      /\ meta' = [meta EXCEPT ![w][c] = m, ![Production][c] = mp]
  BY <1>1 DEF PushDocument, PushDocumentRows, PushDocumentMeta, MetaOK
<1>6. meta[w][c] \in Metas /\ meta[Production][c] \in Metas
  BY <1>1, MetaType
<1>7. /\ \/ m.sequence = meta[w][c].sequence
         \/ d \notin Range(meta[w][c].sequence) /\ m.sequence = Append(meta[w][c].sequence, d)
      /\ \/ mp.sequence = meta[Production][c].sequence
         \/ /\ d \notin Range(meta[Production][c].sequence)
            /\ mp.sequence = Append(meta[Production][c].sequence, d)
      /\ Range(mp.sequence) = Range(meta[Production][c].sequence) \cup {d}
  BY <1>4, <1>6
<1>8. rows'[w][c][d] = [rows[w][c][d] EXCEPT !.status = "published"] <=> rows'[w][c][d] = r
  OBVIOUS
<1> HIDE DEF r, m, mp
<1>9. /\ rows'[w][c] = [rows[w][c] EXCEPT ![d] = r]
      /\ rows'[Production][c] = [rows[Production][c] EXCEPT ![d] = r]
      /\ \A x \in AllWorkspaces, y \in Collections :
            (x # w /\ x # Production) \/ y # c => rows'[x][y] = rows[x][y]
      /\ \A x \in AllWorkspaces : x # w /\ x # Production => rows'[x] = rows[x]
  BY <1>1, <1>5 DEF RowsOK
<1>10. /\ meta'[w][c] = m /\ meta'[Production][c] = mp
       /\ \A x \in AllWorkspaces, y \in Collections :
             (x # w /\ x # Production) \/ y # c => meta'[x][y] = meta[x][y]
  BY <1>1, <1>5 DEF MetaOK
<1>11. \A x \in {w, Production} :
          /\ rows'[x][c][d] = r
          /\ \A e \in Docs : e # d => rows'[x][c][e] = rows[x][c][e]
  BY <1>1, <1>9 DEF RowsOK
<1>12. OrderStep(w, c)
  BY <1>7, <1>10 DEF OrderStep, SameOrder
<1>13. ProductionOrderStep(c)
  BY <1>7, <1>10 DEF ProductionOrderStep, SameOrder
<1>14. CoverStep(c)
  BY <1>7, <1>10, <1>11 DEF CoverStep, Covers
<1>15. \A e \in Docs : RowStep(w, c, e)
  BY <1>2, <1>8, <1>11 DEF RowStep, Kept, Pushed, Published
<1>16. \A e \in Docs : ProductionStep(c, e)
  BY <1>2, <1>3, <1>11 DEF ProductionStep, Kept, Copy
<1> QED
  BY <1>2, <1>9, <1>10, <1>12, <1>13, <1>14, <1>15, <1>16, PushedStep

\* The rows of ids are copied under meta row m: all rows, in an order without
\* repetition, or some rows and no order, where an id is listed twice.
Completes(w, c, ids, m) ==
    \/ /\ ids = Present(rows, w, c) /\ ids = Range(m.sequence)
       /\ m.sequence \in PushOrders(rows, meta, w, c) /\ IsInjective(m.sequence)
    \/ m.sequence = <<>> /\ ~SequencesAreUnique

\* What a collection push does whose copies are the rows of ids.
LEMMA CollectionPushStep ==
  ASSUME IInv, NEW w \in Workspaces, NEW c \in Collections, NEW ids \in SUBSET Docs,
         NEW m \in Metas, UNCHANGED collections,
         rows' = PushCollectionRows(rows, w, c, ids),
         meta' = PushCollectionMeta(rows, meta, w, c, m),
         Completes(w, c, ids, m)
  PROVE  StepFacts
<1> DEFINE st == Stamped(rows, w, c)
           cp == Copied(rows, w, c, ids)
           ms == StampedMeta(rows, meta, w, c)
<1>1. /\ w \in AllWorkspaces /\ Production \in AllWorkspaces /\ w # Production
      /\ RowsOK /\ MetaOK
  BY WorkspaceIsAny, TypeSplit, ProductionAssumption DEF IInv, AllWorkspaces
<1>2. st \in [Docs -> Rows \cup {NoRow}]
  BY <1>1, StampedFacts
<1>3. cp \in [Docs -> Rows \cup {NoRow}]
  BY <1>2 DEF Copied
<1>4. ms \in Metas /\ ms.sequence = meta[w][c].sequence
  BY SourceStaysInOrder DEF StampedMeta
<1>5. RowsPut(w, c, st, cp) /\ MetaPut(w, c, ms, m)
  BY DEF PushCollectionRows, PushCollectionMeta, RowsPut, MetaPut
<1>6. \A d \in Docs :
         /\ rows[w][c][d] = NoRow => st[d] = rows[w][c][d]
         /\ rows[w][c][d] # NoRow => /\ st[d] = [rows[w][c][d] EXCEPT !.status = "published"]
                                     /\ st[d].data = rows[w][c][d].data
         /\ cp[d] = IF d \in ids THEN st[d] ELSE NoRow
  <2> SUFFICES ASSUME NEW d \in Docs, rows[w][c][d] # NoRow
               PROVE  [rows[w][c][d] EXCEPT !.status = "published"].data = rows[w][c][d].data
    BY DEF Stamped, Copied
  <2>1. rows[w][c][d] \in Rows
    BY <1>1, RowType
  <2> QED
    BY <2>1 DEF Rows
<1> HIDE DEF st, cp, ms
<1>7. /\ rows'[w][c] = st /\ rows'[Production][c] = cp
      /\ \A x \in AllWorkspaces, y \in Collections :
            (x # w /\ x # Production) \/ y # c => rows'[x][y] = rows[x][y]
  BY <1>1, <1>2, <1>3, <1>5, PutCollectionRows
<1>8. /\ meta'[w][c] = ms /\ meta'[Production][c] = m
      /\ \A x \in AllWorkspaces, y \in Collections :
            (x # w /\ x # Production) \/ y # c => meta'[x][y] = meta[x][y]
  BY <1>1, <1>4, <1>5, PutCollectionMeta
<1>9. \A x \in AllWorkspaces : x # w /\ x # Production => rows'[x] = rows[x]
  BY <1>1, <1>5 DEF RowsOK, RowsPut
<1>10. OrderStep(w, c) /\ ProductionOrderStep(c)
  BY <1>4, <1>8 DEF OrderStep, SameOrder, ProductionOrderStep, Completes
<1>11. CoverStep(c)
  <2> SUFFICES ASSUME SequencesAreUnique
               PROVE  Covers(cp, m)
    BY <1>7, <1>8 DEF CoverStep
  <2> QED
    BY <1>6 DEF Covers, Completes
<1>12. \A d \in Docs : RowStep(w, c, d)
  <2> SUFFICES ASSUME NEW d \in Docs
               PROVE  RowStep(w, c, d)
    OBVIOUS
  <2>1. CASE rows[w][c][d] = NoRow
    BY <1>6, <1>7, <2>1 DEF RowStep, Kept
  <2>2. CASE rows[w][c][d] # NoRow
    <3>1. Published(w, c, d)
      BY <1>6, <1>7, <2>2 DEF Published
    <3>2. d \in ids \/ ~SequencesAreUnique
      BY <2>2 DEF Present, Completes
    <3>3. rows'[Production][c][d] = rows'[w][c][d] \/ ~SequencesAreUnique
      BY <1>6, <1>7, <3>2
    <3> QED
      BY <3>1, <3>3 DEF RowStep, Pushed
  <2> QED
    BY <2>1, <2>2
<1>13. \A d \in Docs : ProductionStep(c, d)
  BY <1>6, <1>7 DEF ProductionStep, Gone, Copy
<1> QED
  BY <1>7, <1>8, <1>9, <1>10, <1>11, <1>12, <1>13, PushedStep

LEMMA PushCollectionStep ==
  ASSUME IInv, NEW w \in Workspaces, NEW c \in Collections, PushCollection(w, c)
  PROVE  StepFacts
<1>1. w \in AllWorkspaces /\ MetaOK
  BY WorkspaceIsAny, TypeSplit DEF IInv
<1>2. PICK s \in PushOrders(rows, meta, w, c) :
         /\ IsInjective(s)
         /\ rows' = PushCollectionRows(rows, w, c, Range(s))
         /\ meta' = PushCollectionMeta(rows, meta, w, c, CopiedMeta(s))
  BY DEF PushCollection
<1>3. s \in Seq(Docs) /\ Range(s) = Present(rows, w, c)
  BY <1>1, <1>2, MetaType, PushOrdersFacts
<1>4. Range(s) \in SUBSET Docs /\ UNCHANGED collections
  BY <1>3 DEF Present, PushCollection
<1> DEFINE m == CopiedMeta(s)
<1>5. m \in Metas
  BY <1>3, OrderedType DEF CopiedMeta, Statuses
<1>6. m.sequence = s
  BY DEF CopiedMeta, Ordered
<1>7. meta' = PushCollectionMeta(rows, meta, w, c, m)
  BY <1>2
<1>8. Completes(w, c, Range(s), m)
  BY <1>2, <1>3, <1>6 DEF Completes
<1> HIDE DEF m
<1> QED
  BY <1>2, <1>4, <1>5, <1>7, <1>8, CollectionPushStep

LEMMA PushCollectionAbortedStep ==
  ASSUME IInv, NEW w \in Workspaces, NEW c \in Collections, PushCollectionAborted(w, c)
  PROVE  StepFacts /\ ~SequencesAreUnique
<1>1. w \in AllWorkspaces /\ MetaOK
  BY WorkspaceIsAny, TypeSplit DEF IInv
<1>2. PICK s \in PushOrders(rows, meta, w, c) :
         /\ ~IsInjective(s)
         /\ rows' = PushCollectionRows(rows, w, c, BeforeRepeat(s))
         /\ meta' = PushCollectionMeta(rows, meta, w, c, NoMeta)
  BY DEF PushCollectionAborted
<1>3. meta[w][c].sequence \in Seq(Docs)
  BY <1>1, MetaType
<1>4. s \in Seq(Docs)
  BY <1>2, <1>3, PushOrdersFacts
<1>5. ~SequencesAreUnique
  <2>1. ~IsInjective(meta[w][c].sequence)
    BY <1>2, <1>3, PushOrdersOrder
  <2> QED
    BY <1>1, <2>1 DEF SequencesAreUnique
<1>6. BeforeRepeat(s) \in SUBSET Docs
  <2>1. \A i \in DOMAIN s : s[i] \in Docs
    BY <1>4, ElementOfSeq, LenProperties
  <2> QED
    BY <2>1 DEF BeforeRepeat
<1>7. NoMeta.sequence = <<>> /\ UNCHANGED collections
  BY DEF NoMeta, PushCollectionAborted
<1>8. PICK ids \in SUBSET Docs, m \in Metas :
         /\ m.sequence = <<>>
         /\ rows' = PushCollectionRows(rows, w, c, ids)
         /\ meta' = PushCollectionMeta(rows, meta, w, c, m)
  BY <1>2, <1>6, <1>7, NoMetaType
<1>9. Completes(w, c, ids, m)
  BY <1>5, <1>8 DEF Completes
<1>10. StepFacts
  BY <1>7, <1>8, <1>9, CollectionPushStep
<1> QED
  BY <1>5, <1>10

LEMMA PushWorkspaceStep ==
  ASSUME IInv, NEW w \in Workspaces, PushWorkspaceToProduction(w)
  PROVE  StepFacts
<1>1. /\ w \in AllWorkspaces /\ Production \in AllWorkspaces /\ Production \notin Workspaces
      /\ RowsOK /\ MetaOK /\ UNCHANGED collections
  BY WorkspaceIsAny, TypeSplit, ProductionAssumption DEF IInv, AllWorkspaces, PushWorkspaceToProduction
<1>2. /\ rows' = [rows EXCEPT ![Production] = rows[w]]
      /\ meta' = [meta EXCEPT ![Production] = meta[w]]
  BY DEF PushWorkspaceToProduction, PushWorkspace
<1>3. /\ rows'[Production] = rows[w] /\ meta'[Production] = meta[w]
      /\ \A x \in AllWorkspaces : x # Production => rows'[x] = rows[x] /\ meta'[x] = meta[x]
  BY <1>1, <1>2 DEF RowsOK, MetaOK
<1>4. \A x \in Workspaces : rows'[x] = rows[x] /\ meta'[x] = meta[x]
  BY <1>1, <1>3, WorkspaceIsAny
<1>5. \A x \in Workspaces, c \in Collections :
         OrderStep(x, c) /\ \A d \in Docs : RowStep(x, c, d)
  BY <1>4 DEF OrderStep, SameOrder, RowStep, Kept
<1>6. \A c \in Collections : Covers(rows[w][c], meta[w][c])
  BY IInvByCollection
<1>7. \A c \in Collections : /\ ProductionOrderStep(c) /\ CoverStep(c)
                             /\ \A d \in Docs : ProductionStep(c, d)
  BY <1>3, <1>4, <1>6 DEF ProductionOrderStep, CoverStep, ProductionStep, Gone, Copy
<1>8. OnlyIn(w)
  BY <1>4 DEF OnlyIn
<1> QED
  BY <1>1, <1>5, <1>7, <1>8 DEF StepFacts

LEMMA CreateCollectionStep ==
  ASSUME IInv, NEW c \in Collections, CreateCollection(c)
  PROVE  StepFacts
<1>1. /\ Production \in AllWorkspaces /\ Production \notin Workspaces /\ MetaOK /\ CollectionsOK
  BY TypeSplit, ProductionAssumption DEF IInv, AllWorkspaces
<1> DEFINE m == Ordered(<<>>, NoMeta.statuses)
<1>2. /\ meta' = [meta EXCEPT ![Production][c] = m] /\ rows' = rows
      /\ collections[c] = "unused" /\ collections' = [collections EXCEPT ![c] = "live"]
  BY DEF CreateCollection
<1>3. m.sequence = <<>>
  BY DEF Ordered
<1> HIDE DEF m
<1>4. /\ meta'[Production][c] = m
      /\ \A y \in Collections : y # c => meta'[Production][y] = meta[Production][y]
      /\ \A x \in AllWorkspaces : x # Production => meta'[x] = meta[x]
  BY <1>1, <1>2 DEF MetaOK
<1>5. \A x \in Workspaces, y \in Collections :
         OrderStep(x, y) /\ \A d \in Docs : RowStep(x, y, d)
  BY <1>1, <1>2, <1>4, WorkspaceIsAny DEF OrderStep, SameOrder, RowStep, Kept
<1>6. \A y \in Collections : /\ ProductionOrderStep(y) /\ CoverStep(y)
                             /\ \A d \in Docs : ProductionStep(y, d)
                             /\ collections'[y] = "unused" => collections[y] = "unused"
  <2> SUFFICES ASSUME NEW y \in Collections
               PROVE  /\ ProductionOrderStep(y) /\ CoverStep(y)
                      /\ \A d \in Docs : ProductionStep(y, d)
                      /\ collections'[y] = "unused" => collections[y] = "unused"
    OBVIOUS
  <2>1. collections'[y] = "unused" => collections[y] = "unused"
    BY <1>1, <1>2 DEF CollectionsOK
  <2>2. \A d \in Docs : ProductionStep(y, d)
    BY <1>2 DEF ProductionStep, Kept
  <2>3. ProductionOrderStep(y)
    BY <1>3, <1>4 DEF ProductionOrderStep, SameOrder
  <2>4. CoverStep(y)
    BY <1>2, <1>4 DEF CoverStep
  <2> QED
    BY <2>1, <2>2, <2>3, <2>4
<1>7. OnlyIn(Production)
  BY <1>2 DEF OnlyIn
<1> QED
  BY <1>1, <1>5, <1>6, <1>7 DEF StepFacts

LEMMA DeleteCollectionStep ==
  ASSUME IInv, NEW c \in Collections, DeleteCollection(c)
  PROVE  StepFacts
<1> DEFINE cleared == workspaces \cup {Production}
<1>1. /\ RowsOK /\ MetaOK /\ CollectionsOK /\ Production \in AllWorkspaces
  BY TypeSplit DEF IInv, AllWorkspaces
<1>2. /\ rows' = [w \in AllWorkspaces |->
                    IF w \in cleared THEN [rows[w] EXCEPT ![c] = NoRows[c]] ELSE rows[w]]
      /\ meta' = [w \in AllWorkspaces |->
                    IF w \in cleared THEN [meta[w] EXCEPT ![c] = NoMeta] ELSE meta[w]]
      /\ collections' = [collections EXCEPT ![c] = "deleted"] /\ collections[c] = "live"
  BY DEF DeleteCollection, Live
<1> HIDE DEF cleared
<1>3. \A w \in AllWorkspaces, y \in Collections :
         \/ rows'[w][y] = rows[w][y] /\ meta'[w][y] = meta[w][y]
         \/ rows'[w][y] = NoRows[y] /\ meta'[w][y] = NoMeta
  BY <1>1, <1>2 DEF RowsOK, MetaOK
<1>4. NoMeta.sequence = <<>> /\ \A y \in Collections : \A d \in Docs : NoRows[y][d] = NoRow
  BY DEF NoMeta, NoRows
<1>5. \A x \in Workspaces, y \in Collections :
         OrderStep(x, y) /\ \A d \in Docs : RowStep(x, y, d)
  <2> SUFFICES ASSUME NEW x \in Workspaces, NEW y \in Collections
               PROVE  OrderStep(x, y) /\ \A d \in Docs : RowStep(x, y, d)
    OBVIOUS
  <2>1. x \in AllWorkspaces
    BY WorkspaceIsAny
  <2> QED
    BY <1>3, <1>4, <2>1 DEF OrderStep, SameOrder, RowStep, Kept, Gone
<1>6. \A y \in Collections : /\ ProductionOrderStep(y) /\ CoverStep(y)
                             /\ \A d \in Docs : ProductionStep(y, d)
  <2> SUFFICES ASSUME NEW y \in Collections
               PROVE  /\ ProductionOrderStep(y) /\ CoverStep(y)
                      /\ \A d \in Docs : ProductionStep(y, d)
    OBVIOUS
  <2>1. \/ rows'[Production][y] = rows[Production][y] /\ meta'[Production][y] = meta[Production][y]
        \/ rows'[Production][y] = NoRows[y] /\ meta'[Production][y] = NoMeta
    BY <1>1, <1>3
  <2>2. Covers(NoRows[y], NoMeta)
    BY <1>4 DEF Covers
  <2>3. ProductionOrderStep(y)
    BY <1>4, <2>1 DEF ProductionOrderStep, SameOrder
  <2>4. CoverStep(y)
    BY <2>1, <2>2 DEF CoverStep
  <2>5. \A d \in Docs : ProductionStep(y, d)
    BY <1>4, <2>1 DEF ProductionStep, Kept, Gone
  <2> QED
    BY <2>3, <2>4, <2>5
<1>7. /\ \A y \in Collections : collections'[y] = "unused" => collections[y] = "unused"
      /\ collections' # collections
  BY <1>1, <1>2 DEF CollectionsOK
<1> QED
  BY <1>5, <1>6, <1>7 DEF StepFacts

LEMMA NextStep == IInv /\ [Next]_vars => StepFacts
<1> SUFFICES ASSUME IInv, [Next]_vars PROVE StepFacts
  OBVIOUS
<1>1. ASSUME NEW w \in Workspaces, NEW c \in Collections, NEW d \in Docs, DocumentStep(w, c, d)
      PROVE  StepFacts
  <2>1. ASSUME NEW v \in Values, CreateDocument(w, c, d, v) PROVE StepFacts
    BY <2>1, CreateStep
  <2>2. ASSUME NEW v \in Values, UpdateDocument(w, c, d, v) PROVE StepFacts
    BY <2>2, UpdateStep
  <2>3. ASSUME NEW v \in Values, RestoreVersion(w, c, d, v) PROVE StepFacts
    BY <2>3, RestoreStep
  <2>4. CASE UpdateWithoutEffect(w, c, d)
    BY <2>4, IdleStep DEF UpdateWithoutEffect
  <2>5. CASE UpdateDocumentStatus(w, c, d)
    BY <2>5, StatusStep
  <2>6. CASE DeleteDocument(w, c, d)
    BY <2>6, DeleteStep
  <2>7. CASE PushDocument(w, c, d)
    BY <2>7, PushDocumentStep
  <2>8. CASE PullDocument(w, c, d)
    <3>1. Pull(w, {<<c, d>>}, {<<c, d>>})
      BY <2>8 DEF PullDocument
    <3> QED
      BY <3>1, PullStep
  <2> QED
    BY <1>1, <2>1, <2>2, <2>3, <2>4, <2>5, <2>6, <2>7, <2>8 DEF DocumentStep
<1>2. ASSUME NEW w \in Workspaces, NEW c \in Collections, CollectionStep(w, c)
      PROVE  StepFacts
  <2>1. CASE PushCollection(w, c)
    BY <2>1, PushCollectionStep
  <2>2. CASE PushCollectionAborted(w, c)
    BY <2>2, PushCollectionAbortedStep
  <2>3. CASE PullCollection(w, c)
    <3>1. PICK res \in SUBSET ({c} \X Docs) : Pull(w, {c} \X Docs, res)
      BY <2>3 DEF PullCollection
    <3> QED
      BY <3>1, PullStep
  <2> QED
    BY <1>2, <2>1, <2>2, <2>3 DEF CollectionStep
<1>3. ASSUME NEW w \in Workspaces, WorkspaceStep(w)
      PROVE  StepFacts
  <2>1. CASE CreateWorkspace(w)
    BY <2>1, IdleStep DEF CreateWorkspace
  <2>2. CASE DeleteWorkspace(w)
    BY <2>2, DeleteWorkspaceStep
  <2>3. CASE PushWorkspaceToProduction(w)
    BY <2>3, PushWorkspaceStep
  <2>4. CASE PullWorkspace(w)
    <3>1. PICK res \in SUBSET (Collections \X Docs) : Pull(w, Collections \X Docs, res)
      BY <2>4 DEF PullWorkspace
    <3> QED
      BY <3>1, PullStep
  <2> QED
    BY <1>3, <2>1, <2>2, <2>3, <2>4 DEF WorkspaceStep
<1>4. ASSUME NEW c \in Collections, CreateCollection(c) \/ DeleteCollection(c)
      PROVE  StepFacts
  BY <1>4, CreateCollectionStep, DeleteCollectionStep
<1>5. CASE UNCHANGED vars
  BY <1>5, IdleStep DEF vars
<1> QED
  BY <1>1, <1>2, <1>3, <1>4, <1>5 DEF Next

-----------------------------------------------------------------------------
(* What the steps add up to.                                               *)

LEMMA LastSaved ==
  ASSUME NEW h \in Seq(Values), NEW v \in Values
  PROVE  Saved(h, v) # <<>> /\ Saved(h, v)[Len(Saved(h, v))] = v
<1> DEFINE g == Append(h, v)
           n == Len(h)
<1>1. g \in Seq(Values) /\ Len(g) = n + 1 /\ g[n + 1] = v /\ n \in Nat
  BY AppendProperties, LenProperties
<1>2. MaxVersions \in Nat /\ MaxVersions > 0
  BY VersionsAssumption
<1> HIDE DEF g, n
<1>3. CASE Len(g) > MaxVersions
  <2> DEFINE a == Len(g) - MaxVersions + 1
             t == SubSeq(g, a, Len(g))
  <2>1. a \in 1 .. n + 1 /\ Len(g) \in 1 .. n + 1 /\ a <= Len(g)
    BY <1>1, <1>2, <1>3
  <2>2. \A i \in a .. Len(g) : g[i] \in Values
    BY <1>1, <2>1, ElementOfSeq
  <2>3. /\ t \in Seq(Values) /\ Len(t) = MaxVersions
        /\ \A i \in 1 .. MaxVersions : t[i] = g[a + i - 1]
    BY <1>1, <1>2, <2>1, <2>2, SubSeqProperties
  <2>4. t[MaxVersions] = g[n + 1]
    <3>1. a + MaxVersions - 1 = n + 1 /\ MaxVersions \in 1 .. MaxVersions
      BY <1>1, <1>2
    <3> HIDE DEF t, a
    <3> QED
      BY <2>3, <3>1
  <2>5. Saved(h, v) = t
    BY <1>3 DEF Saved, g
  <2> HIDE DEF t, a
  <2>6. t # <<>>
    BY <1>2, <2>3, EmptySeq
  <2> QED
    BY <1>1, <2>3, <2>4, <2>5, <2>6
<1>4. CASE ~(Len(g) > MaxVersions)
  <2>1. Saved(h, v) = g
    BY <1>4 DEF Saved, g
  <2>2. g # <<>>
    BY <1>1, EmptySeq
  <2> QED
    BY <1>1, <2>1, <2>2
<1> QED
  BY <1>3, <1>4

\* A document appended to an order comes after the others and moves none.
LEMMA AppendBefore ==
  ASSUME NEW s \in Seq(Docs), NEW d \in Docs, NEW a, NEW b,
         Before(Append(s, d), a, b), b # d
  PROVE  Before(s, a, b)
<1> DEFINE n == Len(s)
           t == Append(s, d)
<1>1. /\ n \in Nat /\ DOMAIN s = 1 .. n
      /\ t \in Seq(Docs) /\ Len(t) = n + 1 /\ t[n + 1] = d
      /\ \A i \in 1 .. n : t[i] = s[i]
  BY LenProperties, AppendProperties
<1>2. DOMAIN t = 1 .. n + 1
  BY <1>1, LenProperties
<1>3. PICK i, j \in DOMAIN t : i < j /\ t[i] = a /\ t[j] = b
  BY DEF Before
<1> HIDE DEF t, n
<1>4. j # n + 1 /\ i \in 1 .. n /\ j \in 1 .. n
  BY <1>1, <1>2, <1>3
<1> QED
  BY <1>1, <1>3, <1>4 DEF Before

LEMMA IsolationStep ==
  StepFacts => \A w1, w2 \in Workspaces :
                  rows'[w1] # rows[w1] /\ rows'[w2] # rows[w2]
                  => w1 = w2 \/ collections' # collections
BY DEF StepFacts, OnlyIn

LEMMA MatchStep ==
  ASSUME StepFacts, NEW c \in Collections, NEW d \in Docs,
         Changed(Production, c, d), rows'[Production][c][d] # NoRow
  PROVE  \E w \in Workspaces :
            /\ rows[w][c][d] # NoRow
            /\ rows[w][c][d].data = rows'[Production][c][d].data
            /\ rows'[w][c][d] = rows'[Production][c][d]
<1>1. ProductionStep(c, d)
  BY DEF StepFacts
<1> QED
  BY <1>1 DEF ProductionStep, Changed, Kept, Gone, Copy

LEMMA KeepFormerStep ==
  ASSUME IInv, StepFacts, NEW w \in Workspaces, NEW c \in Collections, NEW d \in Docs,
         Overwritten(w, c, d), rows'[w][c][d] # rows[Production][c][d],
         meta'[w][c].sequence = meta[w][c].sequence
  PROVE  /\ versions'[w][c][d] # <<>>
         /\ versions'[w][c][d][Len(versions'[w][c][d])] = rows[w][c][d].data
<1>1. w \in AllWorkspaces /\ RowsOK /\ VersionsOK
  BY WorkspaceIsAny, TypeSplit DEF IInv
<1>2. /\ rows[w][c][d] # NoRow /\ rows'[w][c][d] # NoRow
      /\ rows'[w][c][d].data # rows[w][c][d].data
  BY DEF Overwritten
<1>3. rows[w][c][d] \in Rows /\ rows[w][c][d].data \in Values
  BY <1>1, <1>2, RowType
<1>4. ~Published(w, c, d)
  <2>1. [rows[w][c][d] EXCEPT !.status = "published"].data = rows[w][c][d].data
    BY <1>3 DEF Rows
  <2> QED
    BY <1>2, <2>1 DEF Published
<1>5. RowStep(w, c, d)
  BY DEF StepFacts
<1>6. SaveVersion(w, c, d)
  BY <1>2, <1>4, <1>5 DEF RowStep, Kept, Gone, Pulled, Pushed, Created, Edited, Drafted
<1> DEFINE h == versions[w][c][d]
           v == rows[w][c][d].data
<1>7. h \in Seq(Values)
  BY <1>1 DEF VersionsOK
<1>8. versions' = [versions EXCEPT ![w][c][d] = Saved(h, v)]
  BY <1>6 DEF SaveVersion
<1> HIDE DEF h, v
<1>9. versions'[w][c][d] = Saved(h, v)
  BY <1>1, <1>8 DEF VersionsOK
<1>10. v \in Values
  BY <1>3 DEF v
<1> QED
  BY <1>7, <1>9, <1>10, LastSaved DEF v

LEMMA OrderAuthoredStep ==
  ASSUME IInv, StepFacts, NEW c \in Collections, NEW a \in Docs, NEW b \in Docs,
         Before(meta'[Production][c].sequence, a, b),
         ~Before(meta[Production][c].sequence, a, b)
  PROVE  \/ \E w \in Workspaces : Before(meta[w][c].sequence, a, b)
         \/ meta'[Production][c].sequence = Append(meta[Production][c].sequence, b)
<1> DEFINE old == meta[Production][c].sequence
           new == meta'[Production][c].sequence
<1>1. MetaOK /\ old \in Seq(Docs)
  BY TypeSplit, MetaType DEF IInv, AllWorkspaces
<1>2. ProductionOrderStep(c)
  BY DEF StepFacts
<1>3. new # old
  OBVIOUS
<1>4. new # <<>>
  BY DEF Before
<1>5. ASSUME NEW d \in Docs, new = Append(old, d)
      PROVE  d = b
  BY <1>1, <1>5, AppendBefore
<1>6. ASSUME NEW w \in Workspaces, new \in PushOrders(rows, meta, w, c)
      PROVE  Before(meta[w][c].sequence, a, b)
  <2>1. meta[w][c].sequence \in Seq(Docs)
    BY <1>1, WorkspaceIsAny, MetaType
  <2>2. Present(rows, w, c) \subseteq Range(meta[w][c].sequence)
    BY DEF IInv, NoHiddenDocuments
  <2> DEFINE s == new
  <2>3. s \in PushOrders(rows, meta, w, c)
    BY <1>6
  <2>4. \A x, y : Before(s, x, y) => Before(meta[w][c].sequence, x, y)
    BY <2>1, <2>2, <2>3, PushOrdersOrder
  <2> QED
    BY <2>4
<1> QED
  BY <1>2, <1>3, <1>4, <1>5, <1>6 DEF ProductionOrderStep, SameOrder

LEMMA PublishedStep ==
  ASSUME StepFacts, SequencesAreUnique, NEW w \in Workspaces, NEW c \in Collections, NEW d \in Docs,
         Changed(w, c, d), rows'[w][c][d] # NoRow, rows'[w][c][d].status = "published",
         rows[w][c][d] = NoRow \/ rows[w][c][d].status = "draft"
  PROVE  rows'[w][c][d] = rows'[Production][c][d]
<1>1. RowStep(w, c, d)
  BY DEF StepFacts
<1> QED
  BY <1>1 DEF RowStep, Changed, Kept, Gone, Pulled, Pushed, Created, Edited, Drafted

-----------------------------------------------------------------------------
(* Where no create is sent again. Sequences stay without repetition, so no *)
(* push is aborted, so production's rows stay listed; and because no       *)
(* collection is created over rows left from before, the empty order it    *)
(* starts with hides nothing.                                              *)

UnusedEmpty ==
    \A w \in AllWorkspaces, c \in Collections, d \in Docs :
       collections[c] = "unused" => rows[w][c][d] = NoRow

UniqueInv == IInv /\ UnusedEmpty /\ SequencesAreUnique /\ NoHiddenInProduction

LEMMA InitUnique == Init => UniqueInv
<1> SUFFICES ASSUME Init PROVE UniqueInv
  OBVIOUS
<1>1. \A w \in AllWorkspaces, c \in Collections :
         rows[w][c] = [d \in Docs |-> NoRow] /\ meta[w][c].sequence = <<>>
  BY DEF Init, NoRows, NoMetas, NoMeta
<1>2. Production \in AllWorkspaces
  BY DEF AllWorkspaces
<1>3. UnusedEmpty
  BY <1>1 DEF UnusedEmpty
<1>4. SequencesAreUnique
  BY <1>1 DEF SequencesAreUnique, IsInjective
<1>5. NoHiddenInProduction
  BY <1>1, <1>2 DEF NoHiddenInProduction, Present
<1> QED
  BY <1>3, <1>4, <1>5, InitIInv DEF UniqueInv

LEMMA UnusedStaysEmpty ==
  ASSUME StepFacts, UnusedEmpty
  PROVE  UnusedEmpty'
<1> SUFFICES ASSUME NEW w \in AllWorkspaces, NEW c \in Collections, NEW d \in Docs,
                    collections'[c] = "unused"
             PROVE  rows'[w][c][d] = NoRow
  BY DEF UnusedEmpty
<1>1. collections[c] = "unused"
  BY DEF StepFacts
<1>2. \A x \in AllWorkspaces : rows[x][c][d] = NoRow
  BY <1>1 DEF UnusedEmpty
<1>3. Production \in AllWorkspaces
  BY DEF AllWorkspaces
<1>4. CASE w \in Workspaces
  <2>1. RowStep(w, c, d)
    BY <1>4 DEF StepFacts
  <2>2. rows[w][c][d] = NoRow /\ rows[Production][c][d] = NoRow /\ ~Live(c)
    BY <1>1, <1>2, <1>3 DEF Live
  <2> QED
    BY <2>1, <2>2 DEF RowStep, Kept, Gone, Pulled, Pushed, Published, Created, Edited, Drafted
<1>5. CASE w = Production
  <2>1. ProductionStep(c, d)
    BY DEF StepFacts
  <2>2. \A x \in Workspaces : rows[x][c][d] = NoRow
    BY <1>2, WorkspaceIsAny
  <2> QED
    BY <1>2, <1>3, <1>5, <2>1, <2>2 DEF ProductionStep, Kept, Gone, Copy
<1> QED
  BY <1>4, <1>5 DEF AllWorkspaces

LEMMA SequencesStayUnique ==
  ASSUME ~ResentCreates, IInv, SequencesAreUnique, StepFacts
  PROVE  SequencesAreUnique'
<1> SUFFICES ASSUME NEW w \in AllWorkspaces, NEW c \in Collections
             PROVE  IsInjective(meta'[w][c].sequence)
  BY DEF SequencesAreUnique
<1> DEFINE old == meta[w][c].sequence
           new == meta'[w][c].sequence
<1>1. \A x \in AllWorkspaces : meta[x][c].sequence \in Seq(Docs) /\ IsInjective(meta[x][c].sequence)
  BY TypeSplit, MetaType DEF IInv, SequencesAreUnique
<1>2. old \in Seq(Docs) /\ IsInjective(old)
  BY <1>1
<1>3. IsInjective(<<>>)
  BY DEF IsInjective
<1>4. ASSUME NEW d \in Docs, d \notin Range(old), new = Append(old, d)
      PROVE  IsInjective(new)
  BY <1>2, <1>4, AppendUnique
<1>5. CASE w \in Workspaces
  <2>1. OrderStep(w, c)
    BY <1>5 DEF StepFacts
  <2>2. ASSUME NEW S, new \in Selected(old, S)
        PROVE  IsInjective(new)
    BY <1>2, <2>2, SelectedOrder
  <2>3. ASSUME NEW S \in SUBSET Docs, NEW o \in Orderings(S),
               S \cap Range(old) = {}, new = old \o o
        PROVE  IsInjective(new)
    <3>1. o \in Seq(Docs) /\ Range(o) = S /\ IsInjective(o)
      BY OrderingsFacts, OrderingsUnique
    <3>2. Range(old) \cap Range(o) = {}
      BY <3>1, <2>3
    <3> QED
      BY <1>2, <2>3, <3>1, <3>2, ConcatUnique
  <2> QED
    BY <1>2, <1>3, <1>4, <2>1, <2>2, <2>3 DEF OrderStep, SameOrder
<1>6. CASE w = Production
  <2>1. ProductionOrderStep(c)
    BY DEF StepFacts
  <2>2. \A x \in Workspaces : IsInjective(meta[x][c].sequence)
    BY <1>1, WorkspaceIsAny
  <2> QED
    BY <1>2, <1>3, <1>4, <1>6, <2>1, <2>2 DEF ProductionOrderStep, SameOrder
<1> QED
  BY <1>5, <1>6 DEF AllWorkspaces

LEMMA CoveredIsListed ==
  /\ NoHiddenInProduction <=> \A c \in Collections : Covers(rows[Production][c], meta[Production][c])
  /\ NoHiddenInProduction' <=> \A c \in Collections : Covers(rows'[Production][c], meta'[Production][c])
BY DEF NoHiddenInProduction, Covers, Present

LEMMA ProductionStaysListed ==
  ASSUME StepFacts, UnusedEmpty, SequencesAreUnique, NoHiddenInProduction
  PROVE  NoHiddenInProduction'
<1> SUFFICES ASSUME NEW c \in Collections
             PROVE  Covers(rows'[Production][c], meta'[Production][c])
  BY CoveredIsListed
<1>1. CoverStep(c) /\ Covers(rows[Production][c], meta[Production][c])
  BY CoveredIsListed DEF StepFacts
<1>2. ASSUME collections[c] = "unused", rows'[Production][c] = rows[Production][c]
      PROVE  Covers(rows'[Production][c], meta'[Production][c])
  BY <1>2 DEF UnusedEmpty, AllWorkspaces, Covers
<1> QED
  BY <1>1, <1>2 DEF CoverStep

LEMMA NextKeepsUnique ==
  ASSUME ~ResentCreates, UniqueInv, [Next]_vars
  PROVE  UniqueInv'
<1>1. StepFacts /\ IInv'
  BY NextStep, NextKeepsIInv DEF UniqueInv
<1> QED
  BY <1>1, UnusedStaysEmpty, SequencesStayUnique, ProductionStaysListed DEF UniqueInv

-----------------------------------------------------------------------------
(* The theorems about steps, and about clients that never resend.          *)

\* Every step does to rows and orders what StepFacts says.
LEMMA StepsAreKnown == Spec => [][IInv /\ StepFacts]_vars
<1>1. IInv /\ [Next]_vars => IInv /\ StepFacts
  BY NextStep
<1> QED
  BY <1>1, InvariantHolds, PTL DEF Spec

\* A step changes the documents of one editable workspace at most, unless it
\* deletes a collection: no handler's UPDATE reaches a second workspace.
THEOREM WorkspacesStayApart == Spec => WorkspacesAreIsolated
<1>1. [IInv /\ StepFacts]_vars =>
      [\A w1, w2 \in Workspaces :
          rows'[w1] # rows[w1] /\ rows'[w2] # rows[w2]
          => w1 = w2 \/ collections' # collections]_vars
  BY IsolationStep
<1> QED
  BY <1>1, StepsAreKnown, PTL DEF WorkspacesAreIsolated

\* Whatever a push puts into production is stored identically in a workspace
\* after it, also when the push is aborted half-way.
THEOREM ProductionHoldsNoOther == Spec => ProductionMatchesSource
<1>1. [IInv /\ StepFacts]_vars =>
      [\A c \in Collections, d \in Docs :
          Changed(Production, c, d) /\ rows'[Production][c][d] # NoRow
          => \E w \in Workspaces :
                /\ rows[w][c][d] # NoRow
                /\ rows[w][c][d].data = rows'[Production][c][d].data
                /\ rows'[w][c][d] = rows'[Production][c][d]]_vars
  BY MatchStep
<1> QED
  BY <1>1, StepsAreKnown, PTL DEF ProductionMatchesSource

\* An edit or a restore leaves the data it replaces as the newest version,
\* whatever the limit on versions.
THEOREM FormerDataIsKept == Spec => EditsKeepFormerData
<1>1. [IInv /\ StepFacts]_vars =>
      [\A w \in Workspaces, c \in Collections, d \in Docs :
          /\ Overwritten(w, c, d)
          /\ rows'[w][c][d] # rows[Production][c][d]
          /\ meta'[w][c].sequence = meta[w][c].sequence
          => /\ versions'[w][c][d] # <<>>
             /\ versions'[w][c][d][Len(versions'[w][c][d])] = rows[w][c][d].data]_vars
  <2> SUFFICES ASSUME IInv, StepFacts,
                      NEW w \in Workspaces, NEW c \in Collections, NEW d \in Docs,
                      Overwritten(w, c, d), rows'[w][c][d] # rows[Production][c][d],
                      meta'[w][c].sequence = meta[w][c].sequence
               PROVE  /\ versions'[w][c][d] # <<>>
                      /\ versions'[w][c][d][Len(versions'[w][c][d])] = rows[w][c][d].data
    OBVIOUS
  <2> QED
    BY KeepFormerStep
<1> QED
  BY <1>1, StepsAreKnown, PTL DEF EditsKeepFormerData

\* Two documents change places in production only to an order some author
\* gave them, or because the later one was pushed alone.
THEOREM OrderIsAuthored == Spec => ProductionOrderIsAuthored
<1>1. [IInv /\ StepFacts]_vars =>
      [\A c \in Collections : \A a, b \in Docs :
          LET old == meta[Production][c].sequence
              new == meta'[Production][c].sequence
          IN  a # b /\ Before(new, a, b) /\ ~Before(old, a, b)
              => \/ \E w \in Workspaces : Before(meta[w][c].sequence, a, b)
                 \/ new = Append(old, b)]_vars
  <2> SUFFICES ASSUME IInv, StepFacts, NEW c \in Collections, NEW a \in Docs, NEW b \in Docs,
                      Before(meta'[Production][c].sequence, a, b),
                      ~Before(meta[Production][c].sequence, a, b)
               PROVE  \/ \E w \in Workspaces : Before(meta[w][c].sequence, a, b)
                      \/ meta'[Production][c].sequence = Append(meta[Production][c].sequence, b)
    OBVIOUS
  <2> QED
    BY OrderAuthoredStep
<1> QED
  BY <1>1, StepsAreKnown, PTL DEF ProductionOrderIsAuthored

\* UniqueInv holds in every reachable state when no create is sent again.
LEMMA UniqueHolds ==
  ASSUME ~ResentCreates
  PROVE  Spec => []UniqueInv
<1>1. UniqueInv /\ [Next]_vars => UniqueInv'
  BY NextKeepsUnique
<1> QED
  BY <1>1, InitUnique, PTL DEF Spec

\* Without resent creates no sequence ever lists a document twice, so every
\* push can insert the rows it lists.
THEOREM SequencesUnique ==
  ASSUME ~ResentCreates
  PROVE  Spec => []SequencesAreUnique
<1>1. UniqueInv => SequencesAreUnique
  BY DEF UniqueInv
<1> QED
  BY <1>1, UniqueHolds, PTL

\* Without resent creates every row of production is listed there.
THEOREM ProductionIsListed ==
  ASSUME ~ResentCreates
  PROVE  Spec => []NoHiddenInProduction
<1>1. UniqueInv => NoHiddenInProduction
  BY DEF UniqueInv
<1> QED
  BY <1>1, UniqueHolds, PTL

\* Without resent creates a document becomes published in a workspace only by
\* a step after which production serves exactly that row.
THEOREM PublishedIsServed ==
  ASSUME ~ResentCreates
  PROVE  Spec => PublishedOnBothSides
<1>1. Spec => [][StepFacts /\ SequencesAreUnique]_vars
  <2>1. UniqueInv => SequencesAreUnique
    BY DEF UniqueInv
  <2> QED
    BY <2>1, UniqueHolds, StepsAreKnown, PTL
<1>2. [StepFacts /\ SequencesAreUnique]_vars =>
      [\A w \in Workspaces, c \in Collections, d \in Docs :
          /\ Changed(w, c, d)
          /\ rows'[w][c][d] # NoRow
          /\ rows'[w][c][d].status = "published"
          /\ rows[w][c][d] = NoRow \/ rows[w][c][d].status = "draft"
          => rows'[w][c][d] = rows'[Production][c][d]]_vars
  <2> SUFFICES ASSUME StepFacts, SequencesAreUnique,
                      NEW w \in Workspaces, NEW c \in Collections, NEW d \in Docs,
                      Changed(w, c, d), rows'[w][c][d] # NoRow,
                      rows'[w][c][d].status = "published",
                      rows[w][c][d] = NoRow \/ rows[w][c][d].status = "draft"
               PROVE  rows'[w][c][d] = rows'[Production][c][d]
    OBVIOUS
  <2> QED
    BY PublishedStep
<1> QED
  BY <1>1, <1>2, PTL DEF PublishedOnBothSides
=============================================================================
