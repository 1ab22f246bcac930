--------------------------- MODULE DocHandlersProofs ---------------------------
(***************************************************************************)
(* Proofs about DocHandlers, for every set of workspaces, collections,     *)
(* documents, values and threads, every limit on versions, whatever        *)
(* requests overlap, and with or without crashes. The theorems about       *)
(* documents that authors see assume that some requests are never made,    *)
(* and say which; the last one, that the handlers implement DocStore, that *)
(* requests do not overlap.                                                *)
(***************************************************************************)
EXTENDS SequentialHandlers, FiniteSetTheorems, SequenceTheorems, TLAPS

-----------------------------------------------------------------------------
(* Lemmas about orders of ids.                                             *)

\* A list comprehension over a list of ids is a list of ids, keeps exactly
\* the entries that are in S, and repeats none that was not repeated.
LEMMA SelectedFacts ==
  ASSUME NEW s \in Seq(Docs), NEW S, NEW t \in Selected(s, S)
  PROVE  t \in Seq(Docs) /\ Range(t) = Range(s) \cap S
<1> DEFINE kept == {i \in DOMAIN s : s[i] \in S}
           n    == Cardinality(kept)
<1>1. DOMAIN s = 1 .. Len(s) /\ Len(s) \in Nat /\ \A i \in DOMAIN s : s[i] \in Docs
  BY LenProperties, ElementOfSeq
<1>2. n \in Nat
  <2>1. IsFiniteSet(1 .. Len(s))
    BY <1>1, FS_Interval
  <2>2. kept \subseteq 1 .. Len(s)
    BY <1>1
  <2> QED
    BY <2>1, <2>2, FS_Subset, FS_CardinalityType
<1>3. PICK f \in [1 .. n -> kept] : Range(f) = kept /\ t = [i \in 1 .. n |-> s[f[i]]]
  BY DEF Selected
<1> HIDE DEF n
<1>4. \A i \in 1 .. n : t[i] \in Docs
  BY <1>1, <1>3
<1>5. t \in Seq(Docs)
  BY <1>2, <1>3, <1>4, SeqDef
<1>6. Range(t) = {s[i] : i \in kept}
  BY <1>3 DEF Range
<1>7. {s[i] : i \in kept} = Range(s) \cap S
  BY DEF Range
<1> QED
  BY <1>5, <1>6, <1>7

LEMMA SelectedUnique ==
  ASSUME NEW s \in Seq(Docs), NEW S, NEW t \in Selected(s, S)
  PROVE  IsInjective(s) => IsInjective(t)
<1> DEFINE kept == {i \in DOMAIN s : s[i] \in S}
           n    == Cardinality(kept)
<1>1. PICK f \in [1 .. n -> kept] : /\ Range(f) = kept
                                    /\ \A i, j \in DOMAIN f : i < j => f[i] < f[j]
                                    /\ t = [i \in 1 .. n |-> s[f[i]]]
  BY DEF Selected
<1>2. kept \subseteq DOMAIN s /\ \A i \in kept : i \in Nat
  BY LenProperties
<1>3. n \in Nat
  <2>1. DOMAIN s = 1 .. Len(s) /\ Len(s) \in Nat
    BY LenProperties
  <2>2. IsFiniteSet(1 .. Len(s))
    BY <2>1, FS_Interval
  <2>3. kept \subseteq 1 .. Len(s)
    BY <2>1
  <2> QED
    BY <2>2, <2>3, FS_Subset, FS_CardinalityType
<1> HIDE DEF n, kept
<1>4. \A i, j \in 1 .. n : f[i] = f[j] => i = j
  <2> SUFFICES ASSUME NEW i \in 1 .. n, NEW j \in 1 .. n, f[i] = f[j], i # j
               PROVE  FALSE
    OBVIOUS
  <2>1. i < j \/ j < i
    BY <1>3
  <2>2. f[i] \in Nat /\ f[j] \in Nat
    BY <1>1, <1>2
  <2> QED
    BY <1>1, <2>1, <2>2
<1>5. DOMAIN t = 1 .. n /\ \A i \in 1 .. n : t[i] = s[f[i]] /\ f[i] \in DOMAIN s
  BY <1>1, <1>2
<1>6. IsInjective(s) => IsInjective(t)
  BY <1>4, <1>5 DEF IsInjective
<1> QED
  BY <1>6

\* An ordering of a set of ids lists each of them once.
LEMMA OrderingsFacts ==
  ASSUME NEW S \in SUBSET Docs, NEW t \in Orderings(S)
  PROVE  t \in Seq(Docs) /\ Range(t) = S
<1>1. Cardinality(S) \in Nat
  BY DocsAssumption, FS_Subset, FS_CardinalityType
<1>2. t \in [1 .. Cardinality(S) -> Docs]
  BY DEF Orderings
<1> QED
  BY <1>1, <1>2, SeqDef DEF Orderings

LEMMA OrderingsUnique ==
  ASSUME NEW S \in SUBSET Docs, NEW t \in Orderings(S)
  PROVE  IsInjective(t)
<1> DEFINE n == Cardinality(S)
<1>1. IsFiniteSet(S) /\ n \in Nat
  BY DocsAssumption, FS_Subset, FS_CardinalityType
<1>2. IsFiniteSet(1 .. n) /\ Cardinality(1 .. n) = n
  BY <1>1, FS_Interval
<1>3. t \in Surjection(1 .. n, S)
  BY DEF Orderings, Surjection, Range
<1>4. t \in Injection(1 .. n, S)
  BY <1>1, <1>2, <1>3, FS_SurjSameCardinalityImpliesInj
<1> QED
  BY <1>4 DEF Injection

LEMMA AppendRange ==
  ASSUME NEW s \in Seq(Docs), NEW d \in Docs
  PROVE  Append(s, d) \in Seq(Docs) /\ Range(Append(s, d)) = Range(s) \cup {d}
<1>1. /\ Append(s, d) \in Seq(Docs)
      /\ Len(Append(s, d)) = Len(s) + 1
      /\ \A i \in 1 .. Len(s) : Append(s, d)[i] = s[i]
      /\ Append(s, d)[Len(s) + 1] = d
  BY AppendProperties
<1>2. Len(s) \in Nat
  BY LenProperties
<1>3. Range(s) = {s[i] : i \in 1 .. Len(s)}
  BY RangeEquality
<1>4. Range(Append(s, d)) = {Append(s, d)[i] : i \in 1 .. Len(s) + 1}
  BY <1>1, RangeEquality
<1> QED
  BY <1>1, <1>2, <1>3, <1>4

LEMMA AppendUnique ==
  ASSUME NEW s \in Seq(Docs), NEW d \in Docs, IsInjective(s), d \notin Range(s)
  PROVE  IsInjective(Append(s, d))
<1> DEFINE n == Len(s)
           t == Append(s, d)
<1>1. /\ n \in Nat /\ DOMAIN s = 1 .. n
      /\ t \in Seq(Docs) /\ Len(t) = n + 1 /\ t[n + 1] = d
      /\ \A i \in 1 .. n : t[i] = s[i]
  BY LenProperties, AppendProperties
<1>2. DOMAIN t = 1 .. n + 1
  BY <1>1, LenProperties
<1>3. \A i \in 1 .. n : s[i] # d
  BY <1>1 DEF Range
<1>4. \A i, j \in 1 .. n : s[i] = s[j] => i = j
  BY <1>1 DEF IsInjective
<1> HIDE DEF n, t
<1>5. \A i, j \in 1 .. n + 1 : t[i] = t[j] => i = j
  <2> SUFFICES ASSUME NEW i \in 1 .. n + 1, NEW j \in 1 .. n + 1, t[i] = t[j]
               PROVE  i = j
    OBVIOUS
  <2>1. (i \in 1 .. n \/ i = n + 1) /\ (j \in 1 .. n \/ j = n + 1)
    BY <1>1
  <2> QED
    BY <1>1, <1>3, <1>4, <2>1
<1>6. IsInjective(t)
  BY <1>2, <1>5 DEF IsInjective
<1> QED
  BY <1>6 DEF t

LEMMA ConcatUnique ==
  ASSUME NEW a \in Seq(Docs), NEW b \in Seq(Docs), IsInjective(a), IsInjective(b),
         Range(a) \cap Range(b) = {}
  PROVE  IsInjective(a \o b)
<1> DEFINE m == Len(a)
           n == Len(b)
           s == a \o b
<1>1. /\ m \in Nat /\ n \in Nat /\ DOMAIN a = 1 .. m /\ DOMAIN b = 1 .. n
      /\ s \in Seq(Docs) /\ Len(s) = m + n
      /\ \A i \in 1 .. m + n : s[i] = IF i <= m THEN a[i] ELSE b[i - m]
  BY LenProperties, ConcatProperties
<1>2. DOMAIN s = 1 .. m + n
  BY <1>1, LenProperties
<1>3. \A i \in 1 .. m, j \in 1 .. n : a[i] # b[j]
  BY <1>1 DEF Range
<1> HIDE DEF m, n, s
<1>4. ASSUME NEW i \in 1 .. m + n, NEW j \in 1 .. m + n, s[i] = s[j]
      PROVE  i = j
  <2>1. CASE i <= m /\ j <= m
    <3>1. i \in DOMAIN a /\ j \in DOMAIN a /\ a[i] = a[j]
      BY <1>1, <1>4, <2>1
    <3> QED
      BY <3>1 DEF IsInjective
  <2>2. CASE ~(i <= m) /\ ~(j <= m)
    <3>1. i - m \in DOMAIN b /\ j - m \in DOMAIN b /\ b[i - m] = b[j - m]
      BY <1>1, <1>4, <2>2
    <3>2. i - m = j - m
      BY <3>1 DEF IsInjective
    <3> QED
      BY <1>1, <3>2
  <2>3. CASE i <= m /\ ~(j <= m)
    <3>1. i \in 1 .. m /\ j - m \in 1 .. n /\ a[i] = b[j - m]
      BY <1>1, <1>4, <2>3
    <3> QED
      BY <1>3, <3>1
  <2>4. CASE ~(i <= m) /\ j <= m
    <3>1. j \in 1 .. m /\ i - m \in 1 .. n /\ a[j] = b[i - m]
      BY <1>1, <1>4, <2>4
    <3> QED
      BY <1>3, <3>1
  <2> QED
    BY <2>1, <2>2, <2>3, <2>4
<1>5. IsInjective(s)
  BY <1>2, <1>4 DEF IsInjective
<1> QED
  BY <1>5 DEF s

\* Saving a version keeps the history well-formed and within the limit.
LEMMA SavedFacts ==
  ASSUME NEW h \in Seq(Values), Len(h) <= MaxVersions, NEW v \in Values
  PROVE  Saved(h, v) \in Seq(Values) /\ Len(Saved(h, v)) <= MaxVersions
<1> DEFINE g == Append(h, v)
<1>1. g \in Seq(Values) /\ Len(g) = Len(h) + 1 /\ Len(h) \in Nat
  BY AppendProperties, LenProperties
<1>2. MaxVersions \in Nat
  BY VersionsAssumption
<1> HIDE DEF g
<1>3. CASE Len(g) > MaxVersions
  <2>1. \A i \in Len(g) - MaxVersions + 1 .. Len(g) : g[i] \in Values
    BY <1>1, <1>2, <1>3, ElementOfSeq
  <2>2. /\ SubSeq(g, Len(g) - MaxVersions + 1, Len(g)) \in Seq(Values)
        /\ Len(SubSeq(g, Len(g) - MaxVersions + 1, Len(g))) <= MaxVersions
    BY <2>1, <1>1, <1>2, <1>3, SubSeqProperties
  <2> QED
    BY <2>2, <1>3 DEF Saved, g
<1>4. CASE ~(Len(g) > MaxVersions)
  BY <1>1, <1>2, <1>4 DEF Saved, g
<1> QED
  BY <1>3, <1>4

\* The orders a collection push can give production list the stored rows.
LEMMA PushOrdersFacts ==
  ASSUME NEW R, NEW M, NEW w, NEW c, M[w][c].sequence \in Seq(Docs),
         NEW s \in PushOrders(R, M, w, c)
  PROVE  s \in Seq(Docs) /\ Range(s) = Present(R, w, c)
<1> DEFINE P == Present(R, w, c)
           q == M[w][c].sequence
<1>1. PICK a \in Selected(q, P), b \in Orderings(P \ Range(q)) : s = a \o b
  BY DEF PushOrders
<1>2. a \in Seq(Docs) /\ Range(a) = Range(q) \cap P
  BY <1>1, SelectedFacts
<1>3. P \ Range(q) \in SUBSET Docs
  BY DEF Present
<1>4. b \in Seq(Docs) /\ Range(b) = P \ Range(q)
  BY <1>1, <1>3, OrderingsFacts
<1> HIDE DEF P, q
<1>5. s \in Seq(Docs) /\ Range(s) = Range(a) \cup Range(b)
  BY <1>1, <1>2, <1>4, ConcatProperties, RangeConcatenation
<1> QED
  BY <1>2, <1>4, <1>5 DEF P

-----------------------------------------------------------------------------
(* Meta rows that list no document twice.                                  *)

ListOK(m) == m \in Metas /\ IsInjective(m.sequence)

Statusing == [Docs -> Statuses \cup {"none"}]

LEMMA ListParts ==
  ASSUME NEW m, ListOK(m)
  PROVE  m.sequence \in Seq(Docs) /\ m.statuses \in Statusing /\ IsInjective(m.sequence)
BY DEF ListOK, Metas, Statusing

LEMMA OrderedOK ==
  ASSUME NEW s \in Seq(Docs), IsInjective(s), NEW st \in Statusing
  PROVE  ListOK(Ordered(s, st)) /\ Ordered(s, st).sequence = s
BY DEF Ordered, Metas, Statusing, ListOK

LEMMA EmptyListOK == ListOK(NoMeta) /\ ListOK(Ordered(<<>>, NoMeta.statuses))
<1>1. <<>> \in Seq(Docs) /\ IsInjective(<<>>)
  BY EmptySeq DEF IsInjective
<1>2. NoMeta.statuses \in Statusing /\ NoMeta.sequence = <<>> /\ NoMeta \in Metas
  BY <1>1 DEF NoMeta, Statusing, Metas
<1> QED
  BY <1>1, <1>2, OrderedOK DEF ListOK

\* What the document handlers make of the meta row they read.
LEMMA CreatedOK ==
  ASSUME NEW m, ListOK(m), NEW d \in Docs, d \notin Range(m.sequence)
  PROVE  /\ ListOK(Ordered(Append(m.sequence, d), [m.statuses EXCEPT ![d] = "draft"]))
         /\ Range(Append(m.sequence, d)) = Range(m.sequence) \cup {d}
<1>1. /\ m.sequence \in Seq(Docs) /\ IsInjective(m.sequence)
      /\ [m.statuses EXCEPT ![d] = "draft"] \in Statusing
  BY ListParts DEF Statusing, Statuses
<1>2. /\ Append(m.sequence, d) \in Seq(Docs)
      /\ Range(Append(m.sequence, d)) = Range(m.sequence) \cup {d}
  BY <1>1, AppendRange
<1>3. IsInjective(Append(m.sequence, d))
  BY <1>1, AppendUnique
<1> QED
  BY <1>1, <1>2, <1>3, OrderedOK

LEMMA RevertedOK ==
  ASSUME NEW m, ListOK(m), NEW d \in Docs
  PROVE  ListOK(Reverted(m, d)) /\ Reverted(m, d).sequence = m.sequence
<1>1. [m.statuses EXCEPT ![d] = "draft"] \in Statusing
  BY ListParts DEF Statusing, Statuses
<1> QED
  BY <1>1, ListParts, OrderedOK DEF Reverted

LEMMA DeletedOK ==
  ASSUME NEW m, ListOK(m), NEW d \in Docs, NEW s \in Selected(m.sequence, Docs \ {d})
  PROVE  /\ ListOK(Ordered(s, [m.statuses EXCEPT ![d] = "none"]))
         /\ Range(s) = Range(m.sequence) \ {d}
<1>1. /\ m.sequence \in Seq(Docs) /\ IsInjective(m.sequence)
      /\ [m.statuses EXCEPT ![d] = "none"] \in Statusing
  BY ListParts DEF Statusing
<1>2. s \in Seq(Docs) /\ Range(s) = Range(m.sequence) \cap (Docs \ {d}) /\ IsInjective(s)
  BY <1>1, SelectedFacts, SelectedUnique
<1>3. Range(m.sequence) \subseteq Docs
  BY <1>1, RangeOfSeq
<1> QED
  BY <1>1, <1>2, <1>3, OrderedOK

LEMMA WithStatusOK ==
  ASSUME NEW m, ListOK(m), NEW d \in Docs, NEW st \in Statuses
  PROVE  /\ ListOK(WithStatus(m, d, st))
         /\ Range(WithStatus(m, d, st).sequence) = Range(m.sequence) \cup {d}
<1> DEFINE q == IF d \in Range(m.sequence) THEN m.sequence ELSE Append(m.sequence, d)
<1>1. /\ m.sequence \in Seq(Docs) /\ IsInjective(m.sequence)
      /\ [m.statuses EXCEPT ![d] = st] \in Statusing
  BY ListParts DEF Statusing
<1>2. q \in Seq(Docs) /\ Range(q) = Range(m.sequence) \cup {d} /\ IsInjective(q)
  BY <1>1, AppendRange, AppendUnique
<1>3. WithStatus(m, d, st) = Ordered(q, [m.statuses EXCEPT ![d] = st])
  BY DEF WithStatus
<1> HIDE DEF q
<1> QED
  BY <1>1, <1>2, <1>3, OrderedOK

-----------------------------------------------------------------------------
(* Jobs.                                                                   *)

Cells == [Collections -> [Docs -> Rows \cup {NoRow}]]
Keys  == Collections \X Docs

\* The place a statement is about.
At(s)    == s.w \in AllWorkspaces /\ s.c \in Collections
AtDoc(s) == At(s) /\ s.d \in Docs

\* Nothing a statement writes lists a document twice, whenever it is executed.
StatementOK(s) ==
    /\ s.do = "upsert row"         => AtDoc(s) /\ s.row \in Rows \cup {NoRow}
    /\ s.do = "upsert meta"        => At(s) /\ ListOK(s.meta)
    /\ s.do = "add version"        => AtDoc(s) /\ s.data \in Values
    /\ s.do = "read row"           => /\ AtDoc(s) /\ ListOK(s.meta)
                                      /\ s.change.kind \in {"data", "restore"}
                                            => s.change.data \in Values
    /\ s.do = "push document"      => s.w \in Workspaces /\ AtDoc(s) /\ s.row \in Rows
    /\ s.do = "read rows to push"  => s.w \in AllWorkspaces
    /\ s.do = "read meta to push"  => s.w \in AllWorkspaces /\ s.rows \in Cells
    /\ s.do = "replace production" => /\ s.rows \in Cells
                                      /\ s.meta \in [Collections -> Metas]
                                      /\ \A c \in Collections : ListOK(s.meta[c])
    /\ s.do = "read mine"          => s.w \in Workspaces /\ s.scope \subseteq Keys
    /\ s.do = "read theirs"        => /\ s.w \in Workspaces /\ s.scope \subseteq Keys
                                      /\ s.mine \in Cells
    /\ s.do = "apply pull"         => /\ s.w \in Workspaces
                                      /\ s.mine \in Cells /\ s.theirs \in Cells
                                      /\ s.in \subseteq Keys
                                      /\ \A k \in s.in : s.theirs[k[1]][k[2]] # NoRow
    /\ s.do = "delete workspace"   => s.w \in Workspaces
    /\ s.do = "clear collection"   => At(s)
    /\ s.do = "delete collection"  => s.c \in Collections

JobOK(j) == \E S : j \in Seq(S) /\ \A s \in S : StatementOK(s)

LEMMA JobRest ==
  ASSUME NEW j, JobOK(j), j # <<>>
  PROVE  StatementOK(Head(j)) /\ JobOK(Tail(j))
<1>1. PICK S : j \in Seq(S) /\ \A s \in S : StatementOK(s)
  BY DEF JobOK
<1>2. Head(j) \in S /\ Tail(j) \in Seq(S)
  BY <1>1, HeadTailProperties
<1> QED
  BY <1>1, <1>2 DEF JobOK

LEMMA JobConcat ==
  ASSUME NEW i, NEW j, JobOK(i), JobOK(j)
  PROVE  JobOK(i \o j)
<1>1. PICK S : i \in Seq(S) /\ \A s \in S : StatementOK(s)
  BY DEF JobOK
<1>2. PICK T : j \in Seq(T) /\ \A s \in T : StatementOK(s)
  BY DEF JobOK
<1> DEFINE U == S \cup T
<1>3. Seq(S) \subseteq Seq(U) /\ Seq(T) \subseteq Seq(U)
  BY SeqMonotonic
<1>4. i \o j \in Seq(U)
  BY <1>1, <1>2, <1>3, ConcatProperties
<1> QED
  BY <1>1, <1>2, <1>4 DEF JobOK

LEMMA JobOf ==
  /\ JobOK(<<>>)
  /\ \A a : StatementOK(a) => JobOK(<<a>>)
  /\ \A a, b : StatementOK(a) /\ StatementOK(b) => JobOK(<<a, b>>)
  /\ \A a, b, c : StatementOK(a) /\ StatementOK(b) /\ StatementOK(c) => JobOK(<<a, b, c>>)
<1>1. JobOK(<<>>)
  <2> DEFINE S == {}
  <2>1. \A s \in S : StatementOK(s)
    OBVIOUS
  <2> HIDE DEF S
  <2>2. <<>> \in Seq(S)
    OBVIOUS
  <2> QED
    BY <2>1, <2>2 DEF JobOK
<1>2. ASSUME NEW a, StatementOK(a)
      PROVE  JobOK(<<a>>)
  <2> DEFINE S == {a}
  <2>1. a \in S /\ \A s \in S : StatementOK(s)
    BY <1>2
  <2> HIDE DEF S
  <2>2. <<a>> \in Seq(S)
    BY <2>1
  <2> QED
    BY <2>1, <2>2 DEF JobOK
<1>3. ASSUME NEW a, NEW b, StatementOK(a), StatementOK(b)
      PROVE  JobOK(<<a, b>>)
  <2> DEFINE S == {a, b}
  <2>1. a \in S /\ b \in S /\ \A s \in S : StatementOK(s)
    BY <1>3
  <2> HIDE DEF S
  <2>2. <<a, b>> \in Seq(S)
    BY <2>1
  <2> QED
    BY <2>1, <2>2 DEF JobOK
<1>4. ASSUME NEW a, NEW b, NEW c, StatementOK(a), StatementOK(b), StatementOK(c)
      PROVE  JobOK(<<a, b, c>>)
  <2> DEFINE S == {a, b, c}
  <2>1. a \in S /\ b \in S /\ c \in S /\ \A s \in S : StatementOK(s)
    BY <1>4
  <2> HIDE DEF S
  <2>2. <<a, b, c>> \in Seq(S)
    BY <2>1
  <2> QED
    BY <2>1, <2>2 DEF JobOK
<1> QED
  BY <1>1, <1>2, <1>3, <1>4

-----------------------------------------------------------------------------
(* The inductive invariant: the types of the tables and of everything the  *)
(* pending statements hold, and no repetition in any list, be it in a      *)
(* table or in a meta row somebody has read and is going to write.         *)

RowsOK == rows \in [AllWorkspaces -> Cells]

ListsOK == /\ meta \in [AllWorkspaces -> [Collections -> Metas]]
           /\ \A w \in AllWorkspaces, c \in Collections : ListOK(meta[w][c])

VersionsOK ==
    /\ versions \in [AllWorkspaces -> [Collections -> [Docs -> Seq(Values)]]]
    /\ \A w \in AllWorkspaces, c \in Collections, d \in Docs :
          Len(versions[w][c][d]) <= MaxVersions

RecordsOK == /\ workspaces \subseteq Workspaces /\ IsFiniteSet(workspaces)
             /\ collections \in [Collections -> {"unused", "live", "deleted"}]

JobsOK == DOMAIN job = Threads /\ \A p \in Threads : JobOK(job[p])

IInv == RowsOK /\ ListsOK /\ VersionsOK /\ RecordsOK /\ JobsOK

LEMMA IInvGives == IInv => TypeOK /\ SequencesAreUnique
BY DEF IInv, RowsOK, ListsOK, VersionsOK, RecordsOK, JobsOK, TypeOK, Cells,
       SequencesAreUnique, ListOK

LEMMA Places == Production \in AllWorkspaces /\ \A w \in Workspaces : w \in AllWorkspaces
BY DEF AllWorkspaces

LEMMA LoopIsThread == Loop \in Threads /\ \A p \in Pool : p \in Threads
BY DEF Threads

LEMMA RowIsNotNoRow == NoRow \notin Rows
BY NoRowAssumption DEF Rows, Statuses

LEMMA DraftOK == \A v \in Values : Draft(v) \in Rows
BY DEF Draft, Rows, Statuses

LEMMA RowType ==
  ASSUME RowsOK, NEW w \in AllWorkspaces, NEW c \in Collections, NEW d \in Docs
  PROVE  /\ rows[w] \in Cells /\ rows[w][c] \in [Docs -> Rows \cup {NoRow}]
         /\ rows[w][c][d] \in Rows \cup {NoRow}
BY DEF RowsOK, Cells

LEMMA ListType ==
  ASSUME ListsOK, NEW w \in AllWorkspaces, NEW c \in Collections
  PROVE  /\ ListOK(meta[w][c]) /\ meta[w] \in [Collections -> Metas]
         /\ meta[w][c].sequence \in Seq(Docs)
BY ListParts DEF ListsOK

LEMMA PutRow ==
  ASSUME RowsOK, NEW w \in AllWorkspaces, NEW c \in Collections, NEW d \in Docs,
         NEW r \in Rows \cup {NoRow}, rows' = [rows EXCEPT ![w][c][d] = r]
  PROVE  RowsOK'
BY DEF RowsOK, Cells

LEMMA PutCells ==
  ASSUME RowsOK, NEW w \in AllWorkspaces, NEW R \in Cells, rows' = [rows EXCEPT ![w] = R]
  PROVE  RowsOK'
BY DEF RowsOK

LEMMA PutMeta ==
  ASSUME ListsOK, NEW w \in AllWorkspaces, NEW c \in Collections,
         NEW m, ListOK(m), meta' = [meta EXCEPT ![w][c] = m]
  PROVE  ListsOK'
<1>1. m \in Metas
  BY DEF ListOK
<1> QED
  BY <1>1 DEF ListsOK

LEMMA PutMetas ==
  ASSUME ListsOK, NEW w \in AllWorkspaces, NEW M \in [Collections -> Metas],
         \A c \in Collections : ListOK(M[c]), meta' = [meta EXCEPT ![w] = M]
  PROVE  ListsOK'
BY DEF ListsOK

\* The job of one thread is replaced.
LEMMA PutJob ==
  ASSUME JobsOK, NEW p \in Threads, NEW t, JobOK(t), job' = [job EXCEPT ![p] = t]
  PROVE  JobsOK'
BY DEF JobsOK

LEMMA BeginKeeps ==
  ASSUME IInv, NEW p \in Threads, NEW t, JobOK(t), Begin(p, t)
  PROVE  IInv'
<1>1. JobsOK'
  BY PutJob DEF Begin, IInv
<1>2. UNCHANGED <<rows, meta, versions, workspaces, collections>>
  BY DEF Begin, tables
<1> QED
  BY <1>1, <1>2 DEF IInv, RowsOK, ListsOK, VersionsOK, RecordsOK

\* What a thread is about to execute, and the rest of its job.
LEMMA HeadOK ==
  ASSUME IInv, NEW p \in Threads, ~Idle(p)
  PROVE  StatementOK(Head(job[p])) /\ JobOK(Tail(job[p]))
BY JobRest DEF IInv, JobsOK, Idle

LEMMA DoneKeeps ==
  ASSUME IInv, NEW p \in Threads, ~Idle(p), Done(p)
  PROVE  JobsOK'
<1> DEFINE t == Tail(job[p])
<1>1. JobOK(t)
  BY HeadOK
<1>2. job' = [job EXCEPT ![p] = t]
  BY DEF Done
<1> HIDE DEF t
<1> QED
  BY <1>1, <1>2, PutJob DEF IInv

LEMMA ContinueKeeps ==
  ASSUME IInv, NEW p \in Threads, ~Idle(p), NEW t, JobOK(t), Continue(p, t),
         UNCHANGED tables
  PROVE  IInv'
<1> DEFINE u == t \o Tail(job[p])
<1>1. JobOK(u)
  BY HeadOK, JobConcat
<1>2. job' = [job EXCEPT ![p] = u]
  BY DEF Continue
<1> HIDE DEF u
<1>3. JobsOK'
  BY <1>1, <1>2, PutJob DEF IInv
<1>4. UNCHANGED <<rows, meta, versions, workspaces, collections>>
  BY DEF tables
<1> QED
  BY <1>3, <1>4 DEF IInv, RowsOK, ListsOK, VersionsOK, RecordsOK

-----------------------------------------------------------------------------
(* Statements keep the invariant.                                          *)

LEMMA UpsertRowKeeps ==
  ASSUME IInv, NEW p \in Threads, ExecUpsertRow(p)
  PROVE  IInv'
<1> DEFINE s == Head(job[p])
<1>1. ~Idle(p) /\ s.do = "upsert row"
  BY DEF ExecUpsertRow, Doing
<1>2. AtDoc(s) /\ s.row \in Rows \cup {NoRow}
  BY <1>1, HeadOK DEF StatementOK
<1>3. /\ rows' = [rows EXCEPT ![s.w][s.c][s.d] = s.row]
      /\ UNCHANGED <<meta, versions, workspaces, collections>>
  BY DEF ExecUpsertRow
<1>4. JobsOK'
  BY <1>1, DoneKeeps DEF ExecUpsertRow
<1> HIDE DEF s
<1>5. RowsOK'
  BY <1>2, <1>3, PutRow DEF IInv, AtDoc, At
<1> QED
  BY <1>3, <1>4, <1>5 DEF IInv, ListsOK, VersionsOK, RecordsOK

LEMMA UpsertMetaKeeps ==
  ASSUME IInv, NEW p \in Threads, ExecUpsertMeta(p)
  PROVE  IInv'
<1> DEFINE s == Head(job[p])
<1>1. ~Idle(p) /\ s.do = "upsert meta"
  BY DEF ExecUpsertMeta, Doing
<1>2. At(s) /\ ListOK(s.meta)
  BY <1>1, HeadOK DEF StatementOK
<1>3. /\ meta' = [meta EXCEPT ![s.w][s.c] = s.meta]
      /\ UNCHANGED <<rows, versions, workspaces, collections>>
  BY DEF ExecUpsertMeta
<1>4. JobsOK'
  BY <1>1, DoneKeeps DEF ExecUpsertMeta
<1> HIDE DEF s
<1>5. ListsOK'
  BY <1>2, <1>3, PutMeta DEF IInv, At
<1> QED
  BY <1>3, <1>4, <1>5 DEF IInv, RowsOK, VersionsOK, RecordsOK

LEMMA AddVersionKeeps ==
  ASSUME IInv, NEW p \in Threads, ExecAddVersion(p)
  PROVE  IInv'
<1> DEFINE s   == Head(job[p])
           new == Saved(versions[s.w][s.c][s.d], s.data)
<1>1. ~Idle(p) /\ s.do = "add version"
  BY Zenon DEF ExecAddVersion, Doing
<1>2. AtDoc(s) /\ s.data \in Values
  BY <1>1, HeadOK DEF StatementOK
<1>3. /\ versions' = [versions EXCEPT ![s.w][s.c][s.d] = new]
      /\ UNCHANGED <<rows, meta, workspaces, collections>>
  BY Zenon DEF ExecAddVersion
<1>4. JobsOK'
  BY <1>1, DoneKeeps, Zenon DEF ExecAddVersion
<1> HIDE DEF s
<1>5. new \in Seq(Values) /\ Len(new) <= MaxVersions
  BY <1>2, SavedFacts DEF IInv, VersionsOK, AtDoc, At
<1> HIDE DEF new
<1>6. VersionsOK'
  BY <1>2, <1>3, <1>5 DEF IInv, VersionsOK, AtDoc, At
<1> QED
  BY <1>3, <1>4, <1>6 DEF IInv, RowsOK, ListsOK, RecordsOK

\* The statements of the document handlers.
LEMMA CommitOK ==
  ASSUME NEW w \in AllWorkspaces, NEW c \in Collections, NEW d \in Docs
  PROVE  /\ \A r \in Rows \cup {NoRow} : StatementOK(UpsertRow(w, c, d, r))
         /\ \A m : ListOK(m) => StatementOK(UpsertMeta(w, c, m))
         /\ \A v \in Values : StatementOK(AddVersion(w, c, d, v))
<1>1. ASSUME NEW r \in Rows \cup {NoRow}
      PROVE  StatementOK(UpsertRow(w, c, d, r))
  BY DEF UpsertRow, StatementOK, AtDoc, At
<1>2. ASSUME NEW m, ListOK(m)
      PROVE  StatementOK(UpsertMeta(w, c, m))
  BY <1>2 DEF UpsertMeta, StatementOK, AtDoc, At
<1>3. ASSUME NEW v \in Values
      PROVE  StatementOK(AddVersion(w, c, d, v))
  BY DEF AddVersion, StatementOK, AtDoc, At
<1> QED
  BY <1>1, <1>2, <1>3

\* The row an edit writes, having found r.
Written(s, r) ==
    [data   |-> IF s.change.kind \in {"data", "restore"} THEN s.change.data ELSE r.data,
     status |-> IF (s.change.kind = "data" /\ r.status = "published") \/ s.change.kind = "status"
                THEN "draft" ELSE r.status]

\* The four lists of commits an edit may make.
LEMMA EditsAre ==
  ASSUME NEW s, NEW r
  PROVE  LET version == AddVersion(s.w, s.c, s.d, r.data)
             revert  == UpsertMeta(s.w, s.c, Reverted(s.meta, s.d))
             write   == UpsertRow(s.w, s.c, s.d, Written(s, r))
         IN  \/ Edits(s, r) = <<version>>
             \/ s.change.kind = "status" /\ Edits(s, r) = <<write, revert>>
             \/ s.change.kind # "status" /\ Edits(s, r) = <<version, revert, write>>
             \/ s.change.kind # "status" /\ Edits(s, r) = <<version, write>>
<1> DEFINE k == Commits(s, r)
<1>1. /\ k.version = AddVersion(s.w, s.c, s.d, r.data)
      /\ k.revert = UpsertMeta(s.w, s.c, Reverted(s.meta, s.d))
      /\ k.write = UpsertRow(s.w, s.c, s.d, Written(s, r))
  BY DEF Commits, Written
<1>2. Edits(s, r) = CASE s.change.kind = "invalid" -> <<k.version>>
                      [] s.change.kind = "status"  -> <<k.write, k.revert>>
                      [] k.dirty                   -> <<k.version, k.revert, k.write>>
                      [] OTHER                     -> <<k.version, k.write>>
  BY DEF Edits
<1>3. k.dirty => s.change.kind = "data"
  BY DEF Commits
<1> HIDE DEF k
<1>4. \/ Edits(s, r) = <<k.version>>
      \/ s.change.kind = "status" /\ Edits(s, r) = <<k.write, k.revert>>
      \/ s.change.kind # "status" /\ Edits(s, r) = <<k.version, k.revert, k.write>>
      \/ s.change.kind # "status" /\ Edits(s, r) = <<k.version, k.write>>
  <2>1. CASE s.change.kind = "invalid"
    BY <1>2, <1>3, <2>1
  <2>2. CASE s.change.kind = "status"
    BY <1>2, <1>3, <2>2
  <2>3. CASE s.change.kind \notin {"invalid", "status"} /\ k.dirty
    BY <1>2, <2>3
  <2>4. CASE s.change.kind \notin {"invalid", "status"} /\ ~k.dirty
    BY <1>2, <2>4
  <2> QED
    BY <2>1, <2>2, <2>3, <2>4
<1> QED
  BY <1>1, <1>4

LEMMA WrittenOK ==
  ASSUME NEW s, s.do = "read row", StatementOK(s), NEW r \in Rows
  PROVE  Written(s, r) \in Rows
<1>1. r.data \in Values /\ r.status \in Statuses
  BY DEF Rows
<1>2. s.change.kind \in {"data", "restore"} => s.change.data \in Values
  BY DEF StatementOK
<1> QED
  BY <1>1, <1>2 DEF Written, Rows, Statuses

\* An edit that found a row continues with statements that are well-formed.
LEMMA EditsOK ==
  ASSUME NEW s, s.do = "read row", StatementOK(s), NEW r \in Rows
  PROVE  JobOK(Edits(s, r))
<1> DEFINE version == AddVersion(s.w, s.c, s.d, r.data)
           revert  == UpsertMeta(s.w, s.c, Reverted(s.meta, s.d))
           write   == UpsertRow(s.w, s.c, s.d, Written(s, r))
<1>1. AtDoc(s) /\ ListOK(s.meta) /\ r.data \in Values
  BY DEF StatementOK, Rows
<1>2. Written(s, r) \in Rows /\ ListOK(Reverted(s.meta, s.d))
  BY <1>1, WrittenOK, RevertedOK DEF AtDoc
<1>3. StatementOK(version) /\ StatementOK(revert) /\ StatementOK(write)
  BY <1>1, <1>2, CommitOK DEF AtDoc, At
<1>4. \/ Edits(s, r) = <<version>>
      \/ Edits(s, r) = <<write, revert>>
      \/ Edits(s, r) = <<version, revert, write>>
      \/ Edits(s, r) = <<version, write>>
  BY EditsAre
<1> HIDE DEF version, revert, write
<1> QED
  BY <1>3, <1>4, JobOf

LEMMA ReadRowKeeps ==
  ASSUME IInv, NEW p \in Threads, ExecReadRow(p)
  PROVE  IInv'
<1> DEFINE s == Head(job[p])
           r == rows[s.w][s.c][s.d]
           t == IF r = NoRow THEN <<>> ELSE Edits(s, r)
<1>1. ~Idle(p) /\ s.do = "read row"
  BY DEF ExecReadRow, Doing
<1>2. StatementOK(s) /\ AtDoc(s)
  BY <1>1, HeadOK DEF StatementOK
<1>3. Continue(p, t) /\ UNCHANGED tables
  BY Zenon DEF ExecReadRow
<1> HIDE DEF s
<1>4. r \in Rows \cup {NoRow}
  BY <1>2, RowType DEF IInv, AtDoc, At
<1> HIDE DEF r
<1>5. JobOK(t)
  BY <1>1, <1>2, <1>4, EditsOK, JobOf DEF s
<1> HIDE DEF t
<1> QED
  BY <1>1, <1>3, <1>5, ContinueKeeps

LEMMA PublishedRow ==
  ASSUME NEW r \in Rows
  PROVE  [r EXCEPT !.status = "published"] \in Rows
BY DEF Rows, Statuses

LEMMA ExecPushDocumentKeeps ==
  ASSUME IInv, NEW p \in Threads, ExecPushDocument(p)
  PROVE  IInv'
<1> DEFINE s      == Head(job[p])
           pushed == [s.row EXCEPT !.status = "published"]
           mine   == IF rows[s.w][s.c][s.d] = NoRow THEN NoRow ELSE pushed
           R      == [rows EXCEPT ![s.w][s.c][s.d] = mine]
           m      == WithStatus(meta[s.w][s.c], s.d, "published")
           M      == [meta EXCEPT ![s.w][s.c] = m]
           n      == WithStatus(meta[Production][s.c], s.d, "published")
<1>1. ~Idle(p) /\ s.do = "push document"
  BY DEF ExecPushDocument, Doing
<1>2. s.w \in Workspaces /\ s.w # Production /\ AtDoc(s) /\ s.row \in Rows
  BY <1>1, HeadOK, ProductionAssumption DEF StatementOK
<1>3. /\ rows' = PushDocumentRows(rows, s.w, s.c, s.d, s.row)
      /\ meta' = PushDocumentMeta(meta, s.w, s.c, s.d)
      /\ UNCHANGED <<versions, workspaces, collections>>
  BY DEF ExecPushDocument
<1>4. JobsOK'
  BY <1>1, DoneKeeps DEF ExecPushDocument
<1> HIDE DEF s
<1>5. pushed \in Rows
  BY <1>2, PublishedRow
<1>6. rows' = [R EXCEPT ![Production][s.c][s.d] = pushed]
  BY <1>3 DEF PushDocumentRows
<1>7. meta' = [M EXCEPT ![Production][s.c] = n]
  BY <1>2, <1>3 DEF PushDocumentMeta
<1> HIDE DEF pushed
<1>8. RowsOK'
  <2>1. R \in [AllWorkspaces -> Cells]
    BY <1>2, <1>5 DEF IInv, RowsOK, Cells, AtDoc, At
  <2> HIDE DEF R
  <2> QED
    BY <1>2, <1>5, <1>6, <2>1, Places DEF RowsOK, Cells, AtDoc, At
<1>9. ListsOK'
  <2>1. ListOK(m) /\ m \in Metas
    <3>1. ListOK(meta[s.w][s.c])
      BY <1>2, ListType DEF IInv, AtDoc, At
    <3> QED
      BY <1>2, <3>1, WithStatusOK DEF AtDoc, Statuses, ListOK
  <2> HIDE DEF m
  <2>2. /\ M \in [AllWorkspaces -> [Collections -> Metas]]
        /\ \A x \in AllWorkspaces, c \in Collections : ListOK(M[x][c])
    BY <1>2, <2>1 DEF IInv, ListsOK, AtDoc, At
  <2> HIDE DEF M
  <2>3. ListOK(n) /\ n \in Metas
    <3>1. ListOK(meta[Production][s.c])
      BY <1>2, ListType, Places DEF IInv, AtDoc, At
    <3> QED
      BY <1>2, <3>1, WithStatusOK DEF AtDoc, Statuses, ListOK
  <2> HIDE DEF n
  <2> QED
    BY <1>2, <1>7, <2>2, <2>3, Places DEF ListsOK, AtDoc, At
<1> QED
  BY <1>3, <1>4, <1>8, <1>9 DEF IInv, VersionsOK, RecordsOK

LEMMA ReadRowsToPushKeeps ==
  ASSUME IInv, NEW p \in Threads, ExecReadRowsToPush(p)
  PROVE  IInv'
<1> DEFINE s == Head(job[p])
           a == [do |-> "read meta to push", w |-> s.w, rows |-> rows[s.w]]
           t == <<a>>
<1>1. ~Idle(p) /\ s.do = "read rows to push"
  BY DEF ExecReadRowsToPush, Doing
<1>2. s.w \in AllWorkspaces
  BY <1>1, HeadOK DEF StatementOK
<1>3. Continue(p, t) /\ UNCHANGED tables
  BY DEF ExecReadRowsToPush
<1>4. rows[s.w] \in Cells
  BY <1>2 DEF IInv, RowsOK
<1>5. StatementOK(a)
  BY <1>2, <1>4 DEF StatementOK
<1> HIDE DEF s, a
<1>6. JobOK(t)
  BY <1>5, JobOf
<1> HIDE DEF t
<1> QED
  BY <1>1, <1>3, <1>6, ContinueKeeps

LEMMA ReadMetaToPushKeeps ==
  ASSUME IInv, NEW p \in Threads, ExecReadMetaToPush(p)
  PROVE  IInv'
<1> DEFINE s == Head(job[p])
           a == [do |-> "replace production", rows |-> s.rows, meta |-> meta[s.w]]
           t == <<a>>
<1>1. ~Idle(p) /\ s.do = "read meta to push"
  BY DEF ExecReadMetaToPush, Doing
<1>2. s.w \in AllWorkspaces /\ s.rows \in Cells
  BY <1>1, HeadOK DEF StatementOK
<1>3. Continue(p, t) /\ UNCHANGED tables
  BY DEF ExecReadMetaToPush
<1>4. meta[s.w] \in [Collections -> Metas] /\ \A c \in Collections : ListOK(meta[s.w][c])
  BY <1>2 DEF IInv, ListsOK
<1>5. StatementOK(a)
  BY <1>2, <1>4 DEF StatementOK
<1> HIDE DEF s, a
<1>6. JobOK(t)
  BY <1>5, JobOf
<1> HIDE DEF t
<1> QED
  BY <1>1, <1>3, <1>6, ContinueKeeps

LEMMA ReplaceProductionKeeps ==
  ASSUME IInv, NEW p \in Threads, ExecReplaceProduction(p)
  PROVE  IInv'
<1> DEFINE s == Head(job[p])
<1>1. ~Idle(p) /\ s.do = "replace production"
  BY DEF ExecReplaceProduction, Doing
<1>2. /\ s.rows \in Cells /\ s.meta \in [Collections -> Metas]
      /\ \A c \in Collections : ListOK(s.meta[c])
  BY <1>1, HeadOK DEF StatementOK
<1>3. /\ rows' = [rows EXCEPT ![Production] = s.rows]
      /\ meta' = [meta EXCEPT ![Production] = s.meta]
      /\ UNCHANGED <<versions, workspaces, collections>>
  BY DEF ExecReplaceProduction, PushWorkspace
<1>4. JobsOK'
  BY <1>1, DoneKeeps DEF ExecReplaceProduction
<1> HIDE DEF s
<1>5. RowsOK'
  BY <1>2, <1>3, Places, PutCells DEF IInv
<1>6. ListsOK'
  BY <1>2, <1>3, Places, PutMetas DEF IInv
<1> QED
  BY <1>3, <1>4, <1>5, <1>6 DEF IInv, VersionsOK, RecordsOK

LEMMA ReadMineKeeps ==
  ASSUME IInv, NEW p \in Threads, ExecReadMine(p)
  PROVE  IInv'
<1> DEFINE s == Head(job[p])
           a == [do |-> "read theirs", w |-> s.w, scope |-> s.scope,
                 choices |-> s.choices, mine |-> rows[s.w]]
           t == <<a>>
<1>1. ~Idle(p) /\ s.do = "read mine"
  BY DEF ExecReadMine, Doing
<1>2. s.w \in Workspaces /\ s.scope \subseteq Keys
  BY <1>1, HeadOK DEF StatementOK
<1>3. Continue(p, t) /\ UNCHANGED tables
  BY DEF ExecReadMine
<1>4. rows[s.w] \in Cells
  BY <1>2, Places DEF IInv, RowsOK
<1>5. StatementOK(a)
  BY <1>2, <1>4 DEF StatementOK
<1> HIDE DEF s, a
<1>6. JobOK(t)
  BY <1>5, JobOf
<1> HIDE DEF t
<1> QED
  BY <1>1, <1>3, <1>6, ContinueKeeps

LEMMA IncomingFacts ==
  ASSUME NEW mine, NEW theirs, NEW scope \in SUBSET Keys, NEW res
  PROVE  /\ Incoming(mine, theirs, scope, res) \subseteq Keys
         /\ \A k \in Incoming(mine, theirs, scope, res) : theirs[k[1]][k[2]] # NoRow
BY DEF Incoming

LEMMA ReadTheirsKeeps ==
  ASSUME IInv, NEW p \in Threads, ExecReadTheirs(p)
  PROVE  IInv'
<1> DEFINE s      == Head(job[p])
           theirs == rows[Production]
<1>1. ~Idle(p) /\ s.do = "read theirs"
  BY DEF ExecReadTheirs, Doing
<1>2. s.w \in Workspaces /\ s.scope \subseteq Keys /\ s.mine \in Cells
  BY <1>1, HeadOK DEF StatementOK
<1>3. PICK res \in s.choices :
          Continue(p, <<[do |-> "apply pull", w |-> s.w, mine |-> s.mine, theirs |-> theirs,
                         in |-> Incoming(s.mine, theirs, s.scope, res)]>>)
  BY DEF ExecReadTheirs
<1>4. UNCHANGED tables
  BY DEF ExecReadTheirs
<1> DEFINE in == Incoming(s.mine, theirs, s.scope, res)
           a  == [do |-> "apply pull", w |-> s.w, mine |-> s.mine, theirs |-> theirs, in |-> in]
           t  == <<a>>
<1>5. in \subseteq Keys /\ \A k \in in : theirs[k[1]][k[2]] # NoRow
  BY <1>2, IncomingFacts
<1>6. theirs \in Cells
  BY Places DEF IInv, RowsOK
<1>7. Continue(p, t)
  BY <1>3
<1> HIDE DEF in, theirs
<1>8. StatementOK(a)
  BY <1>2, <1>5, <1>6 DEF StatementOK
<1> HIDE DEF s, a
<1>9. JobOK(t)
  BY <1>8, JobOf
<1> HIDE DEF t
<1> QED
  BY <1>1, <1>4, <1>7, <1>9, ContinueKeeps

\* A pull writes the rows as they were read, and lists the new ids that are
\* not listed by now.
LEMMA PulledRows ==
  ASSUME RowsOK, NEW w \in Workspaces, NEW in \in SUBSET Keys, NEW theirs \in Cells,
         rows' = PullRows(rows, w, in, theirs)
  PROVE  RowsOK'
<1> DEFINE R == [c \in Collections |-> [d \in Docs |->
                    IF <<c, d>> \in in THEN theirs[c][d] ELSE rows[w][c][d]]]
<1>1. R \in Cells
  <2>1. w \in AllWorkspaces
    BY Places
  <2>2. \A c \in Collections, d \in Docs :
           theirs[c][d] \in Rows \cup {NoRow} /\ rows[w][c][d] \in Rows \cup {NoRow}
    BY <2>1, RowType DEF Cells
  <2> QED
    BY <2>2 DEF Cells
<1>2. rows' = [rows EXCEPT ![w] = R]
  BY DEF PullRows
<1> HIDE DEF R
<1> QED
  BY <1>1, <1>2, Places, PutCells

LEMMA PulledMeta ==
  ASSUME RowsOK, ListsOK, NEW w \in Workspaces, NEW in \in SUBSET Keys,
         NEW mine \in Cells, NEW theirs \in Cells,
         \A k \in in : theirs[k[1]][k[2]] # NoRow,
         NEW order \in PullOrders(mine, meta, w, in),
         meta' = PullMeta(meta, w, in, theirs, order)
  PROVE  /\ ListsOK'
         /\ \A x \in AllWorkspaces : x # w => meta'[x] = meta[x]
         /\ \A c \in Collections :
               Range(meta'[w][c].sequence) \subseteq
                   Range(meta[w][c].sequence) \cup {d \in Docs : <<c, d>> \in in}
<1> DEFINE new(c)  == Ordered(meta[w][c].sequence \o order[c],
                              [d \in Docs |-> IF <<c, d>> \in in THEN theirs[c][d].status
                                              ELSE meta[w][c].statuses[d]])
           M       == [c \in Collections |->
                          IF \A d \in Docs : <<c, d>> \notin in THEN meta[w][c] ELSE new(c)]
<1>1. w \in AllWorkspaces
  BY Places
<1>2. ASSUME NEW c \in Collections
      PROVE  /\ ListOK(new(c))
             /\ Range(new(c).sequence) \subseteq
                   Range(meta[w][c].sequence) \cup {d \in Docs : <<c, d>> \in in}
  <2> DEFINE q  == meta[w][c].sequence
             o  == order[c]
             U  == Unlisted(mine, meta, w, in, c)
             st == [d \in Docs |-> IF <<c, d>> \in in THEN theirs[c][d].status
                                   ELSE meta[w][c].statuses[d]]
  <2>1. q \in Seq(Docs) /\ IsInjective(q) /\ meta[w][c].statuses \in Statusing
    BY <1>1, ListType, ListParts
  <2>2. o \in Orderings(U)
    BY DEF PullOrders
  <2>3. U \in SUBSET Docs /\ U \cap Range(q) = {} /\ U \subseteq {d \in Docs : <<c, d>> \in in}
    BY DEF Unlisted
  <2> HIDE DEF U
  <2>4. o \in Seq(Docs) /\ Range(o) = U /\ IsInjective(o)
    BY <2>2, <2>3, OrderingsFacts, OrderingsUnique
  <2>5. st \in Statusing
    <3>1. ASSUME NEW d \in Docs, <<c, d>> \in in
          PROVE  theirs[c][d].status \in Statuses
      <4>1. theirs[c][d] # NoRow
        BY <3>1
      <4>2. theirs[c][d] \in Rows
        BY <4>1 DEF Cells
      <4> QED
        BY <4>2 DEF Rows
    <3> QED
      BY <2>1, <3>1 DEF Statusing
  <2>6. new(c) = Ordered(q \o o, st)
    OBVIOUS
  <2> HIDE DEF q, o, st
  <2>7. q \o o \in Seq(Docs) /\ IsInjective(q \o o)
    BY <2>1, <2>3, <2>4, ConcatProperties, ConcatUnique
  <2>8. Range(q \o o) = Range(q) \cup U
    BY <2>1, <2>4, RangeConcatenation
  <2> HIDE DEF new
  <2> QED
    BY <2>3, <2>5, <2>6, <2>7, <2>8, OrderedOK DEF q
<1>3. meta' = [meta EXCEPT ![w] = M]
  BY DEF PullMeta
<1> HIDE DEF new
<1>4. ASSUME NEW c \in Collections
      PROVE  /\ ListOK(M[c]) /\ M[c] \in Metas
             /\ Range(M[c].sequence) \subseteq
                   Range(meta[w][c].sequence) \cup {d \in Docs : <<c, d>> \in in}
  BY <1>1, <1>2, ListType DEF ListOK
<1>5. M \in [Collections -> Metas]
  BY <1>4
<1> HIDE DEF M
<1>6. ListsOK'
  BY <1>1, <1>3, <1>4, <1>5, PutMetas
<1>7. meta'[w] = M /\ \A x \in AllWorkspaces : x # w => meta'[x] = meta[x]
  BY <1>1, <1>3 DEF ListsOK
<1> QED
  BY <1>4, <1>6, <1>7

LEMMA ApplyPullKeeps ==
  ASSUME IInv, NEW p \in Threads, ExecApplyPull(p)
  PROVE  IInv'
<1> DEFINE s == Head(job[p])
<1>1. ~Idle(p) /\ s.do = "apply pull"
  BY DEF ExecApplyPull, Doing
<1>2. /\ s.w \in Workspaces /\ s.mine \in Cells /\ s.theirs \in Cells /\ s.in \in SUBSET Keys
      /\ \A k \in s.in : s.theirs[k[1]][k[2]] # NoRow
  BY <1>1, HeadOK DEF StatementOK
<1>3. /\ rows' = PullRows(rows, s.w, s.in, s.theirs)
      /\ UNCHANGED <<versions, workspaces, collections>>
  BY DEF ExecApplyPull
<1>4. PICK order \in PullOrders(s.mine, meta, s.w, s.in) :
          meta' = PullMeta(meta, s.w, s.in, s.theirs, order)
  BY DEF ExecApplyPull
<1>5. JobsOK'
  BY <1>1, DoneKeeps DEF ExecApplyPull
<1> HIDE DEF s
<1>6. RowsOK'
  BY <1>2, <1>3, PulledRows DEF IInv
<1>7. ListsOK'
  BY <1>2, <1>4, PulledMeta DEF IInv
<1> QED
  BY <1>3, <1>5, <1>6, <1>7 DEF IInv, VersionsOK, RecordsOK

LEMMA DeleteWorkspaceKeeps ==
  ASSUME IInv, NEW p \in Threads, ExecDeleteWorkspace(p)
  PROVE  IInv'
<1> DEFINE s == Head(job[p])
<1>1. ~Idle(p) /\ s.do = "delete workspace"
  BY DEF ExecDeleteWorkspace, Doing
<1>2. s.w \in AllWorkspaces
  BY <1>1, HeadOK, Places DEF StatementOK
<1>3. /\ rows' = [rows EXCEPT ![s.w] = NoRows]
      /\ meta' = [meta EXCEPT ![s.w] = NoMetas]
      /\ workspaces' = workspaces \ {s.w}
      /\ UNCHANGED <<versions, collections>>
  BY DEF ExecDeleteWorkspace
<1>4. JobsOK'
  BY <1>1, DoneKeeps DEF ExecDeleteWorkspace
<1> HIDE DEF s
<1>5. NoRows \in Cells
  BY DEF NoRows, Cells
<1>6. NoMetas \in [Collections -> Metas] /\ \A c \in Collections : ListOK(NoMetas[c])
  BY EmptyListOK DEF NoMetas, ListOK
<1>7. RowsOK' /\ ListsOK'
  BY <1>2, <1>3, <1>5, <1>6, PutCells, PutMetas DEF IInv
<1>8. RecordsOK'
  <2>1. IsFiniteSet(workspaces \ {s.w})
    BY FS_Subset DEF IInv, RecordsOK
  <2> QED
    BY <1>3, <2>1 DEF IInv, RecordsOK
<1> QED
  BY <1>3, <1>4, <1>7, <1>8 DEF IInv, VersionsOK

LEMMA ClearCollectionKeeps ==
  ASSUME IInv, NEW p \in Threads, ExecClearCollection(p)
  PROVE  IInv'
<1> DEFINE s == Head(job[p])
<1>1. ~Idle(p) /\ s.do = "clear collection"
  BY DEF ExecClearCollection, Doing
<1>2. s.w \in AllWorkspaces /\ s.c \in Collections
  BY <1>1, HeadOK DEF StatementOK, At
<1>3. /\ rows' = [rows EXCEPT ![s.w][s.c] = NoRows[s.c]]
      /\ meta' = [meta EXCEPT ![s.w][s.c] = NoMeta]
      /\ UNCHANGED <<versions, workspaces, collections>>
  BY DEF ExecClearCollection
<1>4. JobsOK'
  BY <1>1, DoneKeeps DEF ExecClearCollection
<1> HIDE DEF s
<1>5. NoRows[s.c] \in [Docs -> Rows \cup {NoRow}]
  BY <1>2 DEF NoRows
<1>6. RowsOK'
  BY <1>2, <1>3, <1>5 DEF IInv, RowsOK, Cells
<1>7. ListsOK'
  BY <1>2, <1>3, EmptyListOK, PutMeta DEF IInv
<1> QED
  BY <1>3, <1>4, <1>6, <1>7 DEF IInv, VersionsOK, RecordsOK

LEMMA ExecDeleteCollectionKeeps ==
  ASSUME IInv, NEW p \in Threads, ExecDeleteCollection(p)
  PROVE  IInv'
<1> DEFINE s == Head(job[p])
<1>1. ~Idle(p) /\ s.do = "delete collection"
  BY DEF ExecDeleteCollection, Doing
<1>2. s.c \in Collections
  BY <1>1, HeadOK DEF StatementOK
<1>3. /\ collections' = [collections EXCEPT ![s.c] = "deleted"]
      /\ UNCHANGED <<rows, meta, versions, workspaces>>
  BY DEF ExecDeleteCollection
<1>4. JobsOK'
  BY <1>1, DoneKeeps DEF ExecDeleteCollection
<1> HIDE DEF s
<1> QED
  BY <1>2, <1>3, <1>4 DEF IInv, RowsOK, ListsOK, VersionsOK, RecordsOK

LEMMA ExecKeeps ==
  ASSUME IInv, NEW p \in Threads, Exec(p)
  PROVE  IInv'
BY UpsertRowKeeps, UpsertMetaKeeps, AddVersionKeeps, ReadRowKeeps, ExecPushDocumentKeeps,
   ReadRowsToPushKeeps, ReadMetaToPushKeeps, ReplaceProductionKeeps, ReadMineKeeps,
   ReadTheirsKeeps, ApplyPullKeeps, DeleteWorkspaceKeeps, ClearCollectionKeeps,
   ExecDeleteCollectionKeeps DEF Exec

\* What a thread executes is of the kind it is about to execute.
LEMMA ExecKind ==
  ASSUME NEW p, Exec(p)
  PROVE  /\ ~Idle(p)
         /\ Head(job[p]).do = "upsert row"    => ExecUpsertRow(p)
         /\ Head(job[p]).do = "upsert meta"   => ExecUpsertMeta(p)
         /\ Head(job[p]).do = "add version"   => ExecAddVersion(p)
         /\ Head(job[p]).do = "read row"      => ExecReadRow(p)
         /\ Head(job[p]).do = "push document" => ExecPushDocument(p)
         /\ Head(job[p]).do = "read rows to push"  => ExecReadRowsToPush(p)
         /\ Head(job[p]).do = "read meta to push"  => ExecReadMetaToPush(p)
         /\ Head(job[p]).do = "replace production" => ExecReplaceProduction(p)
         /\ Head(job[p]).do = "read mine"     => ExecReadMine(p)
         /\ Head(job[p]).do = "read theirs"   => ExecReadTheirs(p)
         /\ Head(job[p]).do = "apply pull"    => ExecApplyPull(p)
         /\ Head(job[p]).do = "delete workspace"   => ExecDeleteWorkspace(p)
         /\ Head(job[p]).do = "clear collection"   => ExecClearCollection(p)
         /\ Head(job[p]).do = "delete collection"  => ExecDeleteCollection(p)
BY Zenon DEF Exec, ExecUpsertRow, ExecUpsertMeta, ExecAddVersion, ExecReadRow, ExecPushDocument,
       ExecReadRowsToPush, ExecReadMetaToPush, ExecReplaceProduction, ExecReadMine,
       ExecReadTheirs, ExecApplyPull, ExecDeleteWorkspace, ExecClearCollection,
       ExecDeleteCollection, Doing

-----------------------------------------------------------------------------
(* Handlers begin with well-formed jobs.                                   *)

LEMMA CreateDocumentKeeps ==
  ASSUME IInv, NEW w \in Workspaces, NEW c \in Collections, NEW d \in Docs, NEW v \in Values,
         CreateDocument(w, c, d, v)
  PROVE  IInv'
<1> DEFINE m  == meta[w][c]
           n  == Ordered(Append(m.sequence, d), [m.statuses EXCEPT ![d] = "draft"])
           t  == <<UpsertRow(w, c, d, Draft(v)), UpsertMeta(w, c, n)>>
<1>1. d \notin Range(m.sequence) /\ Begin(Loop, t)
  BY DEF CreateDocument
<1>2. w \in AllWorkspaces /\ ListOK(m)
  BY Places, ListType DEF IInv
<1> HIDE DEF m
<1>3. ListOK(n)
  BY <1>1, <1>2, CreatedOK
<1> HIDE DEF n
<1>4. JobOK(t)
  BY <1>2, <1>3, CommitOK, DraftOK, JobOf
<1> HIDE DEF t
<1> QED
  BY <1>1, <1>4, LoopIsThread, BeginKeeps

LEMMA BeginEditKeeps ==
  ASSUME IInv, NEW w \in Workspaces, NEW c \in Collections, NEW d \in Docs,
         NEW m, ListOK(m), NEW change,
         change.kind \in {"data", "restore"} => change.data \in Values,
         BeginEdit(w, c, d, m, change)
  PROVE  IInv'
<1> DEFINE a == [do |-> "read row", w |-> w, c |-> c, d |-> d, meta |-> m, change |-> change]
           t == <<a>>
<1>1. Begin(Loop, t)
  BY DEF BeginEdit
<1>2. StatementOK(a)
  BY Places DEF StatementOK, AtDoc, At
<1> HIDE DEF a
<1>3. JobOK(t)
  BY <1>2, JobOf
<1> HIDE DEF t
<1> QED
  BY <1>1, <1>3, LoopIsThread, BeginKeeps

LEMMA EditRequestsKeep ==
  ASSUME IInv, NEW w \in Workspaces, NEW c \in Collections, NEW d \in Docs, NEW v \in Values,
         UpdateDocument(w, c, d, v) \/ RestoreVersion(w, c, d, v)
  PROVE  IInv'
<1>1. ListOK(meta[w][c]) /\ ListOK(NoMeta)
  BY Places, ListType, EmptyListOK DEF IInv
<1>2. CASE UpdateDocument(w, c, d, v)
  BY <1>1, <1>2, BeginEditKeeps DEF UpdateDocument
<1>3. CASE RestoreVersion(w, c, d, v)
  BY <1>1, <1>3, BeginEditKeeps DEF RestoreVersion
<1> QED
  BY <1>2, <1>3

LEMMA IdleEditsKeep ==
  ASSUME IInv, NEW w \in Workspaces, NEW c \in Collections, NEW d \in Docs,
         UpdateWithoutEffect(w, c, d) \/ UpdateDocumentStatus(w, c, d)
  PROVE  IInv'
<1>1. ListOK(meta[w][c])
  BY Places, ListType DEF IInv
<1>2. CASE UpdateWithoutEffect(w, c, d)
  <2>1. PICK kind \in {"empty", "invalid"} :
            BeginEdit(w, c, d, meta[w][c], [kind |-> kind])
    BY <1>2 DEF UpdateWithoutEffect
  <2> QED
    BY <1>1, <2>1, BeginEditKeeps
<1>3. CASE UpdateDocumentStatus(w, c, d)
  BY <1>1, <1>3, BeginEditKeeps DEF UpdateDocumentStatus
<1> QED
  BY <1>2, <1>3

LEMMA DeleteDocumentKeeps ==
  ASSUME IInv, NEW w \in Workspaces, NEW c \in Collections, NEW d \in Docs,
         DeleteDocument(w, c, d)
  PROVE  IInv'
<1> DEFINE m == meta[w][c]
<1>1. PICK s \in Selected(m.sequence, Docs \ {d}) :
          Begin(Loop, <<UpsertMeta(w, c, Ordered(s, [m.statuses EXCEPT ![d] = "none"])),
                        UpsertRow(w, c, d, NoRow)>>)
  BY DEF DeleteDocument
<1> DEFINE n == Ordered(s, [m.statuses EXCEPT ![d] = "none"])
           t == <<UpsertMeta(w, c, n), UpsertRow(w, c, d, NoRow)>>
<1>2. w \in AllWorkspaces /\ ListOK(m)
  BY Places, ListType DEF IInv
<1>3. Begin(Loop, t)
  BY <1>1
<1>4. ListOK(n)
  BY <1>2, DeletedOK
<1> HIDE DEF n
<1>5. JobOK(t)
  BY <1>2, <1>4, CommitOK, JobOf
<1> HIDE DEF t
<1> QED
  BY <1>3, <1>5, LoopIsThread, BeginKeeps

LEMMA PushDocumentKeeps ==
  ASSUME IInv, NEW w \in Workspaces, NEW c \in Collections, NEW d \in Docs,
         PushDocument(w, c, d)
  PROVE  IInv'
<1> DEFINE r == rows[w][c][d]
           a == [do |-> "push document", w |-> w, c |-> c, d |-> d, row |-> r]
           t == <<a>>
<1>1. Begin(Loop, t) /\ r # NoRow
  BY DEF PushDocument
<1>2. w \in AllWorkspaces /\ r \in Rows
  BY <1>1, Places, RowType DEF IInv
<1> HIDE DEF r
<1>3. StatementOK(a)
  BY <1>2 DEF StatementOK, AtDoc, At
<1> HIDE DEF a
<1>4. JobOK(t)
  BY <1>3, JobOf
<1> HIDE DEF t
<1> QED
  BY <1>1, <1>4, LoopIsThread, BeginKeeps

LEMMA StampedRows ==
  ASSUME RowsOK, NEW w \in AllWorkspaces, NEW c \in Collections, NEW ids
  PROVE  /\ Stamped(rows, w, c) \in [Docs -> Rows \cup {NoRow}]
         /\ Copied(rows, w, c, ids) \in [Docs -> Rows \cup {NoRow}]
<1>1. \A d \in Docs :
         rows[w][c][d] # NoRow => [rows[w][c][d] EXCEPT !.status = "published"] \in Rows
  BY RowType, PublishedRow
<1> QED
  BY <1>1 DEF Stamped, Copied

LEMMA PushCollectionKeeps ==
  ASSUME IInv, NEW w \in Workspaces, NEW c \in Collections, PushCollection(w, c)
  PROVE  IInv'
<1>1. w \in AllWorkspaces /\ w # Production /\ Production \in AllWorkspaces
  BY Places, ProductionAssumption
<1>2. PICK s \in PushOrders(rows, meta, w, c) :
          /\ IsInjective(s)
          /\ rows' = PushCollectionRows(rows, w, c, Range(s))
          /\ meta' = PushCollectionMeta(rows, meta, w, c, CopiedMeta(s))
  BY DEF PushCollection
<1>3. UNCHANGED <<versions, workspaces, collections, job>>
  BY DEF PushCollection
<1> DEFINE mine   == Stamped(rows, w, c)
           theirs == Copied(rows, w, c, Range(s))
           m      == StampedMeta(rows, meta, w, c)
           n      == CopiedMeta(s)
<1>4. rows' = [rows EXCEPT ![w][c] = mine, ![Production][c] = theirs]
  BY <1>2 DEF PushCollectionRows
<1>5. meta' = [meta EXCEPT ![w][c] = m, ![Production][c] = n]
  BY <1>2 DEF PushCollectionMeta
<1>6. mine \in [Docs -> Rows \cup {NoRow}] /\ theirs \in [Docs -> Rows \cup {NoRow}]
  BY <1>1, StampedRows DEF IInv
<1>7. ListOK(meta[w][c]) /\ meta[w][c].sequence \in Seq(Docs)
  BY <1>1, ListType DEF IInv
<1>8. ListOK(m) /\ m \in Metas
  <2> DEFINE st == [d \in Docs |-> IF rows[w][c][d] # NoRow THEN "published"
                                   ELSE meta[w][c].statuses[d]]
             k  == IF meta[w][c].kind = "absent" THEN "unordered" ELSE meta[w][c].kind
  <2>1. st \in Statusing
    BY <1>7, ListParts DEF Statusing, Statuses
  <2>2. k \in {"absent", "unordered", "ordered"}
    BY <1>7 DEF ListOK, Metas
  <2>3. m = [kind |-> k, sequence |-> meta[w][c].sequence, statuses |-> st]
    BY DEF StampedMeta
  <2> HIDE DEF st, k
  <2> QED
    BY <1>7, <2>1, <2>2, <2>3 DEF ListOK, Metas, Statusing
<1>9. ListOK(n) /\ n \in Metas
  <2>1. s \in Seq(Docs)
    BY <1>7, PushOrdersFacts
  <2>2. [d \in Docs |-> IF d \in Range(s) THEN "published" ELSE "none"] \in Statusing
    BY DEF Statusing, Statuses
  <2> QED
    BY <1>2, <2>1, <2>2, OrderedOK DEF CopiedMeta, ListOK
<1> HIDE DEF mine, theirs, m, n
<1>10. RowsOK'
  <2>1. [rows EXCEPT ![w][c] = mine] \in [AllWorkspaces -> Cells]
    BY <1>1, <1>6 DEF IInv, RowsOK, Cells
  <2> DEFINE R == [rows EXCEPT ![w][c] = mine]
  <2>2. rows' = [R EXCEPT ![Production][c] = theirs]
    BY <1>4
  <2> HIDE DEF R
  <2> QED
    BY <1>1, <1>6, <2>1, <2>2 DEF RowsOK, Cells, R
<1>11. ListsOK'
  <2> DEFINE M == [meta EXCEPT ![w][c] = m]
  <2>1. /\ M \in [AllWorkspaces -> [Collections -> Metas]]
        /\ \A x \in AllWorkspaces, y \in Collections : ListOK(M[x][y])
    BY <1>1, <1>8 DEF IInv, ListsOK
  <2>2. meta' = [M EXCEPT ![Production][c] = n]
    BY <1>5
  <2> HIDE DEF M
  <2> QED
    BY <1>1, <1>9, <2>1, <2>2 DEF ListsOK
<1> QED
  BY <1>3, <1>10, <1>11 DEF IInv, VersionsOK, RecordsOK, JobsOK

\* The handlers that begin with a single statement about a workspace.
LEMMA BeginPullKeeps ==
  ASSUME IInv, NEW p \in Threads, NEW w \in Workspaces, NEW scope \in SUBSET Keys, NEW choices,
         BeginPull(p, w, scope, choices)
  PROVE  IInv'
<1> DEFINE a == [do |-> "read mine", w |-> w, scope |-> scope, choices |-> choices]
           t == <<a>>
<1>1. Begin(p, t)
  BY DEF BeginPull
<1>2. StatementOK(a)
  BY DEF StatementOK
<1> HIDE DEF a
<1>3. JobOK(t)
  BY <1>2, JobOf
<1> HIDE DEF t
<1> QED
  BY <1>1, <1>3, BeginKeeps

LEMMA PullDocumentKeeps ==
  ASSUME IInv, NEW w \in Workspaces, NEW c \in Collections, NEW d \in Docs,
         PullDocument(w, c, d)
  PROVE  IInv'
<1>1. {<<c, d>>} \subseteq Keys
  BY DEF Keys
<1>2. BeginPull(Loop, w, {<<c, d>>}, {{<<c, d>>}})
  BY DEF PullDocument
<1> QED
  BY <1>1, <1>2, LoopIsThread, BeginPullKeeps

LEMMA PullCollectionKeeps ==
  ASSUME IInv, NEW w \in Workspaces, NEW c \in Collections, PullCollection(w, c)
  PROVE  IInv'
<1>1. {c} \X Docs \subseteq Keys
  BY DEF Keys
<1>2. BeginPull(Loop, w, {c} \X Docs, SUBSET ({c} \X Docs))
  BY DEF PullCollection
<1> QED
  BY <1>1, <1>2, LoopIsThread, BeginPullKeeps

LEMMA PullWorkspaceKeeps ==
  ASSUME IInv, NEW p \in Threads, NEW w \in Workspaces, PullWorkspace(p, w)
  PROVE  IInv'
<1>1. Collections \X Docs \subseteq Keys
  BY DEF Keys
<1>2. BeginPull(p, w, Collections \X Docs, SUBSET (Collections \X Docs))
  BY DEF PullWorkspace
<1> QED
  BY <1>1, <1>2, BeginPullKeeps

LEMMA PushWorkspaceKeeps ==
  ASSUME IInv, NEW p \in Threads, NEW w \in Workspaces, PushWorkspaceToProduction(p, w)
  PROVE  IInv'
<1> DEFINE a == [do |-> "read rows to push", w |-> w]
           t == <<a>>
<1>1. Begin(p, t)
  BY DEF PushWorkspaceToProduction
<1>2. StatementOK(a)
  BY Places DEF StatementOK
<1> HIDE DEF a
<1>3. JobOK(t)
  BY <1>2, JobOf
<1> HIDE DEF t
<1> QED
  BY <1>1, <1>3, BeginKeeps

LEMMA BeginDeleteWorkspaceKeeps ==
  ASSUME IInv, NEW p \in Threads, NEW w \in Workspaces, DeleteWorkspace(p, w)
  PROVE  IInv'
<1> DEFINE a == [do |-> "delete workspace", w |-> w]
           t == <<a>>
<1>1. Begin(p, t)
  BY DEF DeleteWorkspace
<1>2. StatementOK(a)
  BY DEF StatementOK
<1> HIDE DEF a
<1>3. JobOK(t)
  BY <1>2, JobOf
<1> HIDE DEF t
<1> QED
  BY <1>1, <1>3, BeginKeeps

LEMMA CreateWorkspaceKeeps ==
  ASSUME IInv, NEW p \in Threads, NEW w \in Workspaces, CreateWorkspace(p, w)
  PROVE  IInv'
<1>1. /\ workspaces' = workspaces \cup {w}
      /\ UNCHANGED <<rows, meta, versions, collections, job>>
  BY DEF CreateWorkspace
<1>2. IsFiniteSet(workspaces \cup {w})
  BY FS_AddElement DEF IInv, RecordsOK
<1> QED
  BY <1>1, <1>2 DEF IInv, RowsOK, ListsOK, VersionsOK, RecordsOK, JobsOK

LEMMA CreateCollectionKeeps ==
  ASSUME IInv, NEW p \in Threads, NEW c \in Collections, CreateCollection(p, c)
  PROVE  IInv'
<1> DEFINE m == Ordered(<<>>, NoMeta.statuses)
           a == UpsertMeta(Production, c, m)
           t == <<a>>
<1>1. /\ job' = [job EXCEPT ![p] = t]
      /\ collections' = [collections EXCEPT ![c] = "live"]
      /\ UNCHANGED <<rows, meta, versions, workspaces>>
  BY DEF CreateCollection
<1>2. ListOK(m)
  BY EmptyListOK
<1> HIDE DEF m
<1>3. StatementOK(a)
  BY <1>2, Places DEF UpsertMeta, StatementOK, At
<1> HIDE DEF a
<1>4. JobOK(t)
  BY <1>3, JobOf
<1> HIDE DEF t
<1>5. JobsOK'
  BY <1>1, <1>4, PutJob DEF IInv
<1> QED
  BY <1>1, <1>5 DEF IInv, RowsOK, ListsOK, VersionsOK, RecordsOK

\* The deletion of a collection clears it in production and in every workspace.
Clear(w, c) == [do |-> "clear collection", w |-> w, c |-> c]

LEMMA ClearsAre ==
  ASSUME IInv, NEW c, NEW order \in Orderings(workspaces)
  PROVE  LET all == <<Production>> \o order
         IN  [i \in DOMAIN all |-> Clear(all[i], c)] \in Seq({Clear(w, c) : w \in AllWorkspaces})
<1> DEFINE all == <<Production>> \o order
           S   == {Clear(w, c) : w \in AllWorkspaces}
<1>1. Cardinality(workspaces) \in Nat
  BY FS_CardinalityType DEF IInv, RecordsOK
<1>2. order \in Seq(AllWorkspaces)
  <2>1. order \in [1 .. Cardinality(workspaces) -> AllWorkspaces]
    BY Places DEF Orderings, IInv, RecordsOK
  <2> QED
    BY <1>1, <2>1, SeqDef
<1>3. all \in Seq(AllWorkspaces)
  <2>1. <<Production>> \in Seq(AllWorkspaces)
    BY Places
  <2> QED
    BY <1>2, <2>1, ConcatProperties
<1> HIDE DEF all
<1>4. /\ DOMAIN all = 1 .. Len(all) /\ Len(all) \in Nat
      /\ \A i \in DOMAIN all : all[i] \in AllWorkspaces
  BY <1>3, LenProperties, ElementOfSeq
<1>5. \A i \in 1 .. Len(all) : Clear(all[i], c) \in S
  BY <1>4
<1> HIDE DEF S
<1>6. [i \in 1 .. Len(all) |-> Clear(all[i], c)] \in Seq(S)
  BY <1>4, <1>5, SeqDef
<1>7. [i \in DOMAIN all |-> Clear(all[i], c)] \in Seq(S)
  BY <1>4, <1>6
<1> QED
  BY <1>7 DEF all, S

LEMMA BeginDeleteCollectionKeeps ==
  ASSUME IInv, NEW p \in Threads, NEW c \in Collections, DeleteCollection(p, c)
  PROVE  IInv'
<1>1. PICK order \in Orderings(workspaces) :
          LET all    == <<Production>> \o order
              clears == [i \in DOMAIN all |-> Clear(all[i], c)]
          IN  Begin(p, clears \o <<[do |-> "delete collection", c |-> c]>>)
  BY DEF DeleteCollection, Clear
<1> DEFINE all    == <<Production>> \o order
           clears == [i \in DOMAIN all |-> Clear(all[i], c)]
           a      == [do |-> "delete collection", c |-> c]
           t      == clears \o <<a>>
<1>2. Begin(p, t)
  BY <1>1
<1>3. JobOK(clears)
  <2> DEFINE S == {Clear(w, c) : w \in AllWorkspaces}
  <2>1. \A w \in AllWorkspaces : StatementOK(Clear(w, c))
    BY DEF Clear, StatementOK, At
  <2>2. \A s \in S : StatementOK(s)
    BY <2>1
  <2>3. clears \in Seq(S)
    BY ClearsAre
  <2> HIDE DEF S, clears
  <2> QED
    BY <2>2, <2>3 DEF JobOK
<1>4. StatementOK(a)
  BY DEF StatementOK
<1> HIDE DEF a, clears
<1>5. JobOK(t)
  BY <1>3, <1>4, JobOf, JobConcat
<1> HIDE DEF t
<1> QED
  BY <1>2, <1>5, BeginKeeps

LEMMA CrashKeeps ==
  ASSUME IInv, Crash
  PROVE  IInv'
<1>1. job' = [p \in Threads |-> <<>>] /\ UNCHANGED <<rows, meta, versions, workspaces, collections>>
  BY DEF Crash, tables
<1>2. JobsOK'
  BY <1>1, JobOf DEF JobsOK
<1> QED
  BY <1>1, <1>2 DEF IInv, RowsOK, ListsOK, VersionsOK, RecordsOK

LEMMA DocumentRequestKeeps ==
  ASSUME IInv, NEW w \in Workspaces, NEW c \in Collections, NEW d \in Docs,
         DocumentRequest(w, c, d)
  PROVE  IInv'
<1>1. ASSUME NEW v \in Values,
             CreateDocument(w, c, d, v) \/ UpdateDocument(w, c, d, v) \/ RestoreVersion(w, c, d, v)
      PROVE  IInv'
  BY <1>1, CreateDocumentKeeps, EditRequestsKeep
<1>2. CASE UpdateWithoutEffect(w, c, d) \/ UpdateDocumentStatus(w, c, d)
  BY <1>2, IdleEditsKeep
<1>3. CASE DeleteDocument(w, c, d) \/ PushDocument(w, c, d)
  BY <1>3, DeleteDocumentKeeps, PushDocumentKeeps
<1>4. CASE PullDocument(w, c, d)
  BY <1>4, PullDocumentKeeps
<1> QED
  BY <1>1, <1>2, <1>3, <1>4 DEF DocumentRequest

LEMMA PoolRequestKeeps ==
  ASSUME IInv, NEW p \in Pool, PoolRequest(p)
  PROVE  IInv'
<1>1. p \in Threads
  BY LoopIsThread
<1>2. ASSUME NEW w \in Workspaces,
             \/ CreateWorkspace(p, w) \/ DeleteWorkspace(p, w)
             \/ PushWorkspaceToProduction(p, w) \/ PullWorkspace(p, w)
      PROVE  IInv'
  BY <1>1, <1>2, CreateWorkspaceKeeps, BeginDeleteWorkspaceKeeps, PushWorkspaceKeeps,
     PullWorkspaceKeeps
<1>3. ASSUME NEW c \in Collections, CreateCollection(p, c) \/ DeleteCollection(p, c)
      PROVE  IInv'
  BY <1>1, <1>3, CreateCollectionKeeps, BeginDeleteCollectionKeeps
<1> QED
  BY <1>2, <1>3 DEF PoolRequest

LEMMA InitIInv == Init => IInv
<1> SUFFICES ASSUME Init PROVE IInv
  OBVIOUS
<1>1. RowsOK
  BY DEF Init, RowsOK, NoRows, Cells
<1>2. ListsOK
  BY EmptyListOK DEF Init, ListsOK, NoMetas, ListOK
<1>3. VersionsOK
  <2>1. <<>> \in Seq(Values) /\ Len(<<>>) = 0
    BY EmptySeq
  <2> QED
    BY <2>1, VersionsAssumption DEF Init, VersionsOK
<1>4. RecordsOK
  BY FS_EmptySet DEF Init, RecordsOK
<1>5. JobsOK
  BY JobOf DEF Init, JobsOK
<1> QED
  BY <1>1, <1>2, <1>3, <1>4, <1>5 DEF IInv

LEMMA NextKeepsIInv == IInv /\ [Next]_vars => IInv'
<1> SUFFICES ASSUME IInv, [Next]_vars PROVE IInv'
  OBVIOUS
<1>1. CASE UNCHANGED vars
  BY <1>1 DEF vars, tables, IInv, RowsOK, ListsOK, VersionsOK, RecordsOK, JobsOK
<1>2. ASSUME NEW w \in Workspaces, NEW c \in Collections, NEW d \in Docs,
             DocumentRequest(w, c, d)
      PROVE  IInv'
  BY <1>2, DocumentRequestKeeps
<1>3. ASSUME NEW w \in Workspaces, NEW c \in Collections,
             PushCollection(w, c) \/ PullCollection(w, c)
      PROVE  IInv'
  BY <1>3, PushCollectionKeeps, PullCollectionKeeps
<1>4. ASSUME NEW p \in Pool, PoolRequest(p)
      PROVE  IInv'
  BY <1>4, PoolRequestKeeps
<1>5. ASSUME NEW p \in Threads, Exec(p)
      PROVE  IInv'
  BY <1>5, ExecKeeps
<1>6. CASE Crash
  BY <1>6, CrashKeeps
<1> QED
  BY <1>1, <1>2, <1>3, <1>4, <1>5, <1>6 DEF Next

LEMMA IInvHolds == Spec => []IInv
<1>1. Init => IInv
  BY InitIInv
<1>2. IInv /\ [Next]_vars => IInv'
  BY NextKeepsIInv
<1> QED
  BY <1>1, <1>2, PTL DEF Spec

\* The tables keep their types and the version limit at every commit.
THEOREM TypeCorrect == Spec => []TypeOK
<1>1. IInv => TypeOK
  BY IInvGives
<1> QED
  BY <1>1, IInvHolds, PTL

\* No list of documents has an entry twice, whatever requests overlap and
\* wherever the process stops, although lists are written back that were
\* read before other commits.
THEOREM SequencesUnique == Spec => []SequencesAreUnique
<1>1. IInv => SequencesAreUnique
  BY IInvGives
<1> QED
  BY <1>1, IInvHolds, PTL

-----------------------------------------------------------------------------
(* Listed documents have rows, as long as no workspace or collection is    *)
(* deleted and no workspace is pulled. The event loop is then the only one *)
(* to write what authors see: the invariant says of what it has still to   *)
(* do that the rows a list needs are there, or come first.                 *)

NothingRemoved ==
    Requests \cap {"delete_workspace", "delete_collection", "pull_from_production"} = {}

\* A thread of the pool writes production only.
OnProduction(s) ==
    \/ s.do \in {"read rows to push", "read meta to push", "replace production"}
    \/ s.do = "upsert meta" /\ s.w = Production

PoolJob(j) == j = <<>> \/ \E s : j = <<s>> /\ OnProduction(s)

\* Statements of the event loop that can be executed in any state with at
\* least the rows R.
Safe(s, R) ==
    /\ s.do \in {"upsert row", "upsert meta", "add version", "read row", "push document",
                 "read mine", "read theirs", "apply pull"}
    /\ s.do = "upsert row" => s.row # NoRow
    /\ s.do \in {"upsert meta", "read row"} =>
          /\ s.w \in Workspaces /\ s.c \in Collections
          /\ Range(s.meta.sequence) \subseteq Present(R, s.w, s.c)
    /\ s.do = "push document" =>
          s.w \in Workspaces /\ s.c \in Collections /\ s.d \in Present(R, s.w, s.c)

SafeJob(j, R) == \E S : j \in Seq(S) /\ \A s \in S : Safe(s, R)

Creating(j, R) ==
    \E w \in Workspaces, c \in Collections, d \in Docs, r \in Rows : \E m :
        /\ j = <<UpsertRow(w, c, d, r), UpsertMeta(w, c, m)>>
        /\ Range(m.sequence) \subseteq Present(R, w, c) \cup {d}

Deleting(j, R) ==
    \E w \in Workspaces, c \in Collections, d \in Docs : \E m :
        /\ j = <<UpsertMeta(w, c, m), UpsertRow(w, c, d, NoRow)>>
        /\ Range(m.sequence) \subseteq Present(R, w, c) \ {d}

Unlisting(j, M) ==
    \E w \in Workspaces, c \in Collections, d \in Docs :
        /\ j = <<UpsertRow(w, c, d, NoRow)>>
        /\ d \notin Range(M[w][c].sequence)

LoopJob(j, R, M) == SafeJob(j, R) \/ Creating(j, R) \/ Deleting(j, R) \/ Unlisting(j, M)

ListedInv ==
    /\ EditableDocumentsExist
    /\ \A p \in Pool : PoolJob(job[p])
    /\ LoopJob(job[Loop], rows, meta)

\* Every listed document of the workspace has a row.
ListedIn(w) == \A c \in Collections : Range(meta[w][c].sequence) \subseteq Present(rows, w, c)

LEMMA ExistByPresence ==
  ASSUME IInv
  PROVE  EditableDocumentsExist <=> \A w \in Workspaces : ListedIn(w)
<1>1. \A w \in Workspaces, c \in Collections : Range(meta[w][c].sequence) \subseteq Docs
  BY Places, ListType, RangeOfSeq DEF IInv
<1> QED
  BY <1>1 DEF EditableDocumentsExist, ListedHaveRows, ListedIn, Present

LEMMA SafeRest ==
  ASSUME NEW R, NEW j, SafeJob(j, R), j # <<>>
  PROVE  Safe(Head(j), R) /\ SafeJob(Tail(j), R)
<1>1. PICK S : j \in Seq(S) /\ \A s \in S : Safe(s, R)
  BY DEF SafeJob
<1>2. Head(j) \in S /\ Tail(j) \in Seq(S)
  BY <1>1, HeadTailProperties
<1> QED
  BY <1>1, <1>2 DEF SafeJob

LEMMA SafeConcat ==
  ASSUME NEW R, NEW i, NEW j, SafeJob(i, R), SafeJob(j, R)
  PROVE  SafeJob(i \o j, R)
<1>1. PICK S : i \in Seq(S) /\ \A s \in S : Safe(s, R)
  BY DEF SafeJob
<1>2. PICK T : j \in Seq(T) /\ \A s \in T : Safe(s, R)
  BY DEF SafeJob
<1> DEFINE U == S \cup T
<1>3. Seq(S) \subseteq Seq(U) /\ Seq(T) \subseteq Seq(U)
  BY SeqMonotonic
<1>4. i \o j \in Seq(U)
  BY <1>1, <1>2, <1>3, ConcatProperties
<1> QED
  BY <1>1, <1>2, <1>4 DEF SafeJob

LEMMA SafeOf ==
  ASSUME NEW R
  PROVE  /\ SafeJob(<<>>, R)
         /\ \A a : Safe(a, R) => SafeJob(<<a>>, R)
         /\ \A a, b : Safe(a, R) /\ Safe(b, R) => SafeJob(<<a, b>>, R)
         /\ \A a, b, c : Safe(a, R) /\ Safe(b, R) /\ Safe(c, R) => SafeJob(<<a, b, c>>, R)
<1>1. SafeJob(<<>>, R)
  <2> DEFINE S == {}
  <2>1. \A s \in S : Safe(s, R)
    OBVIOUS
  <2> HIDE DEF S
  <2>2. <<>> \in Seq(S)
    OBVIOUS
  <2> QED
    BY <2>1, <2>2 DEF SafeJob
<1>2. ASSUME NEW a, Safe(a, R)
      PROVE  SafeJob(<<a>>, R)
  <2> DEFINE S == {a}
  <2>1. a \in S /\ \A s \in S : Safe(s, R)
    BY <1>2
  <2> HIDE DEF S
  <2>2. <<a>> \in Seq(S)
    BY <2>1
  <2> QED
    BY <2>1, <2>2 DEF SafeJob
<1>3. ASSUME NEW a, NEW b, Safe(a, R), Safe(b, R)
      PROVE  SafeJob(<<a, b>>, R)
  <2> DEFINE S == {a, b}
  <2>1. a \in S /\ b \in S /\ \A s \in S : Safe(s, R)
    BY <1>3
  <2> HIDE DEF S
  <2>2. <<a, b>> \in Seq(S)
    BY <2>1
  <2> QED
    BY <2>1, <2>2 DEF SafeJob
<1>4. ASSUME NEW a, NEW b, NEW c, Safe(a, R), Safe(b, R), Safe(c, R)
      PROVE  SafeJob(<<a, b, c>>, R)
  <2> DEFINE S == {a, b, c}
  <2>1. a \in S /\ b \in S /\ c \in S /\ \A s \in S : Safe(s, R)
    BY <1>4
  <2> HIDE DEF S
  <2>2. <<a, b, c>> \in Seq(S)
    BY <2>1
  <2> QED
    BY <2>1, <2>2 DEF SafeJob
<1> QED
  BY <1>1, <1>2, <1>3, <1>4

\* More rows keep a job safe.
LEMMA SafeGrows ==
  ASSUME NEW R, NEW T, NEW j, SafeJob(j, R),
         \A w \in Workspaces, c \in Collections : Present(R, w, c) \subseteq Present(T, w, c)
  PROVE  SafeJob(j, T)
<1>1. PICK S : j \in Seq(S) /\ \A s \in S : Safe(s, R)
  BY DEF SafeJob
<1>2. \A s \in S : Safe(s, T)
  BY <1>1 DEF Safe
<1> QED
  BY <1>1, <1>2 DEF SafeJob

-----------------------------------------------------------------------------
(* Steps of the pool leave everything authors see.                         *)

AuthorsKeep == \A w \in Workspaces : rows'[w] = rows[w] /\ meta'[w] = meta[w]

LEMMA PoolExec ==
  ASSUME IInv, NEW p \in Pool, PoolJob(job[p]), Exec(p)
  PROVE  AuthorsKeep /\ PoolJob(job'[p]) /\ \A q \in Threads : q # p => job'[q] = job[q]
<1>1. p \in Threads /\ p \in DOMAIN job /\ Threads = DOMAIN job
  BY LoopIsThread DEF IInv, JobsOK
<1>2. ~Idle(p)
  BY ExecKind
<1>3. PICK s : job[p] = <<s>> /\ OnProduction(s)
  BY <1>2 DEF PoolJob, Idle
<1>4. Head(job[p]) = s /\ Tail(job[p]) = <<>>
  BY <1>3
<1>5. \A w \in Workspaces : w # Production /\ w \in AllWorkspaces
  BY ProductionAssumption, Places
<1>6. rows \in [AllWorkspaces -> Cells] /\ meta \in [AllWorkspaces -> [Collections -> Metas]]
  BY DEF IInv, RowsOK, ListsOK
<1>7. Done(p) => PoolJob(job'[p]) /\ \A q \in Threads : q # p => job'[q] = job[q]
  BY <1>1, <1>4 DEF Done, PoolJob
<1>8. ASSUME NEW a, OnProduction(a), Continue(p, <<a>>)
      PROVE  PoolJob(job'[p]) /\ \A q \in Threads : q # p => job'[q] = job[q]
  <2>1. <<a>> \o <<>> = <<a>>
    OBVIOUS
  <2> QED
    BY <1>1, <1>4, <1>8, <2>1 DEF Continue, PoolJob
<1>9. CASE s.do = "read rows to push"
  <2>1. ExecReadRowsToPush(p)
    BY <1>4, <1>9, ExecKind
  <2>2. OnProduction([do |-> "read meta to push", w |-> s.w, rows |-> rows[s.w]])
    BY DEF OnProduction
  <2> QED
    BY <1>4, <1>8, <2>1, <2>2 DEF ExecReadRowsToPush, AuthorsKeep, tables
<1>10. CASE s.do = "read meta to push"
  <2>1. ExecReadMetaToPush(p)
    BY <1>4, <1>10, ExecKind
  <2>2. OnProduction([do |-> "replace production", rows |-> s.rows, meta |-> meta[s.w]])
    BY DEF OnProduction
  <2> QED
    BY <1>4, <1>8, <2>1, <2>2 DEF ExecReadMetaToPush, AuthorsKeep, tables
<1>11. CASE s.do = "replace production"
  <2>1. ExecReplaceProduction(p)
    BY <1>4, <1>11, ExecKind
  <2>2. AuthorsKeep
    BY <1>5, <1>6, <2>1 DEF ExecReplaceProduction, PushWorkspace, AuthorsKeep
  <2> QED
    BY <1>7, <2>1, <2>2 DEF ExecReplaceProduction
<1>12. CASE s.do = "upsert meta" /\ s.w = Production
  <2>1. ExecUpsertMeta(p)
    BY <1>4, <1>12, ExecKind
  <2>2. AuthorsKeep
    BY <1>4, <1>5, <1>6, <1>12, <2>1 DEF ExecUpsertMeta, AuthorsKeep
  <2> QED
    BY <1>7, <2>1, <2>2 DEF ExecUpsertMeta
<1> QED
  BY <1>3, <1>9, <1>10, <1>11, <1>12 DEF OnProduction

LEMMA PoolBegins ==
  ASSUME IInv, NothingRemoved, NEW p \in Pool, PoolJob(job[p]), PoolRequest(p)
  PROVE  AuthorsKeep /\ PoolJob(job'[p]) /\ \A q \in Threads : q # p => job'[q] = job[q]
<1>1. p \in DOMAIN job /\ Threads = DOMAIN job
  BY LoopIsThread DEF IInv, JobsOK
<1>2. ASSUME NEW w \in Workspaces
      PROVE  ~DeleteWorkspace(p, w) /\ ~PullWorkspace(p, w)
  BY DEF NothingRemoved, DeleteWorkspace, PullWorkspace, Starts
<1>3. ASSUME NEW c \in Collections
      PROVE  ~DeleteCollection(p, c)
  BY DEF NothingRemoved, DeleteCollection, Starts
<1>4. ASSUME NEW a, OnProduction(a), job' = [job EXCEPT ![p] = <<a>>]
      PROVE  PoolJob(job'[p]) /\ \A q \in Threads : q # p => job'[q] = job[q]
  BY <1>1, <1>4 DEF PoolJob
<1>5. ASSUME NEW w \in Workspaces, CreateWorkspace(p, w)
      PROVE  AuthorsKeep /\ PoolJob(job'[p]) /\ \A q \in Threads : q # p => job'[q] = job[q]
  BY <1>5 DEF CreateWorkspace, AuthorsKeep
<1>6. ASSUME NEW w \in Workspaces, PushWorkspaceToProduction(p, w)
      PROVE  AuthorsKeep /\ PoolJob(job'[p]) /\ \A q \in Threads : q # p => job'[q] = job[q]
  <2>1. OnProduction([do |-> "read rows to push", w |-> w])
    BY DEF OnProduction
  <2>2. AuthorsKeep
    BY <1>6 DEF PushWorkspaceToProduction, Begin, AuthorsKeep, tables
  <2> QED
    BY <1>4, <1>6, <2>1, <2>2 DEF PushWorkspaceToProduction, Begin
<1>7. ASSUME NEW c \in Collections, CreateCollection(p, c)
      PROVE  AuthorsKeep /\ PoolJob(job'[p]) /\ \A q \in Threads : q # p => job'[q] = job[q]
  <2>1. OnProduction(UpsertMeta(Production, c, Ordered(<<>>, NoMeta.statuses)))
    BY DEF OnProduction, UpsertMeta
  <2>2. AuthorsKeep
    BY <1>7 DEF CreateCollection, AuthorsKeep
  <2> QED
    BY <1>4, <1>7, <2>1, <2>2 DEF CreateCollection
<1> QED
  BY <1>2, <1>3, <1>5, <1>6, <1>7 DEF PoolRequest

-----------------------------------------------------------------------------
(* Steps of the event loop.                                                *)

RowsGrow == \A w \in Workspaces, c \in Collections :
                Present(rows, w, c) \subseteq Present(rows', w, c)

AllListed == \A w \in Workspaces : ListedIn(w)

\* A statement that leaves every row keeps the rest of a safe job safe.
LEMMA SafeTail ==
  ASSUME IInv, SafeJob(job[Loop], rows), ~Idle(Loop), RowsGrow,
         NEW t, SafeJob(t, rows'), Done(Loop) \/ Continue(Loop, t)
  PROVE  SafeJob(job'[Loop], rows')
<1>1. Loop \in DOMAIN job
  BY LoopIsThread DEF IInv, JobsOK
<1>2. SafeJob(Tail(job[Loop]), rows')
  BY SafeRest, SafeGrows DEF Idle, RowsGrow
<1> DEFINE u == Tail(job[Loop])
<1>3. job'[Loop] = u \/ job'[Loop] = t \o u
  BY <1>1 DEF Done, Continue
<1> HIDE DEF u
<1>4. SafeJob(u, rows') /\ SafeJob(t \o u, rows')
  BY <1>2, SafeConcat DEF u
<1> QED
  BY <1>3, <1>4

LEMMA SafeEmpty == SafeJob(<<>>, rows')
BY SafeOf

LEMMA UpsertRowIsSafe ==
  ASSUME IInv, AllListed, SafeJob(job[Loop], rows), ExecUpsertRow(Loop)
  PROVE  AllListed' /\ SafeJob(job'[Loop], rows')
<1> DEFINE s == Head(job[Loop])
<1>1. ~Idle(Loop) /\ s.do = "upsert row"
  BY DEF ExecUpsertRow, Doing
<1>2. AtDoc(s) /\ s.row # NoRow
  BY <1>1, HeadOK, LoopIsThread, SafeRest DEF StatementOK, Safe, Idle
<1>3. rows' = [rows EXCEPT ![s.w][s.c][s.d] = s.row] /\ meta' = meta /\ Done(Loop)
  BY DEF ExecUpsertRow
<1> HIDE DEF s
<1>4. RowsGrow
  BY <1>2, <1>3, Places DEF RowsGrow, Present, IInv, RowsOK, Cells, AtDoc, At
<1>5. AllListed'
  BY <1>3, <1>4 DEF AllListed, ListedIn, RowsGrow
<1> QED
  BY <1>1, <1>3, <1>4, <1>5, SafeTail, SafeEmpty

LEMMA UpsertMetaIsSafe ==
  ASSUME IInv, AllListed, SafeJob(job[Loop], rows), ExecUpsertMeta(Loop)
  PROVE  AllListed' /\ SafeJob(job'[Loop], rows')
<1> DEFINE s == Head(job[Loop])
<1>1. ~Idle(Loop) /\ s.do = "upsert meta"
  BY DEF ExecUpsertMeta, Doing
<1>2. /\ s.w \in Workspaces /\ s.c \in Collections
      /\ Range(s.meta.sequence) \subseteq Present(rows, s.w, s.c)
  BY <1>1, SafeRest DEF Safe, Idle
<1>3. meta' = [meta EXCEPT ![s.w][s.c] = s.meta] /\ rows' = rows /\ Done(Loop)
  BY DEF ExecUpsertMeta
<1> HIDE DEF s
<1>4. RowsGrow
  BY <1>3 DEF RowsGrow
<1>5. AllListed'
  BY <1>2, <1>3, Places DEF AllListed, ListedIn, IInv, ListsOK
<1> QED
  BY <1>1, <1>3, <1>4, <1>5, SafeTail, SafeEmpty

LEMMA AddVersionIsSafe ==
  ASSUME IInv, AllListed, SafeJob(job[Loop], rows), ExecAddVersion(Loop)
  PROVE  AllListed' /\ SafeJob(job'[Loop], rows')
<1>1. ~Idle(Loop) /\ rows' = rows /\ meta' = meta /\ Done(Loop)
  BY Zenon DEF ExecAddVersion, Doing
<1>2. RowsGrow
  BY <1>1 DEF RowsGrow
<1>3. AllListed'
  BY <1>1 DEF AllListed, ListedIn
<1> QED
  BY <1>1, <1>2, <1>3, SafeTail, SafeEmpty

LEMMA CommitsAreSafe ==
  ASSUME NEW R, NEW w, NEW c, NEW d
  PROVE  /\ \A r : r # NoRow => Safe(UpsertRow(w, c, d, r), R)
         /\ \A v : Safe(AddVersion(w, c, d, v), R)
         /\ \A m : /\ w \in Workspaces /\ c \in Collections
                   /\ Range(m.sequence) \subseteq Present(R, w, c)
                   => Safe(UpsertMeta(w, c, m), R)
BY DEF Safe, UpsertRow, AddVersion, UpsertMeta

LEMMA ReadRowIsSafe ==
  ASSUME IInv, AllListed, SafeJob(job[Loop], rows), ExecReadRow(Loop)
  PROVE  AllListed' /\ SafeJob(job'[Loop], rows')
<1> DEFINE s == Head(job[Loop])
           r == rows[s.w][s.c][s.d]
           t == IF r = NoRow THEN <<>> ELSE Edits(s, r)
<1>1. ~Idle(Loop) /\ s.do = "read row"
  BY DEF ExecReadRow, Doing
<1>2. StatementOK(s) /\ AtDoc(s) /\ ListOK(s.meta)
  BY <1>1, HeadOK, LoopIsThread DEF StatementOK
<1>3. /\ s.w \in Workspaces /\ s.c \in Collections
      /\ Range(s.meta.sequence) \subseteq Present(rows, s.w, s.c)
  BY <1>1, SafeRest DEF Safe, Idle
<1>4. Continue(Loop, t) /\ rows' = rows /\ meta' = meta
  BY Zenon DEF ExecReadRow, tables
<1>5. SafeJob(t, rows')
  <2>1. CASE r = NoRow
    BY <2>1, SafeEmpty
  <2>2. CASE r # NoRow
    <3> DEFINE version == AddVersion(s.w, s.c, s.d, r.data)
               revert  == UpsertMeta(s.w, s.c, Reverted(s.meta, s.d))
               write   == UpsertRow(s.w, s.c, s.d, Written(s, r))
    <3>1. Written(s, r) # NoRow
      <4>1. r \in Rows
        BY <1>2, <2>2, RowType DEF IInv, AtDoc, At
      <4> HIDE DEF s, r
      <4>2. Written(s, r) \in Rows
        BY <1>1, <1>2, <4>1, WrittenOK
      <4> QED
        BY <4>2, RowIsNotNoRow
    <3>2. Range(Reverted(s.meta, s.d).sequence) \subseteq Present(rows, s.w, s.c)
      BY <1>2, <1>3, RevertedOK DEF AtDoc
    <3>3. Safe(version, rows') /\ Safe(revert, rows') /\ Safe(write, rows')
      BY <1>3, <1>4, <3>1, <3>2, CommitsAreSafe, Zenon
    <3>4. \/ Edits(s, r) = <<version>>
          \/ Edits(s, r) = <<write, revert>>
          \/ Edits(s, r) = <<version, revert, write>>
          \/ Edits(s, r) = <<version, write>>
      BY EditsAre, Zenon
    <3>5. t = Edits(s, r)
      BY <2>2
    <3> HIDE DEF version, revert, write, t
    <3> QED
      BY <3>3, <3>4, <3>5, SafeOf, Zenon
  <2> QED
    BY <2>1, <2>2, Zenon
<1> HIDE DEF t
<1>6. RowsGrow
  BY <1>4 DEF RowsGrow
<1>7. AllListed'
  BY <1>4 DEF AllListed, ListedIn
<1> QED
  BY <1>1, <1>4, <1>5, <1>6, <1>7, SafeTail

LEMMA PushDocumentIsSafe ==
  ASSUME IInv, AllListed, SafeJob(job[Loop], rows), ExecPushDocument(Loop)
  PROVE  AllListed' /\ SafeJob(job'[Loop], rows')
<1> DEFINE s      == Head(job[Loop])
           pushed == [s.row EXCEPT !.status = "published"]
           mine   == IF rows[s.w][s.c][s.d] = NoRow THEN NoRow ELSE pushed
           m      == WithStatus(meta[s.w][s.c], s.d, "published")
           n      == WithStatus(meta[Production][s.c], s.d, "published")
<1>1. ~Idle(Loop) /\ s.do = "push document"
  BY DEF ExecPushDocument, Doing
<1>2. s.w \in Workspaces /\ s.w # Production /\ AtDoc(s) /\ s.row \in Rows
  BY <1>1, HeadOK, LoopIsThread, ProductionAssumption DEF StatementOK
<1>3. s.d \in Present(rows, s.w, s.c)
  BY <1>1, SafeRest DEF Safe, Idle
<1>4. /\ rows' = PushDocumentRows(rows, s.w, s.c, s.d, s.row)
      /\ meta' = PushDocumentMeta(meta, s.w, s.c, s.d) /\ Done(Loop)
  BY DEF ExecPushDocument
<1> HIDE DEF s
<1>5. pushed # NoRow
  BY <1>2, PublishedRow, RowIsNotNoRow
<1>6. rows' = [rows EXCEPT ![s.w][s.c][s.d] = mine, ![Production][s.c][s.d] = pushed]
  BY <1>4 DEF PushDocumentRows
<1>7. meta' = [meta EXCEPT ![s.w][s.c] = m, ![Production][s.c] = n]
  BY <1>2, <1>4 DEF PushDocumentMeta
<1>8. Range(m.sequence) = Range(meta[s.w][s.c].sequence) \cup {s.d}
  BY <1>2, ListType, Places, WithStatusOK DEF IInv, AtDoc, At, Statuses
<1> HIDE DEF pushed, m, n
<1>9. \A w \in Workspaces, c \in Collections : Present(rows', w, c) = Present(rows, w, c)
  <2>1. rows'[s.w] = [rows[s.w] EXCEPT ![s.c][s.d] = mine]
    BY <1>2, <1>6, Places DEF IInv, RowsOK
  <2>2. \A w \in Workspaces : w # s.w => rows'[w] = rows[w]
    BY <1>2, <1>6, Places, ProductionAssumption DEF IInv, RowsOK
  <2>3. rows[s.w] \in Cells
    BY <1>2, RowType DEF IInv, AtDoc, At
  <2>4. \A c \in Collections, d \in Docs :
            rows'[s.w][c][d] = IF c = s.c /\ d = s.d THEN mine ELSE rows[s.w][c][d]
    BY <1>2, <2>1, <2>3 DEF Cells, AtDoc, At
  <2>5. \A c \in Collections, d \in Docs : rows'[s.w][c][d] # NoRow <=> rows[s.w][c][d] # NoRow
    BY <1>5, <2>4
  <2> QED
    BY <2>2, <2>5 DEF Present
<1>10. \A w \in Workspaces, c \in Collections :
           meta'[w][c] = IF w = s.w /\ c = s.c THEN m ELSE meta[w][c]
  BY <1>2, <1>7, Places, ProductionAssumption DEF IInv, ListsOK, AtDoc, At
<1>11. RowsGrow
  BY <1>9 DEF RowsGrow
<1>12. AllListed'
  <2> SUFFICES ASSUME NEW w \in Workspaces, NEW c \in Collections
               PROVE  Range(meta'[w][c].sequence) \subseteq Present(rows', w, c)
    BY DEF AllListed, ListedIn
  <2> QED
    BY <1>3, <1>8, <1>9, <1>10 DEF AllListed, ListedIn
<1> QED
  BY <1>1, <1>4, <1>11, <1>12, SafeTail, SafeEmpty

LEMMA ReadMineIsSafe ==
  ASSUME IInv, AllListed, SafeJob(job[Loop], rows), ExecReadMine(Loop)
  PROVE  AllListed' /\ SafeJob(job'[Loop], rows')
<1> DEFINE s == Head(job[Loop])
           a == [do |-> "read theirs", w |-> s.w, scope |-> s.scope,
                 choices |-> s.choices, mine |-> rows[s.w]]
           t == <<a>>
<1>1. ~Idle(Loop) /\ Continue(Loop, t) /\ rows' = rows /\ meta' = meta
  BY DEF ExecReadMine, Doing, tables
<1>2. Safe(a, rows')
  BY DEF Safe
<1> HIDE DEF a
<1>3. SafeJob(t, rows')
  BY <1>2, SafeOf
<1> HIDE DEF t
<1>4. RowsGrow
  BY <1>1 DEF RowsGrow
<1>5. AllListed'
  BY <1>1 DEF AllListed, ListedIn
<1> QED
  BY <1>1, <1>3, <1>4, <1>5, SafeTail

LEMMA ReadTheirsIsSafe ==
  ASSUME IInv, AllListed, SafeJob(job[Loop], rows), ExecReadTheirs(Loop)
  PROVE  AllListed' /\ SafeJob(job'[Loop], rows')
<1> DEFINE s      == Head(job[Loop])
           theirs == rows[Production]
<1>1. ~Idle(Loop) /\ rows' = rows /\ meta' = meta
  BY DEF ExecReadTheirs, Doing, tables
<1>2. PICK res \in s.choices :
          Continue(Loop, <<[do |-> "apply pull", w |-> s.w, mine |-> s.mine, theirs |-> theirs,
                            in |-> Incoming(s.mine, theirs, s.scope, res)]>>)
  BY DEF ExecReadTheirs
<1> DEFINE a == [do |-> "apply pull", w |-> s.w, mine |-> s.mine, theirs |-> theirs,
                 in |-> Incoming(s.mine, theirs, s.scope, res)]
           t == <<a>>
<1>3. Continue(Loop, t)
  BY <1>2
<1>4. Safe(a, rows')
  BY DEF Safe
<1> HIDE DEF a
<1>5. SafeJob(t, rows')
  BY <1>4, SafeOf
<1> HIDE DEF t
<1>6. RowsGrow
  BY <1>1 DEF RowsGrow
<1>7. AllListed'
  BY <1>1 DEF AllListed, ListedIn
<1> QED
  BY <1>1, <1>3, <1>5, <1>6, <1>7, SafeTail

LEMMA ApplyPullIsSafe ==
  ASSUME IInv, AllListed, SafeJob(job[Loop], rows), ExecApplyPull(Loop)
  PROVE  AllListed' /\ SafeJob(job'[Loop], rows')
<1> DEFINE s == Head(job[Loop])
<1>1. ~Idle(Loop) /\ s.do = "apply pull"
  BY DEF ExecApplyPull, Doing
<1>2. /\ s.w \in Workspaces /\ s.mine \in Cells /\ s.theirs \in Cells /\ s.in \in SUBSET Keys
      /\ \A k \in s.in : s.theirs[k[1]][k[2]] # NoRow
  BY <1>1, HeadOK, LoopIsThread DEF StatementOK
<1>3. rows' = PullRows(rows, s.w, s.in, s.theirs) /\ Done(Loop)
  BY DEF ExecApplyPull
<1>4. PICK order \in PullOrders(s.mine, meta, s.w, s.in) :
          meta' = PullMeta(meta, s.w, s.in, s.theirs, order)
  BY DEF ExecApplyPull
<1> HIDE DEF s
<1>5. /\ \A x \in AllWorkspaces : x # s.w => meta'[x] = meta[x]
      /\ \A c \in Collections :
            Range(meta'[s.w][c].sequence) \subseteq
                Range(meta[s.w][c].sequence) \cup {d \in Docs : <<c, d>> \in s.in}
  BY <1>2, <1>4, PulledMeta DEF IInv
<1>6. /\ \A x \in AllWorkspaces : x # s.w => rows'[x] = rows[x]
      /\ \A c \in Collections, d \in Docs :
            rows'[s.w][c][d] = IF <<c, d>> \in s.in THEN s.theirs[c][d] ELSE rows[s.w][c][d]
  BY <1>2, <1>3, Places DEF PullRows, IInv, RowsOK
<1>7. \A c \in Collections :
          Present(rows', s.w, c) = Present(rows, s.w, c) \cup {d \in Docs : <<c, d>> \in s.in}
  <2> SUFFICES ASSUME NEW c \in Collections, NEW d \in Docs
               PROVE  rows'[s.w][c][d] # NoRow <=> rows[s.w][c][d] # NoRow \/ <<c, d>> \in s.in
    BY DEF Present
  <2>1. <<c, d>> \in s.in => s.theirs[c][d] # NoRow
    BY <1>2
  <2> QED
    BY <1>6, <2>1
<1>8. RowsGrow
  <2> SUFFICES ASSUME NEW w \in Workspaces, NEW c \in Collections
               PROVE  Present(rows, w, c) \subseteq Present(rows', w, c)
    BY DEF RowsGrow
  <2>1. CASE w = s.w
    BY <1>7, <2>1
  <2>2. CASE w # s.w
    BY <1>6, <2>2, Places DEF Present
  <2> QED
    BY <2>1, <2>2
<1>9. AllListed'
  <2> SUFFICES ASSUME NEW w \in Workspaces, NEW c \in Collections
               PROVE  Range(meta'[w][c].sequence) \subseteq Present(rows', w, c)
    BY DEF AllListed, ListedIn
  <2>1. Range(meta[w][c].sequence) \subseteq Present(rows, w, c)
    BY DEF AllListed, ListedIn
  <2>2. CASE w = s.w
    BY <1>5, <1>7, <2>1, <2>2
  <2>3. CASE w # s.w
    BY <1>5, <1>6, <2>1, <2>3, Places DEF Present
  <2> QED
    BY <2>2, <2>3
<1> QED
  BY <1>1, <1>3, <1>8, <1>9, SafeTail, SafeEmpty

LEMMA SafeExec ==
  ASSUME IInv, AllListed, SafeJob(job[Loop], rows), Exec(Loop)
  PROVE  AllListed' /\ SafeJob(job'[Loop], rows')
<1>1. Safe(Head(job[Loop]), rows) /\ ~Idle(Loop)
  BY ExecKind, SafeRest DEF Idle
<1>2. \/ ExecUpsertRow(Loop) \/ ExecUpsertMeta(Loop) \/ ExecAddVersion(Loop)
      \/ ExecReadRow(Loop) \/ ExecPushDocument(Loop) \/ ExecReadMine(Loop)
      \/ ExecReadTheirs(Loop) \/ ExecApplyPull(Loop)
  BY <1>1, ExecKind DEF Safe
<1> QED
  BY <1>2, UpsertRowIsSafe, UpsertMetaIsSafe, AddVersionIsSafe, ReadRowIsSafe,
     PushDocumentIsSafe, ReadMineIsSafe, ReadTheirsIsSafe, ApplyPullIsSafe

LEMMA TwoStatements ==
  ASSUME NEW a, NEW b
  PROVE  /\ Head(<<a, b>>) = a /\ Tail(<<a, b>>) = <<b>> /\ <<a, b>> # <<>>
         /\ Head(<<a>>) = a /\ Tail(<<a>>) = <<>> /\ <<a>> # <<>>
OBVIOUS

\* A create writes its row; the list comes next.
LEMMA CreatingExec ==
  ASSUME IInv, AllListed, Creating(job[Loop], rows), Exec(Loop)
  PROVE  AllListed' /\ SafeJob(job'[Loop], rows')
<1>0. PICK w \in Workspaces, c \in Collections, d \in Docs, r \in Rows :
          \E m : /\ job[Loop] = <<UpsertRow(w, c, d, r), UpsertMeta(w, c, m)>>
                 /\ Range(m.sequence) \subseteq Present(rows, w, c) \cup {d}
  BY DEF Creating
<1>1. PICK m : /\ job[Loop] = <<UpsertRow(w, c, d, r), UpsertMeta(w, c, m)>>
               /\ Range(m.sequence) \subseteq Present(rows, w, c) \cup {d}
  BY <1>0
<1> DEFINE a == UpsertRow(w, c, d, r)
           b == UpsertMeta(w, c, m)
<1>2. Head(job[Loop]) = a /\ Tail(job[Loop]) = <<b>>
  BY <1>1, TwoStatements
<1>3. a.do = "upsert row" /\ a.w = w /\ a.c = c /\ a.d = d /\ a.row = r
  BY DEF UpsertRow
<1> HIDE DEF a
<1>4. ExecUpsertRow(Loop)
  BY <1>2, <1>3, ExecKind
<1>5. rows' = [rows EXCEPT ![w][c][d] = r] /\ meta' = meta
  BY <1>2, <1>3, <1>4 DEF ExecUpsertRow
<1>6. job'[Loop] = <<b>>
  BY <1>2, <1>4, LoopIsThread DEF ExecUpsertRow, Done, IInv, JobsOK
<1>7. r # NoRow
  BY RowIsNotNoRow
<1>8. RowsGrow
  BY <1>5, <1>7, Places DEF RowsGrow, Present, IInv, RowsOK, Cells
<1>9. d \in Present(rows', w, c)
  BY <1>5, <1>7, Places DEF Present, IInv, RowsOK, Cells
<1>10. AllListed'
  BY <1>5, <1>8 DEF AllListed, ListedIn, RowsGrow
<1>11. Range(m.sequence) \subseteq Present(rows', w, c)
  BY <1>1, <1>8, <1>9 DEF RowsGrow
<1>12. Safe(b, rows')
  BY <1>11, CommitsAreSafe
<1> HIDE DEF b
<1> QED
  BY <1>6, <1>10, <1>12, SafeOf

\* A deletion writes the list without the id; the row comes next.
LEMMA DeletingExec ==
  ASSUME IInv, AllListed, Deleting(job[Loop], rows), Exec(Loop)
  PROVE  AllListed' /\ Unlisting(job'[Loop], meta')
<1>0. PICK w \in Workspaces, c \in Collections, d \in Docs :
          \E m : /\ job[Loop] = <<UpsertMeta(w, c, m), UpsertRow(w, c, d, NoRow)>>
                 /\ Range(m.sequence) \subseteq Present(rows, w, c) \ {d}
  BY DEF Deleting
<1>1. PICK m : /\ job[Loop] = <<UpsertMeta(w, c, m), UpsertRow(w, c, d, NoRow)>>
               /\ Range(m.sequence) \subseteq Present(rows, w, c) \ {d}
  BY <1>0
<1> DEFINE a == UpsertMeta(w, c, m)
           b == UpsertRow(w, c, d, NoRow)
<1>2. Head(job[Loop]) = a /\ Tail(job[Loop]) = <<b>>
  BY <1>1, TwoStatements
<1>3. a.do = "upsert meta" /\ a.w = w /\ a.c = c /\ a.meta = m
  BY DEF UpsertMeta
<1> HIDE DEF a, b
<1>4. ExecUpsertMeta(Loop)
  BY <1>2, <1>3, ExecKind
<1>5. meta' = [meta EXCEPT ![w][c] = m] /\ rows' = rows
  BY <1>2, <1>3, <1>4 DEF ExecUpsertMeta
<1>6. job'[Loop] = <<b>>
  BY <1>2, <1>4, LoopIsThread DEF ExecUpsertMeta, Done, IInv, JobsOK
<1>7. meta'[w][c] = m
  BY <1>5, Places DEF IInv, ListsOK
<1>8. AllListed'
  BY <1>1, <1>5, Places DEF AllListed, ListedIn, IInv, ListsOK
<1> QED
  BY <1>1, <1>6, <1>7, <1>8 DEF Unlisting, b

LEMMA UnlistingExec ==
  ASSUME IInv, AllListed, Unlisting(job[Loop], meta), Exec(Loop)
  PROVE  AllListed' /\ SafeJob(job'[Loop], rows')
<1>1. PICK w \in Workspaces, c \in Collections, d \in Docs :
          /\ job[Loop] = <<UpsertRow(w, c, d, NoRow)>>
          /\ d \notin Range(meta[w][c].sequence)
  BY DEF Unlisting
<1> DEFINE a == UpsertRow(w, c, d, NoRow)
<1>2. Head(job[Loop]) = a /\ Tail(job[Loop]) = <<>>
  BY <1>1, TwoStatements
<1>3. a.do = "upsert row" /\ a.w = w /\ a.c = c /\ a.d = d /\ a.row = NoRow
  BY DEF UpsertRow
<1> HIDE DEF a
<1>4. ExecUpsertRow(Loop)
  BY <1>2, <1>3, ExecKind
<1>5. rows' = [rows EXCEPT ![w][c][d] = NoRow] /\ meta' = meta
  BY <1>2, <1>3, <1>4 DEF ExecUpsertRow
<1>6. job'[Loop] = <<>>
  BY <1>2, <1>4, LoopIsThread DEF ExecUpsertRow, Done, IInv, JobsOK
<1>7. AllListed'
  <2> SUFFICES ASSUME NEW x \in Workspaces, NEW y \in Collections,
                      NEW z \in Range(meta[x][y].sequence)
               PROVE  z \in Present(rows', x, y)
    BY <1>5 DEF AllListed, ListedIn
  <2>1. z \in Docs /\ rows[x][y][z] # NoRow
    BY DEF AllListed, ListedIn, Present
  <2>2. ~(x = w /\ y = c /\ z = d)
    BY <1>1
  <2>3. rows'[x][y][z] = rows[x][y][z]
    BY <1>5, <2>1, <2>2, Places DEF IInv, RowsOK, Cells
  <2> QED
    BY <2>1, <2>3 DEF Present
<1> QED
  BY <1>6, <1>7, SafeEmpty

\* What the event loop begins with is safe, or a creation or deletion.
LoopBegins ==
    UNCHANGED tables /\ \E t : job' = [job EXCEPT ![Loop] = t] /\ LoopJob(t, rows, meta)

LEMMA PullBegins ==
  ASSUME NEW w, NEW scope, NEW choices, BeginPull(Loop, w, scope, choices)
  PROVE  LoopBegins
<1> DEFINE a == [do |-> "read mine", w |-> w, scope |-> scope, choices |-> choices]
<1>1. Safe(a, rows)
  BY DEF Safe
<1>2. Begin(Loop, <<a>>)
  BY DEF BeginPull
<1> HIDE DEF a
<1> QED
  BY <1>1, <1>2, SafeOf DEF Begin, LoopJob, LoopBegins

LEMMA DocumentBegins ==
  ASSUME IInv, AllListed, NEW w \in Workspaces, NEW c \in Collections, NEW d \in Docs,
         DocumentRequest(w, c, d)
  PROVE  LoopBegins
<1> DEFINE m == meta[w][c]
<1>1. ListOK(m) /\ Range(m.sequence) \subseteq Present(rows, w, c)
  BY Places, ListType DEF IInv, AllListed, ListedIn
<1>2. Range(NoMeta.sequence) = {}
  BY DEF NoMeta, Range
<1>3. ASSUME NEW n, Range(n.sequence) \subseteq Present(rows, w, c), NEW change,
             BeginEdit(w, c, d, n, change)
      PROVE  LoopBegins
  <2> DEFINE a == [do |-> "read row", w |-> w, c |-> c, d |-> d, meta |-> n, change |-> change]
  <2>1. Safe(a, rows)
    BY <1>3 DEF Safe
  <2>2. Begin(Loop, <<a>>)
    BY <1>3 DEF BeginEdit
  <2> HIDE DEF a
  <2> QED
    BY <2>1, <2>2, SafeOf DEF Begin, LoopJob, LoopBegins
<1>4. ASSUME PullDocument(w, c, d)
      PROVE  LoopBegins
  BY <1>4, PullBegins DEF PullDocument
<1>5. ASSUME NEW v \in Values, CreateDocument(w, c, d, v)
      PROVE  LoopBegins
  <2> DEFINE n == Ordered(Append(m.sequence, d), [m.statuses EXCEPT ![d] = "draft"])
             t == <<UpsertRow(w, c, d, Draft(v)), UpsertMeta(w, c, n)>>
  <2>1. d \notin Range(m.sequence) /\ Begin(Loop, t)
    BY <1>5 DEF CreateDocument
  <2>2. Range(Append(m.sequence, d)) = Range(m.sequence) \cup {d}
    BY <1>1, <2>1, CreatedOK
  <2>3. n.sequence = Append(m.sequence, d)
    BY DEF Ordered
  <2> HIDE DEF n
  <2>4. Range(n.sequence) \subseteq Present(rows, w, c) \cup {d}
    BY <1>1, <2>2, <2>3
  <2>5. Creating(t, rows)
    BY <2>4, DraftOK DEF Creating
  <2> QED
    BY <2>1, <2>5 DEF Begin, LoopJob, LoopBegins
<1>6. ASSUME DeleteDocument(w, c, d)
      PROVE  LoopBegins
  <2>1. PICK s \in Selected(m.sequence, Docs \ {d}) :
            Begin(Loop, <<UpsertMeta(w, c, Ordered(s, [m.statuses EXCEPT ![d] = "none"])),
                          UpsertRow(w, c, d, NoRow)>>)
    BY <1>6 DEF DeleteDocument
  <2> DEFINE n == Ordered(s, [m.statuses EXCEPT ![d] = "none"])
             t == <<UpsertMeta(w, c, n), UpsertRow(w, c, d, NoRow)>>
  <2>2. Range(s) = Range(m.sequence) \ {d}
    BY <1>1, DeletedOK
  <2>3. n.sequence = s /\ Begin(Loop, t)
    BY <2>1 DEF Ordered
  <2> HIDE DEF n
  <2>4. Range(n.sequence) \subseteq Present(rows, w, c) \ {d}
    BY <1>1, <2>2, <2>3
  <2>5. Deleting(t, rows)
    BY <2>4 DEF Deleting
  <2> QED
    BY <2>3, <2>5 DEF Begin, LoopJob, LoopBegins
<1>7. ASSUME PushDocument(w, c, d)
      PROVE  LoopBegins
  <2> DEFINE a == [do |-> "push document", w |-> w, c |-> c, d |-> d, row |-> rows[w][c][d]]
  <2>1. rows[w][c][d] # NoRow /\ Begin(Loop, <<a>>)
    BY <1>7 DEF PushDocument
  <2>2. Safe(a, rows)
    BY <2>1 DEF Safe, Present
  <2> HIDE DEF a
  <2> QED
    BY <2>1, <2>2, SafeOf DEF Begin, LoopJob, LoopBegins
<1>8. ASSUME NEW v \in Values, UpdateDocument(w, c, d, v)
      PROVE  LoopBegins
  BY <1>1, <1>3, <1>8 DEF UpdateDocument
<1>9. ASSUME NEW v \in Values, RestoreVersion(w, c, d, v)
      PROVE  LoopBegins
  BY <1>2, <1>3, <1>9 DEF RestoreVersion
<1>10. ASSUME UpdateWithoutEffect(w, c, d)
       PROVE  LoopBegins
  BY <1>1, <1>3, <1>10 DEF UpdateWithoutEffect
<1>11. ASSUME UpdateDocumentStatus(w, c, d)
       PROVE  LoopBegins
  BY <1>1, <1>3, <1>11 DEF UpdateDocumentStatus
<1> QED
  BY <1>4, <1>5, <1>6, <1>7, <1>8, <1>9, <1>10, <1>11 DEF DocumentRequest

\* A push of a collection keeps the rows and lists authors see.
LEMMA CollectionPushLists ==
  ASSUME IInv, NEW w \in Workspaces, NEW c \in Collections, PushCollection(w, c)
  PROVE  /\ job' = job /\ Idle(Loop)
         /\ \A x \in Workspaces, y \in Collections :
               /\ Present(rows', x, y) = Present(rows, x, y)
               /\ meta'[x][y].sequence = meta[x][y].sequence
<1>1. PICK s \in PushOrders(rows, meta, w, c) :
          /\ rows' = PushCollectionRows(rows, w, c, Range(s))
          /\ meta' = PushCollectionMeta(rows, meta, w, c, CopiedMeta(s))
  BY DEF PushCollection
<1>2. job' = job /\ Idle(Loop)
  BY LoopIsThread DEF PushCollection, Starts
<1> DEFINE mine   == Stamped(rows, w, c)
           theirs == Copied(rows, w, c, Range(s))
           m      == StampedMeta(rows, meta, w, c)
           n      == CopiedMeta(s)
<1>3. rows' = [rows EXCEPT ![w][c] = mine, ![Production][c] = theirs]
  BY <1>1 DEF PushCollectionRows
<1>4. meta' = [meta EXCEPT ![w][c] = m, ![Production][c] = n]
  BY <1>1 DEF PushCollectionMeta
<1>5. \A d \in Docs : mine[d] # NoRow <=> rows[w][c][d] # NoRow
  BY Places, RowType, PublishedRow, RowIsNotNoRow DEF Stamped, IInv
<1>6. m.sequence = meta[w][c].sequence
  BY DEF StampedMeta
<1> HIDE DEF mine, theirs, m, n
<1>7. \A x \in Workspaces, y \in Collections :
          /\ rows'[x][y] = IF x = w /\ y = c THEN mine ELSE rows[x][y]
          /\ meta'[x][y] = IF x = w /\ y = c THEN m ELSE meta[x][y]
  BY <1>3, <1>4, Places, ProductionAssumption DEF IInv, RowsOK, ListsOK, Cells
<1> QED
  BY <1>2, <1>5, <1>6, <1>7 DEF Present

LEMMA InitListed == Init => ListedInv
<1> SUFFICES ASSUME Init PROVE ListedInv
  OBVIOUS
<1>1. job[Loop] = <<>> /\ \A p \in Pool : job[p] = <<>>
  BY LoopIsThread DEF Init
<1>2. EditableDocumentsExist
  BY Places DEF Init, EditableDocumentsExist, ListedHaveRows, NoMetas, NoMeta, Range
<1> QED
  BY <1>1, <1>2, SafeOf DEF ListedInv, PoolJob, LoopJob

\* Neither a pool thread nor a crash changes what LoopJob is about.
LEMMA LoopJobStays ==
  ASSUME LoopJob(job[Loop], rows, meta), AuthorsKeep
  PROVE  LoopJob(job[Loop], rows', meta')
<1>1. \A w \in Workspaces : \A c : Present(rows', w, c) = Present(rows, w, c)
  BY DEF AuthorsKeep, Present
<1>2. SafeJob(job[Loop], rows) => SafeJob(job[Loop], rows')
  BY <1>1, SafeGrows
<1>3. Creating(job[Loop], rows) => Creating(job[Loop], rows')
  BY <1>1 DEF Creating
<1>4. Deleting(job[Loop], rows) => Deleting(job[Loop], rows')
  BY <1>1 DEF Deleting
<1>5. Unlisting(job[Loop], meta) => Unlisting(job[Loop], meta')
  BY DEF Unlisting, AuthorsKeep
<1> QED
  BY <1>2, <1>3, <1>4, <1>5 DEF LoopJob

LEMMA PoolIsNotLoop == \A p \in Pool : p # Loop
BY LoopAssumption

LEMMA PoolKeepsListed ==
  ASSUME IInv, NothingRemoved, ListedInv, NEW p \in Pool, PoolRequest(p) \/ Exec(p)
  PROVE  ListedInv'
<1>1. AuthorsKeep /\ PoolJob(job'[p]) /\ \A q \in Threads : q # p => job'[q] = job[q]
  BY PoolExec, PoolBegins DEF ListedInv
<1>2. job'[Loop] = job[Loop]
  BY <1>1, PoolIsNotLoop, LoopIsThread
<1>3. \A q \in Pool : PoolJob(job'[q])
  BY <1>1, LoopIsThread DEF ListedInv
<1>4. EditableDocumentsExist'
  BY <1>1 DEF AuthorsKeep, ListedInv, EditableDocumentsExist, ListedHaveRows
<1>5. LoopJob(job'[Loop], rows', meta')
  BY <1>1, <1>2, LoopJobStays DEF ListedInv
<1> QED
  BY <1>3, <1>4, <1>5 DEF ListedInv

LEMMA LoopKeepsListed ==
  ASSUME IInv, IInv', ListedInv, Exec(Loop)
  PROVE  ListedInv'
<1>1. AllListed
  BY ExistByPresence DEF ListedInv, AllListed
<1>2. AllListed' /\ LoopJob(job'[Loop], rows', meta')
  <2>1. CASE SafeJob(job[Loop], rows)
    BY <1>1, <2>1, SafeExec DEF LoopJob
  <2>2. CASE Creating(job[Loop], rows)
    BY <1>1, <2>2, CreatingExec DEF LoopJob
  <2>3. CASE Deleting(job[Loop], rows)
    BY <1>1, <2>3, DeletingExec DEF LoopJob
  <2>4. CASE Unlisting(job[Loop], meta)
    BY <1>1, <2>4, UnlistingExec DEF LoopJob
  <2> QED
    BY <2>1, <2>2, <2>3, <2>4 DEF ListedInv, LoopJob
<1>3. EditableDocumentsExist'
  BY <1>2, ExistByPresence, PTL DEF AllListed
<1>4. \A p \in Pool : job'[p] = job[p]
  <2>1. \E t : job' = [job EXCEPT ![Loop] = t]
    BY Zenon DEF Exec, ExecUpsertRow, ExecUpsertMeta, ExecAddVersion, ExecReadRow, ExecPushDocument,
           ExecReadRowsToPush, ExecReadMetaToPush, ExecReplaceProduction, ExecReadMine,
           ExecReadTheirs, ExecApplyPull, ExecDeleteWorkspace, ExecClearCollection,
           ExecDeleteCollection, Done, Continue
  <2> QED
    BY <2>1, PoolIsNotLoop, LoopIsThread DEF IInv, JobsOK
<1> QED
  BY <1>2, <1>3, <1>4 DEF ListedInv

LEMMA OthersKeepListed ==
  ASSUME IInv, IInv', ListedInv, NEW w \in Workspaces, NEW c \in Collections,
         \/ PushCollection(w, c) \/ PullCollection(w, c) \/ \E d \in Docs : DocumentRequest(w, c, d)
  PROVE  ListedInv'
<1>1. AllListed
  BY ExistByPresence DEF ListedInv, AllListed
<1>2. CASE PushCollection(w, c)
  <2>1. job' = job /\ job[Loop] = <<>>
    BY <1>2, CollectionPushLists DEF Idle
  <2>2. AllListed'
    BY <1>1, <1>2, CollectionPushLists DEF AllListed, ListedIn
  <2>3. EditableDocumentsExist'
    BY <2>2, ExistByPresence, PTL DEF AllListed
  <2> QED
    BY <2>1, <2>3, SafeEmpty DEF ListedInv, LoopJob
<1>3. ASSUME LoopBegins
      PROVE  ListedInv'
  <2>1. PICK t : job' = [job EXCEPT ![Loop] = t] /\ LoopJob(t, rows, meta)
    BY <1>3 DEF LoopBegins
  <2>2. job'[Loop] = t /\ \A p \in Pool : job'[p] = job[p]
    BY <2>1, PoolIsNotLoop, LoopIsThread DEF IInv, JobsOK
  <2>3. rows' = rows /\ meta' = meta
    BY <1>3 DEF LoopBegins, tables
  <2> QED
    BY <2>1, <2>2, <2>3 DEF ListedInv, EditableDocumentsExist, ListedHaveRows
<1>4. ASSUME NEW d \in Docs, DocumentRequest(w, c, d)
      PROVE  ListedInv'
  BY <1>1, <1>3, <1>4, DocumentBegins
<1>5. CASE PullCollection(w, c)
  BY <1>3, <1>5, PullBegins DEF PullCollection
<1> QED
  BY <1>2, <1>4, <1>5

LEMMA CrashKeepsListed ==
  ASSUME ListedInv, Crash
  PROVE  ListedInv'
<1>1. /\ rows' = rows /\ meta' = meta
      /\ job'[Loop] = <<>> /\ \A p \in Pool : job'[p] = <<>>
  BY LoopIsThread DEF Crash, tables
<1> QED
  BY <1>1, SafeEmpty DEF ListedInv, EditableDocumentsExist, ListedHaveRows, PoolJob, LoopJob

LEMMA NextKeepsListed ==
  ASSUME NothingRemoved
  PROVE  IInv /\ IInv' /\ ListedInv /\ [Next]_vars => ListedInv'
<1> SUFFICES ASSUME IInv, IInv', ListedInv, [Next]_vars PROVE ListedInv'
  OBVIOUS
<1>1. CASE UNCHANGED vars
  BY <1>1 DEF vars, tables, ListedInv, EditableDocumentsExist, ListedHaveRows
<1>2. ASSUME NEW w \in Workspaces, NEW c \in Collections, NEW d \in Docs,
             DocumentRequest(w, c, d)
      PROVE  ListedInv'
  BY <1>2, OthersKeepListed
<1>3. ASSUME NEW w \in Workspaces, NEW c \in Collections,
             PushCollection(w, c) \/ PullCollection(w, c)
      PROVE  ListedInv'
  BY <1>3, OthersKeepListed
<1>4. ASSUME NEW p \in Pool, PoolRequest(p)
      PROVE  ListedInv'
  BY <1>4, PoolKeepsListed
<1>5. ASSUME NEW p \in Threads, Exec(p)
      PROVE  ListedInv'
  BY <1>5, PoolKeepsListed, LoopKeepsListed DEF Threads
<1>6. CASE Crash
  BY <1>6, CrashKeepsListed
<1> QED
  BY <1>1, <1>2, <1>3, <1>4, <1>5, <1>6 DEF Next

\* A document that is listed can be read, whatever document handlers and
\* pushes overlap and wherever the process stops. Workspace pulls and
\* deletions of workspaces or collections are excluded: one of them in the
\* middle of a document handler breaks the property.
THEOREM ListedDocumentsExist ==
  ASSUME NothingRemoved
  PROVE  Spec => []EditableDocumentsExist
<1>1. Init => IInv /\ ListedInv
  BY InitIInv, InitListed
<1>2. IInv /\ ListedInv /\ [Next]_vars => IInv' /\ ListedInv'
  BY NextKeepsIInv, NextKeepsListed
<1>3. ListedInv => EditableDocumentsExist
  BY DEF ListedInv
<1> QED
  BY <1>1, <1>2, <1>3, PTL DEF Spec

-----------------------------------------------------------------------------
(* Edits keep what they replace, as long as no workspace is pulled. What   *)
(* the pool can still do to an edited workspace is to delete from it, so   *)
(* that a row is, from its read to its write, the row read or gone.        *)

NoWorkspacePulls == "pull_from_production" \notin Requests

\* A saved version is the newest one, whatever is dropped.
LEMMA LastSaved ==
  ASSUME NEW h \in Seq(Values), NEW v \in Values
  PROVE  Saved(h, v) # <<>> /\ Saved(h, v)[Len(Saved(h, v))] = v
<1> DEFINE g == Append(h, v)
           n == Len(h)
<1>1. g \in Seq(Values) /\ Len(g) = n + 1 /\ g[n + 1] = v /\ n \in Nat
  BY AppendProperties, LenProperties
<1>2. MaxVersions \in Nat /\ MaxVersions > 0
  BY VersionsAssumption
<1> HIDE DEF g, n
<1>3. CASE Len(g) > MaxVersions
  <2> DEFINE a == Len(g) - MaxVersions + 1
             t == SubSeq(g, a, Len(g))
  <2>1. a \in 1 .. n + 1 /\ Len(g) \in 1 .. n + 1 /\ a <= Len(g)
    BY <1>1, <1>2, <1>3
  <2>2. \A i \in a .. Len(g) : g[i] \in Values
    BY <1>1, <2>1, ElementOfSeq
  <2>3. /\ t \in Seq(Values) /\ Len(t) = MaxVersions
        /\ \A i \in 1 .. MaxVersions : t[i] = g[a + i - 1]
    BY <1>1, <1>2, <2>1, <2>2, SubSeqProperties
  <2>4. t[MaxVersions] = g[n + 1]
    <3>1. a + MaxVersions - 1 = n + 1 /\ MaxVersions \in 1 .. MaxVersions
      BY <1>1, <1>2
    <3> HIDE DEF t, a
    <3> QED
      BY <2>3, <3>1
  <2>5. Saved(h, v) = t
    BY <1>3 DEF Saved, g
  <2> HIDE DEF t, a
  <2>6. t # <<>>
    BY <1>2, <2>3, EmptySeq
  <2> QED
    BY <1>1, <2>3, <2>4, <2>5, <2>6
<1>4. CASE ~(Len(g) > MaxVersions)
  <2>1. Saved(h, v) = g
    BY <1>4 DEF Saved, g
  <2>2. g # <<>>
    BY <1>1, EmptySeq
  <2> QED
    BY <1>1, <2>1, <2>2
<1> QED
  BY <1>3, <1>4

\* A place in a workspace that authors edit.
Place(s) == s.w \in Workspaces /\ s.c \in Collections /\ s.d \in Docs

\* The row s is about is gone or has the data v; it is gone or its newest
\* version has its data.
Holds(s, R, v) == R[s.w][s.c][s.d] = NoRow \/ R[s.w][s.c][s.d].data = v

Covered(s, R, V) ==
    \/ R[s.w][s.c][s.d] = NoRow
    \/ /\ V[s.w][s.c][s.d] # <<>>
       /\ V[s.w][s.c][s.d][Len(V[s.w][s.c][s.d])] = R[s.w][s.c][s.d].data

Row(x)  == x.do = "upsert row" /\ Place(x)
List(m) == m.do = "upsert meta"

\* What the event loop still has to do: nothing; a step that writes no row of
\* a listed document or is a pull;
Harmless(j) ==
    j = <<>> \/ \E s : /\ j = <<s>>
                       /\ s.do \in {"read row", "read mine", "read theirs", "apply pull",
                                    "upsert meta", "add version"}
                       /\ s.do = "read row" => Place(s)

\* a push of the document as it was read;
PushJob(j, R) == \E s : j = <<s>> /\ s.do = "push document" /\ Place(s) /\ Holds(s, R, s.row.data)

\* a write that removes the row, or keeps its data, or has it saved;
WriteJob(j, R, V) ==
    \E x : /\ Row(x)
           /\ j = <<x>> \/ \E m : List(m) /\ (j = <<x, m>> \/ j = <<m, x>>)
           /\ x.row = NoRow \/ Holds(x, R, x.row.data) \/ Covered(x, R, V)

\* a write of a document that is not listed yet;
CreateJob(j, M) ==
    \E x, m : Row(x) /\ List(m) /\ j = <<x, m>> /\ x.d \notin Range(M[x.w][x.c].sequence)

\* or a version of the row as it was read, and then the write.
SaveJob(j, R) ==
    \E v, x : /\ v.do = "add version" /\ Place(v) /\ Row(x)
              /\ x.w = v.w /\ x.c = v.c /\ x.d = v.d
              /\ j = <<v, x>> \/ \E m : List(m) /\ j = <<v, m, x>>
              /\ Holds(v, R, v.data)

KeptJob(j, R, V, M) ==
    Harmless(j) \/ PushJob(j, R) \/ WriteJob(j, R, V) \/ CreateJob(j, M) \/ SaveJob(j, R)

\* A thread of the pool writes production, or deletes.
Erasing(s) ==
    OnProduction(s) \/ s.do \in {"delete workspace", "clear collection", "delete collection"}

ErasingJob(j) == \E S : j \in Seq(S) /\ \A s \in S : Erasing(s)

KeptInv ==
    /\ \A p \in Pool : ErasingJob(job[p])
    /\ KeptJob(job[Loop], rows, versions, meta)

\* What EditsKeepFormerData says of one step and one document.
KeptStep(w, c, d) ==
    LET old == rows[w][c][d]  new == rows'[w][c][d]  kept == versions[w][c][d]
    IN  old # NoRow /\ new # NoRow /\ old.data # new.data /\ ~Pulling
        => kept # <<>> /\ kept[Len(kept)] = old.data

AllKept == \A w \in Workspaces, c \in Collections :
               \A d \in Range(meta[w][c].sequence) : KeptStep(w, c, d)

-----------------------------------------------------------------------------
(* Steps of the pool delete at most.                                       *)

AuthorsLose ==
    /\ versions' = versions
    /\ \A w \in Workspaces, c \in Collections :
          /\ \A d \in Docs : rows'[w][c][d] = rows[w][c][d] \/ rows'[w][c][d] = NoRow
          /\ meta'[w][c].sequence = meta[w][c].sequence \/ meta'[w][c].sequence = <<>>

LEMMA ErasingRest ==
  ASSUME NEW j, ErasingJob(j), j # <<>>
  PROVE  Erasing(Head(j)) /\ ErasingJob(Tail(j))
<1>1. PICK S : j \in Seq(S) /\ \A s \in S : Erasing(s)
  BY DEF ErasingJob
<1>2. Head(j) \in S /\ Tail(j) \in Seq(S)
  BY <1>1, HeadTailProperties
<1> QED
  BY <1>1, <1>2 DEF ErasingJob

LEMMA ErasingPrefix ==
  ASSUME NEW a, NEW j, Erasing(a), ErasingJob(j)
  PROVE  ErasingJob(<<a>> \o j)
<1>1. PICK T : j \in Seq(T) /\ \A s \in T : Erasing(s)
  BY DEF ErasingJob
<1> DEFINE U == {a} \cup T
<1>2. a \in U /\ \A s \in U : Erasing(s)
  BY <1>1
<1>3. Seq(T) \subseteq Seq(U)
  BY SeqMonotonic
<1> HIDE DEF U
<1>4. <<a>> \in Seq(U)
  BY <1>2
<1>5. <<a>> \o j \in Seq(U)
  BY <1>1, <1>3, <1>4, ConcatProperties
<1> QED
  BY <1>2, <1>5 DEF ErasingJob

LEMMA ErasingOf == ErasingJob(<<>>) /\ \A a : Erasing(a) => ErasingJob(<<a>>)
<1>1. ErasingJob(<<>>)
  <2> DEFINE S == {}
  <2>1. \A s \in S : Erasing(s)
    OBVIOUS
  <2> HIDE DEF S
  <2>2. <<>> \in Seq(S)
    OBVIOUS
  <2> QED
    BY <2>1, <2>2 DEF ErasingJob
<1>2. ASSUME NEW a, Erasing(a)
      PROVE  ErasingJob(<<a>>)
  <2> DEFINE S == {a}
  <2>1. a \in S /\ \A s \in S : Erasing(s)
    BY <1>2
  <2> HIDE DEF S
  <2>2. <<a>> \in Seq(S)
    BY <2>1
  <2> QED
    BY <2>1, <2>2 DEF ErasingJob
<1> QED
  BY <1>1, <1>2

LEMMA ErasingExec ==
  ASSUME IInv, NEW p \in Pool, ErasingJob(job[p]), Exec(p)
  PROVE  AuthorsLose /\ ErasingJob(job'[p]) /\ \A q \in Threads : q # p => job'[q] = job[q]
<1> DEFINE s == Head(job[p])
<1>1. p \in Threads /\ p \in DOMAIN job /\ Threads = DOMAIN job
  BY LoopIsThread DEF IInv, JobsOK
<1>2. ~Idle(p) /\ Erasing(s) /\ ErasingJob(Tail(job[p])) /\ StatementOK(s)
  BY <1>1, ExecKind, ErasingRest, HeadOK DEF Idle
<1>3. \A w \in Workspaces : w # Production /\ w \in AllWorkspaces
  BY ProductionAssumption, Places
<1>4. /\ rows \in [AllWorkspaces -> [Collections -> [Docs -> Rows \cup {NoRow}]]]
      /\ meta \in [AllWorkspaces -> [Collections -> Metas]]
  BY DEF IInv, RowsOK, ListsOK, Cells
<1>5. Done(p) => ErasingJob(job'[p]) /\ \A q \in Threads : q # p => job'[q] = job[q]
  BY <1>1, <1>2 DEF Done
<1>6. ASSUME NEW a, Erasing(a), Continue(p, <<a>>)
      PROVE  ErasingJob(job'[p]) /\ \A q \in Threads : q # p => job'[q] = job[q]
  BY <1>1, <1>2, <1>6, ErasingPrefix DEF Continue
<1>7. ASSUME \A w \in Workspaces : rows'[w] = rows[w] /\ meta'[w] = meta[w],
             versions' = versions
      PROVE  AuthorsLose
  BY <1>7 DEF AuthorsLose
<1>8. CASE s.do = "read rows to push"
  <2>1. ExecReadRowsToPush(p)
    BY <1>8, ExecKind
  <2>2. Erasing([do |-> "read meta to push", w |-> s.w, rows |-> rows[s.w]])
    BY DEF Erasing, OnProduction
  <2> QED
    BY <1>6, <1>7, <2>1, <2>2 DEF ExecReadRowsToPush, tables
<1>9. CASE s.do = "read meta to push"
  <2>1. ExecReadMetaToPush(p)
    BY <1>9, ExecKind
  <2>2. Erasing([do |-> "replace production", rows |-> s.rows, meta |-> meta[s.w]])
    BY DEF Erasing, OnProduction
  <2> QED
    BY <1>6, <1>7, <2>1, <2>2 DEF ExecReadMetaToPush, tables
<1>10. CASE s.do = "replace production"
  <2>1. ExecReplaceProduction(p)
    BY <1>10, ExecKind
  <2> QED
    BY <1>3, <1>4, <1>5, <1>7, <2>1 DEF ExecReplaceProduction, PushWorkspace
<1>11. CASE s.do = "upsert meta" /\ s.w = Production
  <2>1. ExecUpsertMeta(p)
    BY <1>11, ExecKind
  <2> QED
    BY <1>3, <1>4, <1>5, <1>7, <1>11, <2>1 DEF ExecUpsertMeta
<1>12. CASE s.do = "delete workspace"
  <2>1. ExecDeleteWorkspace(p)
    BY <1>12, ExecKind
  <2>2. /\ rows' = [rows EXCEPT ![s.w] = NoRows] /\ meta' = [meta EXCEPT ![s.w] = NoMetas]
        /\ versions' = versions /\ Done(p)
    BY <2>1 DEF ExecDeleteWorkspace
  <2> HIDE DEF s
  <2>3. AuthorsLose
    BY <1>3, <1>4, <2>2 DEF AuthorsLose, NoRows, NoMetas, NoMeta
  <2> QED
    BY <1>5, <2>2, <2>3
<1>13. CASE s.do = "clear collection"
  <2>1. ExecClearCollection(p)
    BY <1>13, ExecKind
  <2>2. /\ rows' = [rows EXCEPT ![s.w][s.c] = NoRows[s.c]]
        /\ meta' = [meta EXCEPT ![s.w][s.c] = NoMeta]
        /\ versions' = versions /\ Done(p)
    BY <2>1 DEF ExecClearCollection
  <2> HIDE DEF s
  <2>3. AuthorsLose
    BY <1>3, <1>4, <2>2 DEF AuthorsLose, NoRows, NoMeta
  <2> QED
    BY <1>5, <2>2, <2>3
<1>14. CASE s.do = "delete collection"
  <2>1. ExecDeleteCollection(p)
    BY <1>14, ExecKind
  <2> QED
    BY <1>5, <1>7, <2>1 DEF ExecDeleteCollection
<1> QED
  BY <1>2, <1>8, <1>9, <1>10, <1>11, <1>12, <1>13, <1>14 DEF Erasing, OnProduction

LEMMA DeletionErases ==
  ASSUME IInv, NEW c, NEW order \in Orderings(workspaces)
  PROVE  LET all    == <<Production>> \o order
             clears == [i \in DOMAIN all |-> Clear(all[i], c)]
         IN  ErasingJob(clears \o <<[do |-> "delete collection", c |-> c]>>)
<1> DEFINE all    == <<Production>> \o order
           clears == [i \in DOMAIN all |-> Clear(all[i], c)]
           a      == [do |-> "delete collection", c |-> c]
           S      == {Clear(w, c) : w \in AllWorkspaces}
           T      == S \cup {a}
<1>1. \A s \in T : Erasing(s)
  <2>1. (\A w \in AllWorkspaces : Erasing(Clear(w, c))) /\ Erasing(a)
    BY DEF Erasing, Clear
  <2> HIDE DEF a
  <2> QED
    BY <2>1
<1>2. clears \in Seq(S) /\ Seq(S) \subseteq Seq(T) /\ a \in T
  <2>1. clears \in Seq(S)
    BY ClearsAre
  <2> HIDE DEF a, S, clears
  <2> QED
    BY <2>1, SeqMonotonic
<1> HIDE DEF T, clears, a
<1>3. <<a>> \in Seq(T)
  BY <1>2
<1>4. clears \o <<a>> \in Seq(T)
  BY <1>2, <1>3, ConcatProperties
<1>5. ErasingJob(clears \o <<a>>)
  BY <1>1, <1>4 DEF ErasingJob
<1> QED
  BY <1>5 DEF clears, a

LEMMA ErasingBegins ==
  ASSUME IInv, NoWorkspacePulls, NEW p \in Pool, ErasingJob(job[p]), PoolRequest(p)
  PROVE  /\ rows' = rows /\ meta' = meta /\ versions' = versions
         /\ ErasingJob(job'[p]) /\ \A q \in Threads : q # p => job'[q] = job[q]
<1>1. p \in DOMAIN job /\ Threads = DOMAIN job
  BY LoopIsThread DEF IInv, JobsOK
<1>2. ASSUME NEW t, ErasingJob(t), job' = [job EXCEPT ![p] = t]
      PROVE  ErasingJob(job'[p]) /\ \A q \in Threads : q # p => job'[q] = job[q]
  BY <1>1, <1>2
<1>3. ASSUME NEW w \in Workspaces, CreateWorkspace(p, w)
      PROVE  /\ rows' = rows /\ meta' = meta /\ versions' = versions
             /\ ErasingJob(job'[p]) /\ \A q \in Threads : q # p => job'[q] = job[q]
  BY <1>3 DEF CreateWorkspace
<1>4. ASSUME NEW w \in Workspaces, DeleteWorkspace(p, w)
      PROVE  /\ rows' = rows /\ meta' = meta /\ versions' = versions
             /\ ErasingJob(job'[p]) /\ \A q \in Threads : q # p => job'[q] = job[q]
  <2>1. Erasing([do |-> "delete workspace", w |-> w])
    BY DEF Erasing
  <2> QED
    BY <1>2, <1>4, <2>1, ErasingOf DEF DeleteWorkspace, Begin, tables
<1>5. ASSUME NEW w \in Workspaces, PushWorkspaceToProduction(p, w)
      PROVE  /\ rows' = rows /\ meta' = meta /\ versions' = versions
             /\ ErasingJob(job'[p]) /\ \A q \in Threads : q # p => job'[q] = job[q]
  <2>1. Erasing([do |-> "read rows to push", w |-> w])
    BY DEF Erasing, OnProduction
  <2> QED
    BY <1>2, <1>5, <2>1, ErasingOf DEF PushWorkspaceToProduction, Begin, tables
<1>6. ASSUME NEW w \in Workspaces
      PROVE  ~PullWorkspace(p, w)
  BY DEF NoWorkspacePulls, PullWorkspace, Starts
<1>7. ASSUME NEW c \in Collections, CreateCollection(p, c)
      PROVE  /\ rows' = rows /\ meta' = meta /\ versions' = versions
             /\ ErasingJob(job'[p]) /\ \A q \in Threads : q # p => job'[q] = job[q]
  <2>1. Erasing(UpsertMeta(Production, c, Ordered(<<>>, NoMeta.statuses)))
    BY DEF Erasing, OnProduction, UpsertMeta
  <2> QED
    BY <1>2, <1>7, <2>1, ErasingOf DEF CreateCollection
<1>8. ASSUME NEW c \in Collections, DeleteCollection(p, c)
      PROVE  /\ rows' = rows /\ meta' = meta /\ versions' = versions
             /\ ErasingJob(job'[p]) /\ \A q \in Threads : q # p => job'[q] = job[q]
  <2>1. PICK t : job' = [job EXCEPT ![p] = t] /\ ErasingJob(t)
    BY <1>8, DeletionErases DEF DeleteCollection, Begin, Clear
  <2> QED
    BY <1>2, <1>8, <2>1 DEF DeleteCollection, Begin, tables
<1> QED
  BY <1>3, <1>4, <1>5, <1>6, <1>7, <1>8 DEF PoolRequest

-----------------------------------------------------------------------------
(* Steps of the event loop keep what they replace.                         *)

LEMMA ThreeStatements ==
  ASSUME NEW a, NEW b, NEW c
  PROVE  Head(<<a, b, c>>) = a /\ Tail(<<a, b, c>>) = <<b, c>> /\ <<a, b, c>> # <<>>
OBVIOUS

\* What is true of the step and of the rest of the job.
Keeping == AllKept /\ KeptJob(job'[Loop], rows', versions', meta')

LEMMA NoRowWritten ==
  ASSUME \A w \in Workspaces : rows'[w] = rows[w]
  PROVE  AllKept
BY DEF AllKept, KeptStep

LEMMA PlaceIs ==
  ASSUME IInv, NEW s, Place(s)
  PROVE  /\ s.w \in Workspaces /\ s.w \in AllWorkspaces /\ s.w # Production
         /\ s.c \in Collections /\ s.d \in Docs
         /\ rows[s.w][s.c][s.d] \in Rows \cup {NoRow}
BY Places, ProductionAssumption, RowType DEF Place, IInv

LEMMA LoopTakes ==
  ASSUME IInv
  PROVE  /\ Done(Loop) => job'[Loop] = Tail(job[Loop])
         /\ \A t : Continue(Loop, t) => job'[Loop] = t \o Tail(job[Loop])
BY LoopIsThread DEF IInv, JobsOK, Done, Continue

\* The write of a row whose data is kept.
LEMMA WriteRow ==
  ASSUME IInv, NEW x, Row(x),
         \/ x.row = NoRow \/ Holds(x, rows, x.row.data) \/ Covered(x, rows, versions)
         \/ x.d \notin Range(meta[x.w][x.c].sequence),
         Head(job[Loop]) = x, Exec(Loop)
  PROVE  AllKept /\ job'[Loop] = Tail(job[Loop])
<1>1. ExecUpsertRow(Loop)
  BY ExecKind DEF Row
<1>2. rows' = [rows EXCEPT ![x.w][x.c][x.d] = x.row] /\ Done(Loop)
  BY <1>1, Zenon DEF ExecUpsertRow
<1>3. x.w \in AllWorkspaces /\ x.c \in Collections /\ x.d \in Docs
  BY PlaceIs DEF Row
<1>4. \A w \in Workspaces, c \in Collections, d \in Docs :
          rows'[w][c][d] = IF w = x.w /\ c = x.c /\ d = x.d THEN x.row ELSE rows[w][c][d]
  BY <1>2, <1>3, Places DEF IInv, RowsOK, Cells
<1>5. ASSUME NEW w \in Workspaces, NEW c \in Collections, NEW d \in Range(meta[w][c].sequence)
      PROVE  KeptStep(w, c, d)
  <2>1. d \in Docs
    BY Places, ListType, RangeOfSeq DEF IInv
  <2>2. CASE w = x.w /\ c = x.c /\ d = x.d
    <3>1. rows'[w][c][d] = x.row
      BY <1>4, <2>1, <2>2
    <3> QED
      BY <2>2, <3>1 DEF KeptStep, Holds, Covered
  <2>3. CASE ~(w = x.w /\ c = x.c /\ d = x.d)
    <3>1. rows'[w][c][d] = rows[w][c][d]
      BY <1>4, <2>1, <2>3
    <3> QED
      BY <3>1 DEF KeptStep
  <2> QED
    BY <2>2, <2>3
<1> QED
  BY <1>2, <1>5, LoopTakes DEF AllKept

LEMMA WriteList ==
  ASSUME IInv, NEW m, List(m), Head(job[Loop]) = m, Exec(Loop)
  PROVE  AllKept /\ rows' = rows /\ versions' = versions /\ job'[Loop] = Tail(job[Loop])
<1>1. ExecUpsertMeta(Loop)
  BY ExecKind DEF List
<1> QED
  BY <1>1, NoRowWritten, LoopTakes DEF ExecUpsertMeta

LEMMA ListAlone ==
  ASSUME NEW m, List(m), NEW R, NEW V, NEW M
  PROVE  KeptJob(<<m>>, R, V, M) /\ KeptJob(<<>>, R, V, M)
BY DEF KeptJob, Harmless, List

LEMMA WriteJobExec ==
  ASSUME IInv, WriteJob(job[Loop], rows, versions), Exec(Loop)
  PROVE  Keeping
<1>1. PICK x : /\ Row(x)
               /\ \/ job[Loop] = <<x>>
                  \/ \E m : List(m) /\ (job[Loop] = <<x, m>> \/ job[Loop] = <<m, x>>)
               /\ x.row = NoRow \/ Holds(x, rows, x.row.data) \/ Covered(x, rows, versions)
  BY DEF WriteJob
<1>2. CASE job[Loop] = <<x>>
  <2>1. Head(job[Loop]) = x /\ Tail(job[Loop]) = <<>>
    BY <1>2, TwoStatements
  <2>2. AllKept /\ job'[Loop] = <<>>
    BY <1>1, <2>1, WriteRow
  <2> QED
    BY <2>2 DEF Keeping, KeptJob, Harmless
<1>3. ASSUME NEW m, List(m), job[Loop] = <<x, m>>
      PROVE  Keeping
  <2>1. Head(job[Loop]) = x /\ Tail(job[Loop]) = <<m>>
    BY <1>3, TwoStatements
  <2>2. AllKept /\ job'[Loop] = <<m>>
    BY <1>1, <2>1, WriteRow
  <2> QED
    BY <1>3, <2>2, ListAlone DEF Keeping
<1>4. ASSUME NEW m, List(m), job[Loop] = <<m, x>>
      PROVE  Keeping
  <2>1. Head(job[Loop]) = m /\ Tail(job[Loop]) = <<x>>
    BY <1>4, TwoStatements
  <2>2. AllKept /\ rows' = rows /\ versions' = versions /\ job'[Loop] = <<x>>
    BY <1>4, <2>1, WriteList
  <2>3. WriteJob(<<x>>, rows, versions)
    BY <1>1 DEF WriteJob
  <2> QED
    BY <2>2, <2>3 DEF Keeping, KeptJob
<1> QED
  BY <1>1, <1>2, <1>3, <1>4

LEMMA CreateJobExec ==
  ASSUME IInv, CreateJob(job[Loop], meta), Exec(Loop)
  PROVE  Keeping
<1>1. PICK x, m : /\ Row(x) /\ List(m) /\ job[Loop] = <<x, m>>
                  /\ x.d \notin Range(meta[x.w][x.c].sequence)
  BY DEF CreateJob
<1>2. Head(job[Loop]) = x /\ Tail(job[Loop]) = <<m>>
  BY <1>1, TwoStatements
<1>3. AllKept /\ job'[Loop] = <<m>>
  BY <1>1, <1>2, WriteRow
<1> QED
  BY <1>1, <1>3, ListAlone DEF Keeping

\* Once the version is saved, the row's data is the newest version.
LEMMA SaveJobExec ==
  ASSUME IInv, SaveJob(job[Loop], rows), Exec(Loop)
  PROVE  Keeping
<1>1. PICK v, x : /\ v.do = "add version" /\ Place(v) /\ Row(x)
                  /\ x.w = v.w /\ x.c = v.c /\ x.d = v.d
                  /\ job[Loop] = <<v, x>> \/ \E m : List(m) /\ job[Loop] = <<v, m, x>>
                  /\ Holds(v, rows, v.data)
  BY DEF SaveJob
<1>2. /\ Head(job[Loop]) = v /\ job[Loop] # <<>>
      /\ Tail(job[Loop]) = <<x>> \/ \E m : List(m) /\ Tail(job[Loop]) = <<m, x>>
  <2>1. CASE job[Loop] = <<v, x>>
    BY <2>1, TwoStatements
  <2>2. ASSUME NEW m, List(m), job[Loop] = <<v, m, x>>
        PROVE  /\ Head(job[Loop]) = v /\ job[Loop] # <<>>
               /\ List(m) /\ Tail(job[Loop]) = <<m, x>>
    BY <2>2, ThreeStatements
  <2> QED
    BY <1>1, <2>1, <2>2
<1>3. ExecAddVersion(Loop)
  BY <1>1, <1>2, ExecKind
<1>4. v.data \in Values
  BY <1>1, <1>2, HeadOK, LoopIsThread DEF StatementOK, Idle
<1>5. v.w \in AllWorkspaces /\ v.c \in Collections /\ v.d \in Docs
  BY <1>1, PlaceIs
<1> DEFINE h == versions[v.w][v.c][v.d]
<1>6. h \in Seq(Values)
  BY <1>5 DEF IInv, VersionsOK
<1>7. /\ versions' = [versions EXCEPT ![v.w][v.c][v.d] = Saved(h, v.data)]
      /\ rows' = rows /\ Done(Loop)
  BY <1>2, <1>3, Zenon DEF ExecAddVersion
<1>8. versions'[v.w][v.c][v.d] = Saved(h, v.data)
  BY <1>5, <1>7 DEF IInv, VersionsOK
<1>9. Saved(h, v.data) # <<>> /\ Saved(h, v.data)[Len(Saved(h, v.data))] = v.data
  BY <1>4, <1>6, LastSaved
<1> HIDE DEF h
<1>10. Covered(x, rows', versions')
  BY <1>1, <1>7, <1>8, <1>9 DEF Covered, Holds
<1>11. job'[Loop] = <<x>> \/ \E m : List(m) /\ job'[Loop] = <<m, x>>
  BY <1>2, <1>7, LoopTakes
<1>12. WriteJob(job'[Loop], rows', versions')
  BY <1>1, <1>10, <1>11 DEF WriteJob
<1> QED
  BY <1>7, <1>12, NoRowWritten DEF Keeping, KeptJob

LEMMA PushJobExec ==
  ASSUME IInv, PushJob(job[Loop], rows), Exec(Loop)
  PROVE  Keeping
<1>1. PICK s : /\ job[Loop] = <<s>> /\ s.do = "push document" /\ Place(s)
               /\ Holds(s, rows, s.row.data)
  BY DEF PushJob
<1>2. Head(job[Loop]) = s /\ Tail(job[Loop]) = <<>> /\ job[Loop] # <<>>
  BY <1>1, TwoStatements
<1>3. ExecPushDocument(Loop)
  BY <1>1, <1>2, ExecKind
<1>4. s.row \in Rows
  BY <1>1, <1>2, HeadOK, LoopIsThread DEF StatementOK, Idle
<1>5. /\ s.w \in Workspaces /\ s.w \in AllWorkspaces /\ s.w # Production
      /\ s.c \in Collections /\ s.d \in Docs
  BY <1>1, PlaceIs
<1>6. job'[Loop] = <<>> /\ rows' = PushDocumentRows(rows, s.w, s.c, s.d, s.row)
  BY <1>2, <1>3, LoopTakes DEF ExecPushDocument
<1> DEFINE pushed == [s.row EXCEPT !.status = "published"]
           mine   == IF rows[s.w][s.c][s.d] = NoRow THEN NoRow ELSE pushed
           R      == [rows EXCEPT ![s.w][s.c][s.d] = mine]
<1>7. rows' = [R EXCEPT ![Production][s.c][s.d] = pushed]
  BY <1>6 DEF PushDocumentRows
<1>8. pushed.data = s.row.data
  BY <1>4 DEF Rows
<1> HIDE DEF pushed
<1>9. mine = NoRow \/ mine.data = s.row.data
  BY <1>8
<1>10. mine = NoRow <=> rows[s.w][s.c][s.d] = NoRow \/ pushed = NoRow
  OBVIOUS
<1> HIDE DEF mine
<1>11. \A w \in Workspaces : rows'[w] = R[w]
  BY <1>7, Places, ProductionAssumption DEF IInv, RowsOK
<1>12. \A w \in Workspaces, c \in Collections, d \in Docs :
          rows'[w][c][d] = IF w = s.w /\ c = s.c /\ d = s.d THEN mine ELSE rows[w][c][d]
  BY <1>5, <1>11, Places DEF IInv, RowsOK, Cells
<1>13. ASSUME NEW w \in Workspaces, NEW c \in Collections, NEW d \in Range(meta[w][c].sequence)
       PROVE  KeptStep(w, c, d)
  <2>1. d \in Docs
    BY Places, ListType, RangeOfSeq DEF IInv
  <2>2. CASE w = s.w /\ c = s.c /\ d = s.d
    <3>1. rows'[w][c][d] = mine
      BY <1>12, <2>1, <2>2
    <3> QED
      BY <1>1, <1>9, <2>2, <3>1 DEF KeptStep, Holds
  <2>3. CASE ~(w = s.w /\ c = s.c /\ d = s.d)
    <3>1. rows'[w][c][d] = rows[w][c][d]
      BY <1>12, <2>1, <2>3
    <3> QED
      BY <3>1 DEF KeptStep
  <2> QED
    BY <2>2, <2>3
<1> QED
  BY <1>6, <1>13 DEF Keeping, AllKept, KeptJob, Harmless

LEMMA OneStatement ==
  ASSUME NEW a
  PROVE  <<a>> \o <<>> = <<a>>
OBVIOUS

LEMMA ConcatNothing ==
  ASSUME NEW j, JobOK(j)
  PROVE  j \o <<>> = j
BY ConcatEmptySeq DEF JobOK

\* What an edit that found a row continues with.
LEMMA EditsKept ==
  ASSUME IInv, NEW s, s.do = "read row", Place(s), rows[s.w][s.c][s.d] # NoRow
  PROVE  KeptJob(Edits(s, rows[s.w][s.c][s.d]), rows, versions, meta)
<1> DEFINE r       == rows[s.w][s.c][s.d]
           version == AddVersion(s.w, s.c, s.d, r.data)
           revert  == UpsertMeta(s.w, s.c, Reverted(s.meta, s.d))
           write   == UpsertRow(s.w, s.c, s.d, Written(s, r))
           j       == Edits(s, r)
<1>1. /\ version.do = "add version" /\ version.data = r.data
      /\ version.w = s.w /\ version.c = s.c /\ version.d = s.d
  BY DEF AddVersion
<1>2. List(revert)
  BY DEF UpsertMeta, List
<1>3. /\ write.do = "upsert row" /\ write.row = Written(s, r)
      /\ write.w = s.w /\ write.c = s.c /\ write.d = s.d
  BY DEF UpsertRow
<1>4. s.change.kind = "status" => Written(s, r).data = r.data
  BY DEF Written
<1>5. \/ j = <<version>>
      \/ s.change.kind = "status" /\ j = <<write, revert>>
      \/ s.change.kind # "status" /\ j = <<version, revert, write>>
      \/ s.change.kind # "status" /\ j = <<version, write>>
  BY EditsAre
<1> HIDE DEF version, revert, write, j
<1>6. Place(version) /\ Row(write)
  BY <1>1, <1>3 DEF Place, Row
<1>7. Holds(version, rows, version.data)
  BY <1>1 DEF Holds
<1>8. ASSUME j = <<version>>
      PROVE  KeptJob(j, rows, versions, meta)
  BY <1>1, <1>8 DEF KeptJob, Harmless
<1>9. ASSUME s.change.kind = "status", j = <<write, revert>>
      PROVE  KeptJob(j, rows, versions, meta)
  <2>1. Holds(write, rows, write.row.data)
    BY <1>3, <1>4, <1>9 DEF Holds
  <2>2. WriteJob(j, rows, versions)
    BY <1>2, <1>6, <1>9, <2>1 DEF WriteJob
  <2> QED
    BY <2>2 DEF KeptJob
<1>10. ASSUME j = <<version, revert, write>> \/ j = <<version, write>>
       PROVE  KeptJob(j, rows, versions, meta)
  <2>1. SaveJob(j, rows)
    BY <1>1, <1>2, <1>3, <1>6, <1>7, <1>10 DEF SaveJob
  <2> QED
    BY <2>1 DEF KeptJob
<1>11. KeptJob(j, rows, versions, meta)
  BY <1>5, <1>8, <1>9, <1>10
<1> QED
  BY <1>11 DEF j

LEMMA PullIsHarmless ==
  ASSUME NEW a, a.do = "read theirs" \/ a.do = "apply pull"
  PROVE  Harmless(<<a>>)
BY DEF Harmless

LEMMA HarmlessExec ==
  ASSUME IInv, Harmless(job[Loop]), Exec(Loop)
  PROVE  Keeping
<1>1. PICK s : /\ job[Loop] = <<s>>
               /\ s.do \in {"read row", "read mine", "read theirs", "apply pull",
                            "upsert meta", "add version"}
               /\ s.do = "read row" => Place(s)
  BY ExecKind DEF Harmless, Idle
<1>2. Head(job[Loop]) = s /\ Tail(job[Loop]) = <<>> /\ job[Loop] # <<>>
  BY <1>1, TwoStatements
<1>3. StatementOK(s)
  BY <1>2, HeadOK, LoopIsThread DEF Idle
<1>4. ASSUME rows' = rows, Harmless(job'[Loop])
      PROVE  Keeping
  BY <1>4, NoRowWritten DEF Keeping, KeptJob
<1>5. CASE s.do = "upsert meta"
  <2>1. AllKept /\ job'[Loop] = <<>>
    BY <1>2, <1>5, WriteList DEF List
  <2> QED
    BY <2>1 DEF Keeping, KeptJob, Harmless
<1>6. CASE s.do = "add version"
  <2>1. ExecAddVersion(Loop)
    BY <1>2, <1>6, ExecKind
  <2>2. rows' = rows /\ job'[Loop] = <<>>
    BY <1>2, <2>1, LoopTakes, Zenon DEF ExecAddVersion
  <2> QED
    BY <2>2, NoRowWritten DEF Keeping, KeptJob, Harmless
<1>7. CASE s.do = "read mine"
  <2>1. ExecReadMine(Loop)
    BY <1>2, <1>7, ExecKind
  <2>2. PICK a : /\ a = [do |-> "read theirs", w |-> s.w, scope |-> s.scope,
                         choices |-> s.choices, mine |-> rows[s.w]]
                 /\ Continue(Loop, <<a>>) /\ rows' = rows
    BY <1>2, <2>1 DEF ExecReadMine, tables
  <2>3. job'[Loop] = <<a>>
    BY <1>2, <2>2, LoopTakes, OneStatement
  <2>4. Harmless(<<a>>)
    BY <2>2, PullIsHarmless
  <2>5. Harmless(job'[Loop])
    BY <2>3, <2>4
  <2> QED
    BY <1>4, <2>2, <2>5
<1>8. CASE s.do = "read theirs"
  <2>1. ExecReadTheirs(Loop)
    BY <1>2, <1>8, ExecKind
  <2>2. PICK a : a.do = "apply pull" /\ Continue(Loop, <<a>>)
    BY <1>2, <2>1 DEF ExecReadTheirs
  <2>3. rows' = rows
    BY <2>1 DEF ExecReadTheirs, tables
  <2>4. job'[Loop] = <<a>>
    BY <1>2, <2>2, LoopTakes, OneStatement
  <2>5. Harmless(<<a>>)
    BY <2>2, PullIsHarmless
  <2>6. Harmless(job'[Loop])
    BY <2>4, <2>5
  <2> QED
    BY <1>4, <2>3, <2>6
<1>9. CASE s.do = "apply pull"
  <2>1. ExecApplyPull(Loop)
    BY <1>2, <1>9, ExecKind
  <2>2. job'[Loop] = <<>>
    BY <1>2, <2>1, LoopTakes DEF ExecApplyPull
  <2>3. Pulling
    BY <1>2, <2>1, <2>2, LoopIsThread DEF Pulling, ExecApplyPull
  <2> QED
    BY <2>2, <2>3 DEF Keeping, AllKept, KeptStep, KeptJob, Harmless
<1>10. CASE s.do = "read row"
  <2> DEFINE r == rows[s.w][s.c][s.d]
             t == IF r = NoRow THEN <<>> ELSE Edits(s, r)
  <2>1. ExecReadRow(Loop)
    BY <1>2, <1>10, ExecKind
  <2>2. Continue(Loop, t) /\ UNCHANGED tables
    BY <1>2, <2>1, Zenon DEF ExecReadRow
  <2>3. r \in Rows \cup {NoRow}
    BY <1>1, <1>10, PlaceIs
  <2>4. JobOK(t) /\ KeptJob(t, rows, versions, meta)
    <3>1. CASE r = NoRow
      BY <3>1, JobOf DEF KeptJob, Harmless
    <3>2. CASE r # NoRow
      BY <1>1, <1>3, <1>10, <2>3, <3>2, EditsOK, EditsKept
    <3> QED
      BY <3>1, <3>2
  <2> HIDE DEF t
  <2>5. job'[Loop] = t
    BY <1>2, <2>2, <2>4, LoopTakes, ConcatNothing
  <2> QED
    BY <2>2, <2>4, <2>5, NoRowWritten DEF Keeping, tables
<1> QED
  BY <1>1, <1>5, <1>6, <1>7, <1>8, <1>9, <1>10

LEMMA KeptExec ==
  ASSUME IInv, KeptJob(job[Loop], rows, versions, meta), Exec(Loop)
  PROVE  Keeping
BY HarmlessExec, PushJobExec, WriteJobExec, CreateJobExec, SaveJobExec DEF KeptJob

\* Deletions, and steps that change no table, keep what KeptJob is about.
LEMMA KeptJobStays ==
  ASSUME IInv, KeptJob(job[Loop], rows, versions, meta), AuthorsLose
  PROVE  KeptJob(job[Loop], rows', versions', meta')
<1>1. versions' = versions
  BY DEF AuthorsLose
<1>2. \A s, v : Place(s) /\ Holds(s, rows, v) => Holds(s, rows', v)
  BY DEF AuthorsLose, Place, Holds
<1>3. \A s : Place(s) /\ Covered(s, rows, versions) => Covered(s, rows', versions')
  BY DEF AuthorsLose, Place, Covered
<1>4. ASSUME NEW s, Place(s), s.d \notin Range(meta[s.w][s.c].sequence)
      PROVE  s.d \notin Range(meta'[s.w][s.c].sequence)
  BY <1>4 DEF AuthorsLose, Place, Range
<1>5. PushJob(job[Loop], rows) => PushJob(job[Loop], rows')
  BY <1>2 DEF PushJob
<1>6. ASSUME WriteJob(job[Loop], rows, versions)
      PROVE  WriteJob(job[Loop], rows', versions')
  <2>1. PICK x : /\ Row(x)
                 /\ \/ job[Loop] = <<x>>
                    \/ \E m : List(m) /\ (job[Loop] = <<x, m>> \/ job[Loop] = <<m, x>>)
                 /\ x.row = NoRow \/ Holds(x, rows, x.row.data) \/ Covered(x, rows, versions)
    BY <1>6 DEF WriteJob
  <2>2. x.row = NoRow \/ Holds(x, rows', x.row.data) \/ Covered(x, rows', versions')
    BY <1>2, <1>3, <2>1 DEF Row
  <2> QED
    BY <2>1, <2>2 DEF WriteJob
<1>7. CreateJob(job[Loop], meta) => CreateJob(job[Loop], meta')
  BY <1>4 DEF CreateJob, Row
<1>8. ASSUME SaveJob(job[Loop], rows)
      PROVE  SaveJob(job[Loop], rows')
  <2>1. PICK v, x : /\ v.do = "add version" /\ Place(v) /\ Row(x)
                    /\ x.w = v.w /\ x.c = v.c /\ x.d = v.d
                    /\ job[Loop] = <<v, x>> \/ \E m : List(m) /\ job[Loop] = <<v, m, x>>
                    /\ Holds(v, rows, v.data)
    BY <1>8 DEF SaveJob
  <2>2. Holds(v, rows', v.data)
    BY <1>2, <2>1
  <2> QED
    BY <2>1, <2>2 DEF SaveJob
<1> QED
  BY <1>5, <1>6, <1>7, <1>8 DEF KeptJob

LEMMA LosingKeeps ==
  ASSUME IInv, AuthorsLose
  PROVE  AllKept
<1>1. \A w \in Workspaces, c \in Collections : Range(meta[w][c].sequence) \subseteq Docs
  BY Places, ListType, RangeOfSeq DEF IInv
<1> QED
  BY <1>1 DEF AuthorsLose, AllKept, KeptStep

LEMMA PoolKeepsData ==
  ASSUME IInv, NoWorkspacePulls, KeptInv, NEW p \in Pool, PoolRequest(p) \/ Exec(p)
  PROVE  KeptInv' /\ AllKept
<1>1. AuthorsLose /\ ErasingJob(job'[p]) /\ \A q \in Threads : q # p => job'[q] = job[q]
  <2>1. CASE Exec(p)
    BY <2>1, ErasingExec DEF KeptInv
  <2>2. CASE PoolRequest(p)
    BY <2>2, ErasingBegins DEF KeptInv, AuthorsLose
  <2> QED
    BY <2>1, <2>2
<1>2. job'[Loop] = job[Loop] /\ \A q \in Pool : ErasingJob(job'[q])
  BY <1>1, PoolIsNotLoop, LoopIsThread DEF KeptInv
<1>3. KeptJob(job'[Loop], rows', versions', meta')
  BY <1>1, <1>2, KeptJobStays DEF KeptInv
<1> QED
  BY <1>1, <1>2, <1>3, LosingKeeps DEF KeptInv

LEMMA LoopKeepsData ==
  ASSUME IInv, KeptInv, Exec(Loop)
  PROVE  KeptInv' /\ AllKept
<1>1. Keeping
  BY KeptExec DEF KeptInv
<1>2. \A p \in Pool : job'[p] = job[p]
  <2>1. \E t : job' = [job EXCEPT ![Loop] = t]
    BY Zenon DEF Exec, ExecUpsertRow, ExecUpsertMeta, ExecAddVersion, ExecReadRow, ExecPushDocument,
           ExecReadRowsToPush, ExecReadMetaToPush, ExecReplaceProduction, ExecReadMine,
           ExecReadTheirs, ExecApplyPull, ExecDeleteWorkspace, ExecClearCollection,
           ExecDeleteCollection, Done, Continue
  <2> QED
    BY <2>1, PoolIsNotLoop, LoopIsThread DEF IInv, JobsOK
<1> QED
  BY <1>1, <1>2 DEF Keeping, KeptInv

\* What the event loop begins with.
DataBegins ==
    UNCHANGED tables /\ \E t : job' = [job EXCEPT ![Loop] = t] /\ KeptJob(t, rows, versions, meta)

LEMMA HarmlessBegins ==
  ASSUME NEW a, a.do = "read row" \/ a.do = "read mine", a.do = "read row" => Place(a),
         Begin(Loop, <<a>>)
  PROVE  DataBegins
<1>1. KeptJob(<<a>>, rows, versions, meta)
  BY DEF KeptJob, Harmless
<1> QED
  BY <1>1 DEF Begin, DataBegins

LEMMA PullBeginsData ==
  ASSUME NEW w, NEW scope, NEW choices, BeginPull(Loop, w, scope, choices)
  PROVE  DataBegins
<1>1. PICK a : /\ a = [do |-> "read mine", w |-> w, scope |-> scope, choices |-> choices]
               /\ Begin(Loop, <<a>>)
  BY DEF BeginPull
<1> QED
  BY <1>1, HarmlessBegins

LEMMA EditBeginsData ==
  ASSUME NEW w \in Workspaces, NEW c \in Collections, NEW d \in Docs, NEW m, NEW change,
         BeginEdit(w, c, d, m, change)
  PROVE  DataBegins
<1>1. PICK a : /\ a = [do |-> "read row", w |-> w, c |-> c, d |-> d, meta |-> m,
                       change |-> change]
               /\ Begin(Loop, <<a>>)
  BY DEF BeginEdit
<1>2. a.do = "read row" /\ Place(a)
  BY <1>1 DEF Place
<1> QED
  BY <1>1, <1>2, HarmlessBegins

LEMMA RowOf ==
  ASSUME NEW w \in Workspaces, NEW c \in Collections, NEW d \in Docs, NEW r, NEW m
  PROVE  /\ Row(UpsertRow(w, c, d, r)) /\ List(UpsertMeta(w, c, m))
         /\ UpsertRow(w, c, d, r).w = w /\ UpsertRow(w, c, d, r).c = c
         /\ UpsertRow(w, c, d, r).d = d /\ UpsertRow(w, c, d, r).row = r
BY DEF UpsertRow, UpsertMeta, Row, List, Place

LEMMA CreateBeginsData ==
  ASSUME NEW w \in Workspaces, NEW c \in Collections, NEW d \in Docs, NEW v \in Values,
         CreateDocument(w, c, d, v)
  PROVE  DataBegins
<1> DEFINE m == meta[w][c]
           x == UpsertRow(w, c, d, Draft(v))
           n == UpsertMeta(w, c, Ordered(Append(m.sequence, d), [m.statuses EXCEPT ![d] = "draft"]))
<1>1. d \notin Range(meta[w][c].sequence) /\ Begin(Loop, <<x, n>>)
  BY DEF CreateDocument
<1>2. Row(x) /\ List(n) /\ x.d \notin Range(meta[x.w][x.c].sequence)
  BY <1>1, RowOf
<1> HIDE DEF x, n
<1>3. CreateJob(<<x, n>>, meta)
  BY <1>2 DEF CreateJob
<1> QED
  BY <1>1, <1>3 DEF Begin, DataBegins, KeptJob

LEMMA DeleteBeginsData ==
  ASSUME NEW w \in Workspaces, NEW c \in Collections, NEW d \in Docs, DeleteDocument(w, c, d)
  PROVE  DataBegins
<1> DEFINE m == meta[w][c]
           x == UpsertRow(w, c, d, NoRow)
<1>1. PICK s : Begin(Loop, <<UpsertMeta(w, c, Ordered(s, [m.statuses EXCEPT ![d] = "none"])), x>>)
  BY DEF DeleteDocument
<1> DEFINE n == UpsertMeta(w, c, Ordered(s, [m.statuses EXCEPT ![d] = "none"]))
<1>2. Row(x) /\ List(n) /\ x.row = NoRow
  BY RowOf
<1>3. Begin(Loop, <<n, x>>)
  BY <1>1
<1> HIDE DEF x, n
<1>4. WriteJob(<<n, x>>, rows, versions)
  BY <1>2 DEF WriteJob
<1> QED
  BY <1>3, <1>4 DEF Begin, DataBegins, KeptJob

LEMMA PushBeginsData ==
  ASSUME NEW w \in Workspaces, NEW c \in Collections, NEW d \in Docs, PushDocument(w, c, d)
  PROVE  DataBegins
<1>1. PICK s : /\ s = [do |-> "push document", w |-> w, c |-> c, d |-> d, row |-> rows[w][c][d]]
               /\ Begin(Loop, <<s>>)
  BY DEF PushDocument
<1>2. s.do = "push document" /\ Place(s) /\ Holds(s, rows, s.row.data)
  BY <1>1 DEF Place, Holds
<1>3. PushJob(<<s>>, rows)
  BY <1>2 DEF PushJob
<1> QED
  BY <1>1, <1>3 DEF Begin, DataBegins, KeptJob

LEMMA DocumentBeginsData ==
  ASSUME NEW w \in Workspaces, NEW c \in Collections, NEW d \in Docs, DocumentRequest(w, c, d)
  PROVE  DataBegins
<1>1. ASSUME NEW v \in Values,
             CreateDocument(w, c, d, v) \/ UpdateDocument(w, c, d, v) \/ RestoreVersion(w, c, d, v)
      PROVE  DataBegins
  BY <1>1, CreateBeginsData, EditBeginsData DEF UpdateDocument, RestoreVersion
<1>2. CASE UpdateWithoutEffect(w, c, d) \/ UpdateDocumentStatus(w, c, d)
  BY <1>2, EditBeginsData DEF UpdateWithoutEffect, UpdateDocumentStatus
<1>3. CASE DeleteDocument(w, c, d) \/ PushDocument(w, c, d)
  BY <1>3, DeleteBeginsData, PushBeginsData
<1>4. CASE PullDocument(w, c, d)
  BY <1>4, PullBeginsData DEF PullDocument
<1> QED
  BY <1>1, <1>2, <1>3, <1>4 DEF DocumentRequest

\* A push of a collection publishes the rows and keeps their data.
LEMMA CollectionPushKeepsData ==
  ASSUME IInv, NEW w \in Workspaces, NEW c \in Collections, PushCollection(w, c)
  PROVE  AllKept
<1>1. PICK s \in PushOrders(rows, meta, w, c) : rows' = PushCollectionRows(rows, w, c, Range(s))
  BY DEF PushCollection
<1> DEFINE mine   == Stamped(rows, w, c)
           theirs == Copied(rows, w, c, Range(s))
<1>2. rows' = [rows EXCEPT ![w][c] = mine, ![Production][c] = theirs]
  BY <1>1 DEF PushCollectionRows
<1>3. \A d \in Docs : mine[d] = NoRow \/ mine[d].data = rows[w][c][d].data
  BY Places, RowType DEF Stamped, IInv, Rows
<1> HIDE DEF mine, theirs
<1>4. \A x \in Workspaces, y \in Collections :
          rows'[x][y] = IF x = w /\ y = c THEN mine ELSE rows[x][y]
  BY <1>2, Places, ProductionAssumption DEF IInv, RowsOK, Cells
<1>5. \A x \in Workspaces, y \in Collections : Range(meta[x][y].sequence) \subseteq Docs
  BY Places, ListType, RangeOfSeq DEF IInv
<1> QED
  BY <1>3, <1>4, <1>5 DEF AllKept, KeptStep

LEMMA OthersKeepData ==
  ASSUME IInv, KeptInv, NEW w \in Workspaces, NEW c \in Collections,
         \/ PushCollection(w, c) \/ PullCollection(w, c) \/ \E d \in Docs : DocumentRequest(w, c, d)
  PROVE  KeptInv' /\ AllKept
<1>1. CASE PushCollection(w, c)
  <2>1. job' = job /\ job[Loop] = <<>>
    BY <1>1, CollectionPushLists DEF Idle
  <2> QED
    BY <1>1, <2>1, CollectionPushKeepsData DEF KeptInv, KeptJob, Harmless
<1>2. ASSUME DataBegins
      PROVE  KeptInv' /\ AllKept
  <2>1. PICK t : job' = [job EXCEPT ![Loop] = t] /\ KeptJob(t, rows, versions, meta)
    BY <1>2 DEF DataBegins
  <2>2. job'[Loop] = t /\ \A p \in Pool : job'[p] = job[p]
    BY <2>1, PoolIsNotLoop, LoopIsThread DEF IInv, JobsOK
  <2>3. rows' = rows /\ meta' = meta /\ versions' = versions
    BY <1>2 DEF DataBegins, tables
  <2> QED
    BY <2>1, <2>2, <2>3, NoRowWritten DEF KeptInv
<1>3. ASSUME NEW d \in Docs, DocumentRequest(w, c, d)
      PROVE  KeptInv' /\ AllKept
  BY <1>2, <1>3, DocumentBeginsData
<1>4. CASE PullCollection(w, c)
  BY <1>2, <1>4, PullBeginsData DEF PullCollection
<1> QED
  BY <1>1, <1>3, <1>4

LEMMA CrashKeepsData ==
  ASSUME KeptInv, Crash
  PROVE  KeptInv' /\ AllKept
<1>1. rows' = rows /\ job'[Loop] = <<>> /\ \A p \in Pool : job'[p] = <<>>
  BY LoopIsThread DEF Crash, tables
<1> QED
  BY <1>1, ErasingOf, NoRowWritten DEF KeptInv, KeptJob, Harmless

LEMMA InitKept == Init => KeptInv
<1> SUFFICES ASSUME Init PROVE KeptInv
  OBVIOUS
<1>1. job[Loop] = <<>> /\ \A p \in Pool : job[p] = <<>>
  BY LoopIsThread DEF Init
<1> QED
  BY <1>1, ErasingOf DEF KeptInv, KeptJob, Harmless

LEMMA NextKeepsData ==
  ASSUME NoWorkspacePulls
  PROVE  IInv /\ KeptInv /\ [Next]_vars => KeptInv' /\ AllKept
<1> SUFFICES ASSUME IInv, KeptInv, [Next]_vars PROVE KeptInv' /\ AllKept
  OBVIOUS
<1>1. CASE UNCHANGED vars
  BY <1>1, NoRowWritten DEF vars, tables, KeptInv
<1>2. ASSUME NEW w \in Workspaces, NEW c \in Collections, NEW d \in Docs,
             DocumentRequest(w, c, d)
      PROVE  KeptInv' /\ AllKept
  BY <1>2, OthersKeepData
<1>3. ASSUME NEW w \in Workspaces, NEW c \in Collections,
             PushCollection(w, c) \/ PullCollection(w, c)
      PROVE  KeptInv' /\ AllKept
  BY <1>3, OthersKeepData
<1>4. ASSUME NEW p \in Pool, PoolRequest(p)
      PROVE  KeptInv' /\ AllKept
  BY <1>4, PoolKeepsData
<1>5. ASSUME NEW p \in Threads, Exec(p)
      PROVE  KeptInv' /\ AllKept
  BY <1>5, PoolKeepsData, LoopKeepsData DEF Threads
<1>6. CASE Crash
  BY <1>6, CrashKeepsData
<1> QED
  BY <1>1, <1>2, <1>3, <1>4, <1>5, <1>6 DEF Next

\* The data an edit or a restore replaces is the document's newest
\* version, whatever document handlers, pushes and deletions overlap and
\* wherever the process stops. Pulls of workspaces are excluded: one between
\* an edit's read and its write is overwritten without a version.
THEOREM FormerDataIsKept ==
  ASSUME NoWorkspacePulls
  PROVE  Spec => EditsKeepFormerData
<1>1. Init => IInv /\ KeptInv
  BY InitIInv, InitKept
<1>2. IInv /\ KeptInv /\ [Next]_vars => IInv' /\ KeptInv' /\ AllKept
  BY NextKeepsIInv, NextKeepsData
<1>3. AllKept => [\A w \in Workspaces, c \in Collections : \A d \in Range(meta[w][c].sequence) :
          LET old == rows[w][c][d]  new == rows'[w][c][d]  kept == versions[w][c][d]
          IN  old # NoRow /\ new # NoRow /\ old.data # new.data /\ ~Pulling
              => kept # <<>> /\ kept[Len(kept)] = old.data]_vars
  BY DEF AllKept, KeptStep
<1> QED
  BY <1>1, <1>2, <1>3, PTL DEF Spec, EditsKeepFormerData

-----------------------------------------------------------------------------
(* A document becomes published on both sides at once, as long as the pool *)
(* writes no row that authors see, and no row of production while the      *)
(* event loop pulls.                                                       *)

LoopPulls == {"pull_document_from_production", "pull_collection_from_production"}

Pulled == Requests \cap LoopPulls # {}

PullsUndisturbed == NothingRemoved /\ (Pulled => "push_to_production" \notin Requests)

\* x does not make a document published that is not.
Demotes(x, R) ==
    \/ x.row = NoRow
    \/ x.row.status = "draft"
    \/ R[x.w][x.c][x.d] # NoRow /\ R[x.w][x.c][x.d].status # "draft"

\* What the event loop still has to do: nothing, or a statement that writes no
\* row but those a push stamps;
Calm(j) ==
    j = <<>> \/ \E s : /\ j = <<s>>
                       /\ s.do \in {"read row", "push document", "read mine", "read theirs",
                                    "upsert meta", "add version"}
                       /\ s.do \in {"read row", "push document"} => Place(s)
                       /\ s.do \in {"read mine", "read theirs"} => Pulled

\* the write of a pull, whose rows are production's;
PullWrites(j, R) == \E s : j = <<s>> /\ s.do = "apply pull" /\ s.theirs = R[Production] /\ Pulled

\* or the write of one row, before or after other commits.
RowWrites(j, R) ==
    \E x : /\ Row(x) /\ Demotes(x, R)
           /\ \/ j = <<x>>
              \/ \E m : List(m) /\ (j = <<x, m>> \/ j = <<m, x>>)

Saves(j, R) ==
    \E v, x : /\ v.do = "add version" /\ Row(x) /\ Demotes(x, R)
              /\ j = <<v, x>> \/ \E m : List(m) /\ j = <<v, m, x>>

PublishedJob(j, R) == Calm(j) \/ PullWrites(j, R) \/ RowWrites(j, R) \/ Saves(j, R)

\* While the event loop may pull, the pool only lists.
PoolLists(j) == Pulled => j = <<>> \/ \E m : j = <<m>> /\ List(m)

PublishedInv ==
    /\ \A p \in Pool : PoolJob(job[p]) /\ PoolLists(job[p])
    /\ PublishedJob(job[Loop], rows)

\* What PublishedOnBothSides says of one step.
PublishedStep(w, c, d) ==
    LET old == rows[w][c][d]  new == rows'[w][c][d]
    IN  /\ new # old
        /\ new # NoRow /\ new.status = "published"
        /\ old = NoRow \/ old.status = "draft"
        => new = rows'[Production][c][d]

AllPublished == \A w \in Workspaces, c \in Collections, d \in Docs : PublishedStep(w, c, d)

LEMMA NoneIsPublished ==
  ASSUME \A w \in Workspaces : rows'[w] = rows[w]
  PROVE  AllPublished
BY DEF AllPublished, PublishedStep

\* What a job does to rows depends on the rows authors see and, for a pull,
\* on production's.
LEMMA PublishedJobStays ==
  ASSUME NEW j, PublishedJob(j, rows), \A w \in Workspaces : rows'[w] = rows[w],
         Pulled => rows'[Production] = rows[Production]
  PROVE  PublishedJob(j, rows')
<1>1. \A x : Row(x) /\ Demotes(x, rows) => Demotes(x, rows')
  BY DEF Row, Place, Demotes
<1>2. PullWrites(j, rows) => PullWrites(j, rows')
  BY DEF PullWrites
<1>3. RowWrites(j, rows) => RowWrites(j, rows')
  BY <1>1 DEF RowWrites
<1>4. Saves(j, rows) => Saves(j, rows')
  BY <1>1 DEF Saves
<1> QED
  BY <1>2, <1>3, <1>4 DEF PublishedJob

LEMMA NothingLeft ==
  ASSUME NEW R
  PROVE  /\ PublishedJob(<<>>, R)
         /\ \A m : List(m) => PublishedJob(<<m>>, R)
         /\ \A v : v.do = "add version" => PublishedJob(<<v>>, R)
BY DEF PublishedJob, Calm, List

\* What is true of the step and of the rest of the job.
Publishing == AllPublished /\ PublishedJob(job'[Loop], rows')

\* The write of one row.
LEMMA DemotingWrite ==
  ASSUME IInv, NEW x, Row(x), Demotes(x, rows), Head(job[Loop]) = x, Exec(Loop)
  PROVE  AllPublished /\ job'[Loop] = Tail(job[Loop])
<1>1. ExecUpsertRow(Loop)
  BY ExecKind DEF Row
<1>2. rows' = [rows EXCEPT ![x.w][x.c][x.d] = x.row] /\ Done(Loop)
  BY <1>1, Zenon DEF ExecUpsertRow
<1>3. x.w \in AllWorkspaces /\ x.c \in Collections /\ x.d \in Docs
  BY PlaceIs DEF Row
<1>4. \A w \in Workspaces, c \in Collections, d \in Docs :
          rows'[w][c][d] = IF w = x.w /\ c = x.c /\ d = x.d THEN x.row ELSE rows[w][c][d]
  BY <1>2, <1>3, Places DEF IInv, RowsOK, Cells
<1>5. ASSUME NEW w \in Workspaces, NEW c \in Collections, NEW d \in Docs
      PROVE  PublishedStep(w, c, d)
  <2>1. CASE w = x.w /\ c = x.c /\ d = x.d
    <3>1. rows'[w][c][d] = x.row
      BY <1>4, <2>1
    <3>2. rows[w][c][d] \in Rows \cup {NoRow}
      BY Places, RowType DEF IInv
    <3> QED
      BY <2>1, <3>1, <3>2 DEF PublishedStep, Demotes
  <2>2. CASE ~(w = x.w /\ c = x.c /\ d = x.d)
    <3>1. rows'[w][c][d] = rows[w][c][d]
      BY <1>4, <2>2
    <3> QED
      BY <3>1 DEF PublishedStep
  <2> QED
    BY <2>1, <2>2
<1> QED
  BY <1>2, <1>5, LoopTakes DEF AllPublished

LEMMA RowWritesExec ==
  ASSUME IInv, RowWrites(job[Loop], rows), Exec(Loop)
  PROVE  Publishing
<1>1. PICK x : /\ Row(x) /\ Demotes(x, rows)
               /\ \/ job[Loop] = <<x>>
                  \/ \E m : List(m) /\ (job[Loop] = <<x, m>> \/ job[Loop] = <<m, x>>)
  BY DEF RowWrites
<1>2. CASE job[Loop] = <<x>>
  <2>1. Head(job[Loop]) = x /\ Tail(job[Loop]) = <<>>
    BY <1>2, TwoStatements
  <2>2. AllPublished /\ job'[Loop] = <<>>
    BY <1>1, <2>1, DemotingWrite
  <2> QED
    BY <2>2, NothingLeft DEF Publishing
<1>3. ASSUME NEW m, List(m), job[Loop] = <<x, m>>
      PROVE  Publishing
  <2>1. Head(job[Loop]) = x /\ Tail(job[Loop]) = <<m>>
    BY <1>3, TwoStatements
  <2>2. AllPublished /\ job'[Loop] = <<m>>
    BY <1>1, <2>1, DemotingWrite
  <2> QED
    BY <1>3, <2>2, NothingLeft DEF Publishing
<1>4. ASSUME NEW m, List(m), job[Loop] = <<m, x>>
      PROVE  Publishing
  <2>1. Head(job[Loop]) = m /\ Tail(job[Loop]) = <<x>>
    BY <1>4, TwoStatements
  <2>2. rows' = rows /\ job'[Loop] = <<x>>
    BY <1>4, <2>1, WriteList
  <2>3. RowWrites(<<x>>, rows)
    BY <1>1 DEF RowWrites
  <2> QED
    BY <2>2, <2>3, NoneIsPublished DEF Publishing, PublishedJob
<1> QED
  BY <1>1, <1>2, <1>3, <1>4

LEMMA SavesExec ==
  ASSUME IInv, Saves(job[Loop], rows), Exec(Loop)
  PROVE  Publishing
<1>1. PICK v, x : /\ v.do = "add version" /\ Row(x) /\ Demotes(x, rows)
                  /\ job[Loop] = <<v, x>> \/ \E m : List(m) /\ job[Loop] = <<v, m, x>>
  BY DEF Saves
<1>2. /\ Head(job[Loop]) = v
      /\ Tail(job[Loop]) = <<x>> \/ \E m : List(m) /\ Tail(job[Loop]) = <<m, x>>
  <2>1. CASE job[Loop] = <<v, x>>
    BY <2>1, TwoStatements
  <2>2. ASSUME NEW m, List(m), job[Loop] = <<v, m, x>>
        PROVE  Head(job[Loop]) = v /\ List(m) /\ Tail(job[Loop]) = <<m, x>>
    BY <2>2, ThreeStatements
  <2> QED
    BY <1>1, <2>1, <2>2
<1>3. rows' = rows /\ Done(Loop)
  BY <1>1, <1>2, ExecKind DEF ExecAddVersion
<1>4. job'[Loop] = <<x>> \/ \E m : List(m) /\ job'[Loop] = <<m, x>>
  BY <1>2, <1>3, LoopTakes
<1>5. RowWrites(job'[Loop], rows)
  BY <1>1, <1>4 DEF RowWrites
<1> QED
  BY <1>3, <1>5, NoneIsPublished DEF Publishing, PublishedJob

\* A pull writes rows of production, as they still are.
LEMMA PullWritesExec ==
  ASSUME IInv, PullWrites(job[Loop], rows), Exec(Loop)
  PROVE  Publishing
<1>1. PICK s : job[Loop] = <<s>> /\ s.do = "apply pull" /\ s.theirs = rows[Production]
  BY DEF PullWrites
<1>2. Head(job[Loop]) = s /\ Tail(job[Loop]) = <<>> /\ job[Loop] # <<>>
  BY <1>1, TwoStatements
<1>3. s.w \in Workspaces /\ s.w # Production
  BY <1>1, <1>2, HeadOK, LoopIsThread, ProductionAssumption DEF StatementOK, Idle
<1>4. rows' = PullRows(rows, s.w, s.in, s.theirs) /\ Done(Loop)
  BY <1>1, <1>2, ExecKind DEF ExecApplyPull
<1>5. rows'[Production] = rows[Production]
  BY <1>3, <1>4, Places DEF PullRows, IInv, RowsOK
<1>6. \A w \in Workspaces, c \in Collections, d \in Docs :
          rows'[w][c][d] = rows[w][c][d] \/ rows'[w][c][d] = s.theirs[c][d]
  <2> TAKE w \in Workspaces, c \in Collections, d \in Docs
  <2>1. CASE w = s.w
    <3>1. rows'[w] = [y \in Collections |-> [z \in Docs |->
             IF <<y, z>> \in s.in THEN s.theirs[y][z] ELSE rows[w][y][z]]]
      BY <1>3, <1>4, <2>1, Places DEF PullRows, IInv, RowsOK
    <3> QED
      BY <3>1
  <2>2. CASE w # s.w
    BY <1>3, <1>4, <2>2, Places DEF PullRows, IInv, RowsOK
  <2> QED
    BY <2>1, <2>2
<1>7. ASSUME NEW w \in Workspaces, NEW c \in Collections, NEW d \in Docs
      PROVE  PublishedStep(w, c, d)
  <2>1. CASE rows'[w][c][d] = rows[w][c][d]
    BY <2>1 DEF PublishedStep
  <2>2. CASE rows'[w][c][d] = s.theirs[c][d]
    <3>1. rows'[w][c][d] = rows'[Production][c][d]
      BY <1>1, <1>5, <2>2
    <3> QED
      BY <3>1 DEF PublishedStep
  <2> QED
    BY <1>6, <2>1, <2>2
<1> QED
  BY <1>2, <1>4, <1>7, LoopTakes, NothingLeft DEF Publishing, AllPublished

\* A push of a document stamps its row and copies the stamped row.
LEMMA PushPublishes ==
  ASSUME IInv, NEW s, job[Loop] = <<s>>, s.do = "push document", Place(s), Exec(Loop)
  PROVE  Publishing
<1>1. Head(job[Loop]) = s /\ Tail(job[Loop]) = <<>> /\ job[Loop] # <<>>
  BY TwoStatements
<1>2. /\ s.w \in Workspaces /\ s.w \in AllWorkspaces /\ s.w # Production
      /\ s.c \in Collections /\ s.d \in Docs
  BY PlaceIs
<1>3. job'[Loop] = <<>> /\ rows' = PushDocumentRows(rows, s.w, s.c, s.d, s.row)
  BY <1>1, ExecKind, LoopTakes DEF ExecPushDocument
<1> DEFINE pushed == [s.row EXCEPT !.status = "published"]
           mine   == IF rows[s.w][s.c][s.d] = NoRow THEN NoRow ELSE pushed
           R      == [rows EXCEPT ![s.w][s.c][s.d] = mine]
<1>4. rows' = [R EXCEPT ![Production][s.c][s.d] = pushed]
  BY <1>3 DEF PushDocumentRows
<1>5. mine = NoRow \/ mine = pushed
  OBVIOUS
<1>6. pushed \in Rows
  BY <1>1, HeadOK, LoopIsThread, PublishedRow DEF StatementOK, Idle
<1> HIDE DEF pushed, mine
<1>7. /\ R \in [AllWorkspaces -> Cells]
      /\ \A w \in Workspaces, c \in Collections, d \in Docs :
            R[w][c][d] = IF w = s.w /\ c = s.c /\ d = s.d THEN mine ELSE rows[w][c][d]
  BY <1>2, <1>5, <1>6, Places DEF IInv, RowsOK, Cells
<1> HIDE DEF R
<1>8. /\ \A w \in Workspaces, c \in Collections, d \in Docs :
            rows'[w][c][d] = IF w = s.w /\ c = s.c /\ d = s.d THEN mine ELSE rows[w][c][d]
      /\ rows'[Production][s.c][s.d] = pushed
  <2>1. \A w \in Workspaces : rows'[w] = R[w]
    BY <1>4, <1>7, Places, ProductionAssumption
  <2>2. \A w \in Workspaces, c \in Collections, d \in Docs : rows'[w][c][d] = R[w][c][d]
    BY <2>1
  <2>3. R[Production] \in Cells
    BY <1>7, Places
  <2> DEFINE T == R[Production]
             a == s.c
             b == s.d
  <2>4. rows'[Production] = [T EXCEPT ![a][b] = pushed]
    BY <1>4, <1>7, Places
  <2>5. a \in Collections /\ b \in Docs
    BY <1>2
  <2> HIDE DEF T, a, b
  <2>6. [T EXCEPT ![a][b] = pushed][a][b] = pushed
    BY <2>3, <2>5 DEF Cells, T
  <2>7. rows'[Production][a][b] = pushed
    BY <2>4, <2>6
  <2>8. ASSUME NEW w \in Workspaces, NEW c \in Collections, NEW d \in Docs
        PROVE  rows'[w][c][d] = IF w = s.w /\ c = s.c /\ d = s.d THEN mine ELSE rows[w][c][d]
    <3>1. rows'[w][c][d] = R[w][c][d]
      BY <2>2
    <3>2. R[w][c][d] = IF w = s.w /\ c = s.c /\ d = s.d THEN mine ELSE rows[w][c][d]
      BY <1>7
    <3> QED
      BY <3>1, <3>2, Zenon
  <2> QED
    BY <2>7, <2>8 DEF a, b
<1>9. ASSUME NEW w \in Workspaces, NEW c \in Collections, NEW d \in Docs
      PROVE  PublishedStep(w, c, d)
  <2>1. CASE w = s.w /\ c = s.c /\ d = s.d
    <3>1. rows'[w][c][d] = mine
      BY <1>8, <2>1
    <3> QED
      BY <1>5, <1>8, <2>1, <3>1 DEF PublishedStep
  <2>2. CASE ~(w = s.w /\ c = s.c /\ d = s.d)
    <3>1. rows'[w][c][d] = rows[w][c][d]
      BY <1>8, <2>2
    <3> QED
      BY <3>1 DEF PublishedStep
  <2> QED
    BY <2>1, <2>2
<1> QED
  BY <1>3, <1>9, NothingLeft DEF Publishing, AllPublished

\* An edit writes status draft, or the status of the row it has read.
LEMMA EditsDemote ==
  ASSUME IInv, NEW s, s.do = "read row", Place(s), rows[s.w][s.c][s.d] # NoRow
  PROVE  PublishedJob(Edits(s, rows[s.w][s.c][s.d]), rows)
<1> DEFINE r       == rows[s.w][s.c][s.d]
           version == AddVersion(s.w, s.c, s.d, r.data)
           revert  == UpsertMeta(s.w, s.c, Reverted(s.meta, s.d))
           write   == UpsertRow(s.w, s.c, s.d, Written(s, r))
           j       == Edits(s, r)
<1>1. version.do = "add version" /\ List(revert)
  BY DEF AddVersion, UpsertMeta, List
<1>2. /\ write.do = "upsert row" /\ write.row = Written(s, r)
      /\ write.w = s.w /\ write.c = s.c /\ write.d = s.d
  BY DEF UpsertRow
<1>3. Written(s, r).status = "draft" \/ Written(s, r).status = r.status
  BY DEF Written
<1>4. \/ j = <<version>> \/ j = <<write, revert>>
      \/ j = <<version, revert, write>> \/ j = <<version, write>>
  BY EditsAre
<1>5. Demotes(write, rows)
  BY <1>2, <1>3 DEF Demotes
<1> HIDE DEF version, revert, write, j
<1>6. Row(write)
  BY <1>2 DEF Place, Row
<1>7. j = <<version>> => PublishedJob(j, rows)
  BY <1>1, NothingLeft
<1>8. j = <<write, revert>> => RowWrites(j, rows)
  BY <1>1, <1>5, <1>6 DEF RowWrites
<1>9. j = <<version, revert, write>> \/ j = <<version, write>> => Saves(j, rows)
  BY <1>1, <1>5, <1>6 DEF Saves
<1>10. PublishedJob(j, rows)
  BY <1>4, <1>7, <1>8, <1>9 DEF PublishedJob
<1> QED
  BY <1>10 DEF j

LEMMA CalmExec ==
  ASSUME IInv, Calm(job[Loop]), Exec(Loop)
  PROVE  Publishing
<1>1. PICK s : /\ job[Loop] = <<s>>
               /\ s.do \in {"read row", "push document", "read mine", "read theirs",
                            "upsert meta", "add version"}
               /\ s.do \in {"read row", "push document"} => Place(s)
               /\ s.do \in {"read mine", "read theirs"} => Pulled
  BY ExecKind DEF Calm, Idle
<1>2. Head(job[Loop]) = s /\ Tail(job[Loop]) = <<>> /\ job[Loop] # <<>>
  BY <1>1, TwoStatements
<1>3. StatementOK(s)
  BY <1>2, HeadOK, LoopIsThread DEF Idle
<1>4. ASSUME rows' = rows, PublishedJob(job'[Loop], rows)
      PROVE  Publishing
  BY <1>4, NoneIsPublished DEF Publishing
<1>5. CASE s.do = "upsert meta"
  <2>1. rows' = rows /\ job'[Loop] = <<>>
    BY <1>2, <1>5, WriteList DEF List
  <2> QED
    BY <1>4, <2>1, NothingLeft
<1>6. CASE s.do = "add version"
  <2>1. rows' = rows /\ job'[Loop] = <<>>
    BY <1>2, <1>6, ExecKind, LoopTakes DEF ExecAddVersion
  <2> QED
    BY <1>4, <2>1, NothingLeft
<1>7. CASE s.do = "push document"
  BY <1>1, <1>7, PushPublishes
<1>8. CASE s.do = "read mine"
  <2>1. ExecReadMine(Loop)
    BY <1>2, <1>8, ExecKind
  <2>2. PICK a : /\ a = [do |-> "read theirs", w |-> s.w, scope |-> s.scope,
                         choices |-> s.choices, mine |-> rows[s.w]]
                 /\ Continue(Loop, <<a>>) /\ rows' = rows
    BY <1>2, <2>1 DEF ExecReadMine, tables
  <2>3. job'[Loop] = <<a>>
    BY <1>2, <2>2, LoopTakes, OneStatement
  <2>4. a.do = "read theirs"
    BY <2>2
  <2>5. PublishedJob(<<a>>, rows)
    BY <1>1, <1>8, <2>4 DEF PublishedJob, Calm
  <2> QED
    BY <1>4, <2>2, <2>3, <2>5
<1>9. CASE s.do = "read theirs"
  <2>1. ExecReadTheirs(Loop)
    BY <1>2, <1>9, ExecKind
  <2>2. PICK a : a.do = "apply pull" /\ a.theirs = rows[Production] /\ Continue(Loop, <<a>>)
    BY <1>2, <2>1 DEF ExecReadTheirs
  <2>3. rows' = rows
    BY <2>1 DEF ExecReadTheirs, tables
  <2>4. job'[Loop] = <<a>>
    BY <1>2, <2>2, LoopTakes, OneStatement
  <2>5. PublishedJob(<<a>>, rows)
    BY <1>1, <1>9, <2>2 DEF PublishedJob, PullWrites
  <2> QED
    BY <1>4, <2>3, <2>4, <2>5
<1>10. CASE s.do = "read row"
  <2> DEFINE r == rows[s.w][s.c][s.d]
             t == IF r = NoRow THEN <<>> ELSE Edits(s, r)
  <2>1. Continue(Loop, t) /\ UNCHANGED tables
    BY <1>2, <1>10, ExecKind DEF ExecReadRow
  <2>2. r \in Rows \cup {NoRow}
    BY <1>1, <1>10, PlaceIs
  <2>3. JobOK(t) /\ PublishedJob(t, rows)
    <3>1. CASE r = NoRow
      BY <3>1, JobOf, NothingLeft
    <3>2. CASE r # NoRow
      BY <1>1, <1>3, <1>10, <2>2, <3>2, EditsOK, EditsDemote
    <3> QED
      BY <3>1, <3>2
  <2> HIDE DEF t
  <2>4. job'[Loop] = t
    BY <1>2, <2>1, <2>3, LoopTakes, ConcatNothing
  <2> QED
    BY <1>4, <2>1, <2>3, <2>4 DEF tables
<1> QED
  BY <1>1, <1>5, <1>6, <1>7, <1>8, <1>9, <1>10

LEMMA PublishedExec ==
  ASSUME IInv, PublishedJob(job[Loop], rows), Exec(Loop)
  PROVE  Publishing
BY CalmExec, PullWritesExec, RowWritesExec, SavesExec DEF PublishedJob

LEMMA LoopPublishes ==
  ASSUME IInv, PublishedInv, Exec(Loop)
  PROVE  PublishedInv' /\ AllPublished
<1>1. Publishing
  BY PublishedExec DEF PublishedInv
<1>2. \A p \in Pool : job'[p] = job[p]
  <2>1. \E t : job' = [job EXCEPT ![Loop] = t]
    BY Zenon DEF Exec, ExecUpsertRow, ExecUpsertMeta, ExecAddVersion, ExecReadRow, ExecPushDocument,
           ExecReadRowsToPush, ExecReadMetaToPush, ExecReplaceProduction, ExecReadMine,
           ExecReadTheirs, ExecApplyPull, ExecDeleteWorkspace, ExecClearCollection,
           ExecDeleteCollection, Done, Continue
  <2> QED
    BY <2>1, PoolIsNotLoop, LoopIsThread DEF IInv, JobsOK
<1> QED
  BY <1>1, <1>2 DEF Publishing, PublishedInv

\* While the event loop may pull, the pool leaves rows as they are.
LEMMA ListsExec ==
  ASSUME IInv, NEW p \in Pool, PoolLists(job[p]), Pulled, Exec(p)
  PROVE  rows' = rows /\ job'[p] = <<>>
<1>1. ~Idle(p) /\ p \in Threads
  BY ExecKind, LoopIsThread
<1>2. PICK m : job[p] = <<m>> /\ List(m)
  BY <1>1 DEF PoolLists, Idle
<1>3. Head(job[p]) = m /\ Tail(job[p]) = <<>>
  BY <1>2, TwoStatements
<1>4. ExecUpsertMeta(p)
  BY <1>1, <1>2, <1>3, ExecKind DEF List
<1> QED
  BY <1>1, <1>3, <1>4 DEF ExecUpsertMeta, Done, IInv, JobsOK

LEMMA ListsBegin ==
  ASSUME IInv, PullsUndisturbed, NEW p \in Pool, PoolLists(job[p]), Pulled, PoolRequest(p)
  PROVE  rows' = rows /\ PoolLists(job'[p])
<1>1. p \in DOMAIN job
  BY LoopIsThread DEF IInv, JobsOK
<1>2. ASSUME NEW w \in Workspaces
      PROVE  ~DeleteWorkspace(p, w) /\ ~PullWorkspace(p, w) /\ ~PushWorkspaceToProduction(p, w)
  BY DEF PullsUndisturbed, NothingRemoved, DeleteWorkspace, PullWorkspace,
         PushWorkspaceToProduction, Starts
<1>3. ASSUME NEW c \in Collections
      PROVE  ~DeleteCollection(p, c)
  BY DEF PullsUndisturbed, NothingRemoved, DeleteCollection, Starts
<1>4. ASSUME NEW w \in Workspaces, CreateWorkspace(p, w)
      PROVE  rows' = rows /\ PoolLists(job'[p])
  BY <1>4 DEF CreateWorkspace
<1>5. ASSUME NEW c \in Collections, CreateCollection(p, c)
      PROVE  rows' = rows /\ PoolLists(job'[p])
  <2> DEFINE m == UpsertMeta(Production, c, Ordered(<<>>, NoMeta.statuses))
  <2>1. List(m)
    BY DEF List, UpsertMeta
  <2>2. rows' = rows /\ job' = [job EXCEPT ![p] = <<m>>]
    BY <1>5 DEF CreateCollection
  <2> HIDE DEF m
  <2> QED
    BY <1>1, <2>1, <2>2 DEF PoolLists
<1> QED
  BY <1>2, <1>3, <1>4, <1>5 DEF PoolRequest

LEMMA PoolPublishes ==
  ASSUME IInv, PullsUndisturbed, PublishedInv, NEW p \in Pool, PoolRequest(p) \/ Exec(p)
  PROVE  PublishedInv' /\ AllPublished
<1>1. AuthorsKeep /\ PoolJob(job'[p]) /\ \A q \in Threads : q # p => job'[q] = job[q]
  BY PoolExec, PoolBegins DEF PublishedInv, PullsUndisturbed
<1>2. Pulled => rows' = rows /\ PoolLists(job'[p])
  <2>1. CASE Exec(p)
    BY <2>1, ListsExec DEF PublishedInv, PoolLists
  <2>2. CASE PoolRequest(p)
    BY <2>2, ListsBegin DEF PublishedInv
  <2> QED
    BY <2>1, <2>2
<1>3. job'[Loop] = job[Loop] /\ \A q \in Pool : PoolJob(job'[q]) /\ PoolLists(job'[q])
  <2>1. PoolLists(job'[p])
    BY <1>2 DEF PoolLists
  <2>2. job'[Loop] = job[Loop] /\ \A q \in Pool : q # p => job'[q] = job[q]
    BY <1>1, PoolIsNotLoop, LoopIsThread
  <2> QED
    BY <1>1, <2>1, <2>2 DEF PublishedInv
<1>4. \A w \in Workspaces : rows'[w] = rows[w]
  BY <1>1 DEF AuthorsKeep
<1>5. PublishedJob(job[Loop], rows')
  BY <1>2, <1>4, PublishedJobStays DEF PublishedInv
<1> QED
  BY <1>3, <1>4, <1>5, NoneIsPublished DEF PublishedInv

\* What the event loop begins with.
CalmBegins ==
    UNCHANGED tables /\ \E t : job' = [job EXCEPT ![Loop] = t] /\ PublishedJob(t, rows)

LEMMA OneBegins ==
  ASSUME NEW a, Begin(Loop, <<a>>),
         \/ (a.do = "read row" \/ a.do = "push document") /\ Place(a)
         \/ a.do = "read mine" /\ Pulled
  PROVE  CalmBegins
<1>1. PublishedJob(<<a>>, rows)
  BY DEF PublishedJob, Calm
<1> QED
  BY <1>1 DEF Begin, CalmBegins

LEMMA PullBeginsCalm ==
  ASSUME NEW w, NEW scope, NEW choices, BeginPull(Loop, w, scope, choices), Pulled
  PROVE  CalmBegins
<1>1. PICK a : /\ a = [do |-> "read mine", w |-> w, scope |-> scope, choices |-> choices]
               /\ Begin(Loop, <<a>>)
  BY DEF BeginPull
<1> QED
  BY <1>1, OneBegins

LEMMA EditBeginsCalm ==
  ASSUME NEW w \in Workspaces, NEW c \in Collections, NEW d \in Docs, NEW m, NEW change,
         BeginEdit(w, c, d, m, change)
  PROVE  CalmBegins
<1>1. PICK a : /\ a = [do |-> "read row", w |-> w, c |-> c, d |-> d, meta |-> m,
                       change |-> change]
               /\ Begin(Loop, <<a>>)
  BY DEF BeginEdit
<1>2. a.do = "read row" /\ Place(a)
  BY <1>1 DEF Place
<1> QED
  BY <1>1, <1>2, OneBegins

LEMMA PushBeginsCalm ==
  ASSUME NEW w \in Workspaces, NEW c \in Collections, NEW d \in Docs, PushDocument(w, c, d)
  PROVE  CalmBegins
<1>1. PICK s : /\ s = [do |-> "push document", w |-> w, c |-> c, d |-> d, row |-> rows[w][c][d]]
               /\ Begin(Loop, <<s>>)
  BY DEF PushDocument
<1>2. s.do = "push document" /\ Place(s)
  BY <1>1 DEF Place
<1> QED
  BY <1>1, <1>2, OneBegins

LEMMA CreateBeginsCalm ==
  ASSUME NEW w \in Workspaces, NEW c \in Collections, NEW d \in Docs, NEW v \in Values,
         CreateDocument(w, c, d, v)
  PROVE  CalmBegins
<1> DEFINE m == meta[w][c]
           x == UpsertRow(w, c, d, Draft(v))
           n == UpsertMeta(w, c, Ordered(Append(m.sequence, d), [m.statuses EXCEPT ![d] = "draft"]))
<1>1. Begin(Loop, <<x, n>>)
  BY DEF CreateDocument
<1>2. Row(x) /\ List(n) /\ x.row.status = "draft"
  BY RowOf DEF Draft
<1> HIDE DEF x, n
<1>3. RowWrites(<<x, n>>, rows)
  BY <1>2 DEF RowWrites, Demotes
<1> QED
  BY <1>1, <1>3 DEF Begin, CalmBegins, PublishedJob

LEMMA DeleteBeginsCalm ==
  ASSUME NEW w \in Workspaces, NEW c \in Collections, NEW d \in Docs, DeleteDocument(w, c, d)
  PROVE  CalmBegins
<1> DEFINE m == meta[w][c]
           x == UpsertRow(w, c, d, NoRow)
<1>1. PICK s : Begin(Loop, <<UpsertMeta(w, c, Ordered(s, [m.statuses EXCEPT ![d] = "none"])), x>>)
  BY DEF DeleteDocument
<1> DEFINE n == UpsertMeta(w, c, Ordered(s, [m.statuses EXCEPT ![d] = "none"]))
<1>2. Row(x) /\ List(n) /\ x.row = NoRow
  BY RowOf
<1>3. Begin(Loop, <<n, x>>)
  BY <1>1
<1> HIDE DEF x, n
<1>4. RowWrites(<<n, x>>, rows)
  BY <1>2 DEF RowWrites, Demotes
<1> QED
  BY <1>3, <1>4 DEF Begin, CalmBegins, PublishedJob

LEMMA DocumentBeginsCalm ==
  ASSUME NEW w \in Workspaces, NEW c \in Collections, NEW d \in Docs, DocumentRequest(w, c, d)
  PROVE  CalmBegins
<1>1. ASSUME NEW v \in Values,
             CreateDocument(w, c, d, v) \/ UpdateDocument(w, c, d, v) \/ RestoreVersion(w, c, d, v)
      PROVE  CalmBegins
  BY <1>1, CreateBeginsCalm, EditBeginsCalm DEF UpdateDocument, RestoreVersion
<1>2. CASE UpdateWithoutEffect(w, c, d) \/ UpdateDocumentStatus(w, c, d)
  BY <1>2, EditBeginsCalm DEF UpdateWithoutEffect, UpdateDocumentStatus
<1>3. CASE DeleteDocument(w, c, d) \/ PushDocument(w, c, d)
  BY <1>3, DeleteBeginsCalm, PushBeginsCalm
<1>4. CASE PullDocument(w, c, d)
  BY <1>4, PullBeginsCalm DEF PullDocument, Starts, Pulled, LoopPulls
<1> QED
  BY <1>1, <1>2, <1>3, <1>4 DEF DocumentRequest

\* A push of a collection stamps the rows it copies.
LEMMA CollectionPushPublishes ==
  ASSUME IInv, NEW w \in Workspaces, NEW c \in Collections, PushCollection(w, c)
  PROVE  AllPublished
<1>1. PICK s \in PushOrders(rows, meta, w, c) : rows' = PushCollectionRows(rows, w, c, Range(s))
  BY DEF PushCollection
<1> DEFINE mine   == Stamped(rows, w, c)
           theirs == Copied(rows, w, c, Range(s))
<1>2. rows' = [rows EXCEPT ![w][c] = mine, ![Production][c] = theirs]
  BY <1>1 DEF PushCollectionRows
<1>3. \A d \in Docs : mine[d] = NoRow \/ mine[d] = theirs[d]
  <2>1. Present(rows, w, c) \subseteq Range(s)
    <3>1. meta[w][c].sequence \in Seq(Docs)
      BY Places, ListType DEF IInv
    <3> QED
      BY <1>1, <3>1, PushOrdersFacts
  <2> QED
    BY <2>1 DEF Stamped, Copied, Present
<1> HIDE DEF mine, theirs
<1>4. \A x \in Workspaces, y \in Collections :
          rows'[x][y] = IF x = w /\ y = c THEN mine ELSE rows[x][y]
  BY <1>2, Places, ProductionAssumption DEF IInv, RowsOK, Cells
<1>5. rows'[Production][c] = theirs
  BY <1>2, Places, ProductionAssumption DEF IInv, RowsOK, Cells
<1> QED
  BY <1>3, <1>4, <1>5 DEF AllPublished, PublishedStep

LEMMA OthersPublish ==
  ASSUME IInv, PublishedInv, NEW w \in Workspaces, NEW c \in Collections,
         \/ PushCollection(w, c) \/ PullCollection(w, c) \/ \E d \in Docs : DocumentRequest(w, c, d)
  PROVE  PublishedInv' /\ AllPublished
<1>1. CASE PushCollection(w, c)
  <2>1. job' = job /\ job[Loop] = <<>>
    BY <1>1, CollectionPushLists DEF Idle
  <2> QED
    BY <1>1, <2>1, CollectionPushPublishes, NothingLeft DEF PublishedInv
<1>2. ASSUME CalmBegins
      PROVE  PublishedInv' /\ AllPublished
  <2>1. PICK t : job' = [job EXCEPT ![Loop] = t] /\ PublishedJob(t, rows)
    BY <1>2 DEF CalmBegins
  <2>2. job'[Loop] = t /\ \A p \in Pool : job'[p] = job[p]
    BY <2>1, PoolIsNotLoop, LoopIsThread DEF IInv, JobsOK
  <2>3. rows' = rows
    BY <1>2 DEF CalmBegins, tables
  <2> QED
    BY <2>1, <2>2, <2>3, NoneIsPublished DEF PublishedInv
<1>3. ASSUME NEW d \in Docs, DocumentRequest(w, c, d)
      PROVE  PublishedInv' /\ AllPublished
  BY <1>2, <1>3, DocumentBeginsCalm
<1>4. CASE PullCollection(w, c)
  BY <1>2, <1>4, PullBeginsCalm DEF PullCollection, Starts, Pulled, LoopPulls
<1> QED
  BY <1>1, <1>3, <1>4

LEMMA CrashPublishesNothing ==
  ASSUME PublishedInv, Crash
  PROVE  PublishedInv' /\ AllPublished
<1>1. rows' = rows /\ job'[Loop] = <<>> /\ \A p \in Pool : job'[p] = <<>>
  BY LoopIsThread DEF Crash, tables
<1> QED
  BY <1>1, NothingLeft, NoneIsPublished DEF PublishedInv, PoolJob, PoolLists

LEMMA InitPublished == Init => PublishedInv
<1> SUFFICES ASSUME Init PROVE PublishedInv
  OBVIOUS
<1>1. job[Loop] = <<>> /\ \A p \in Pool : job[p] = <<>>
  BY LoopIsThread DEF Init
<1> QED
  BY <1>1, NothingLeft DEF PublishedInv, PoolJob, PoolLists

LEMMA NextPublishes ==
  ASSUME PullsUndisturbed
  PROVE  IInv /\ PublishedInv /\ [Next]_vars => PublishedInv' /\ AllPublished
<1> SUFFICES ASSUME IInv, PublishedInv, [Next]_vars PROVE PublishedInv' /\ AllPublished
  OBVIOUS
<1>1. CASE UNCHANGED vars
  BY <1>1, NoneIsPublished DEF vars, tables, PublishedInv
<1>2. ASSUME NEW w \in Workspaces, NEW c \in Collections, NEW d \in Docs,
             DocumentRequest(w, c, d)
      PROVE  PublishedInv' /\ AllPublished
  BY <1>2, OthersPublish
<1>3. ASSUME NEW w \in Workspaces, NEW c \in Collections,
             PushCollection(w, c) \/ PullCollection(w, c)
      PROVE  PublishedInv' /\ AllPublished
  BY <1>3, OthersPublish
<1>4. ASSUME NEW p \in Pool, PoolRequest(p)
      PROVE  PublishedInv' /\ AllPublished
  BY <1>4, PoolPublishes
<1>5. ASSUME NEW p \in Threads, Exec(p)
      PROVE  PublishedInv' /\ AllPublished
  BY <1>5, PoolPublishes, LoopPublishes DEF Threads
<1>6. CASE Crash
  BY <1>6, CrashPublishesNothing
<1> QED
  BY <1>1, <1>2, <1>3, <1>4, <1>5, <1>6 DEF Next

\* A document becomes published in a workspace only by a commit that leaves
\* production with the same row, whatever document handlers and pushes overlap
\* and wherever the process stops. Excluded are deletions and pulls of
\* workspaces, and pushes of workspaces where the event loop pulls: each of
\* them can change production, or the row itself, between a read and the write
\* that follows from it.
THEOREM PublishedTogether ==
  ASSUME PullsUndisturbed
  PROVE  Spec => PublishedOnBothSides
<1>1. Init => IInv /\ PublishedInv
  BY InitIInv, InitPublished
<1>2. IInv /\ PublishedInv /\ [Next]_vars => IInv' /\ PublishedInv' /\ AllPublished
  BY NextKeepsIInv, NextPublishes
<1>3. AllPublished => [\A w \in Workspaces, c \in Collections, d \in Docs :
          LET old == rows[w][c][d]  new == rows'[w][c][d]
          IN  /\ new # old
              /\ new # NoRow /\ new.status = "published"
              /\ old = NoRow \/ old.status = "draft"
              => new = rows'[Production][c][d]]_vars
  BY DEF AllPublished, PublishedStep
<1> QED
  BY <1>1, <1>2, <1>3, PTL DEF Spec, PublishedOnBothSides

-----------------------------------------------------------------------------
(* Requests one at a time: the commits of a handler add up to one step.    *)

Tabs(r, m, v, ws, cs) ==
    [rows |-> r, meta |-> m, versions |-> v, workspaces |-> ws, collections |-> cs]

\* T has the fields and the types the tables have.
TablesOK(T) ==
    /\ T = Tabs(T.rows, T.meta, T.versions, T.workspaces, T.collections)
    /\ T.rows \in [AllWorkspaces -> Cells]
    /\ T.meta \in [AllWorkspaces -> [Collections -> Metas]]
    /\ \A w \in AllWorkspaces, c \in Collections : ListOK(T.meta[w][c])
    /\ T.versions \in [AllWorkspaces -> [Collections -> [Docs -> Seq(Values)]]]
    /\ T.workspaces \subseteq Workspaces
    /\ T.collections \in [Collections -> {"unused", "live", "deleted"}]

\* A statement that writes one row, meta row or version, and what it makes of T.
Writes(s) == s.do \in {"upsert row", "upsert meta", "add version"}

Apply(T, s) ==
    Tabs(IF s.do = "upsert row" THEN [T.rows EXCEPT ![s.w][s.c][s.d] = s.row] ELSE T.rows,
         IF s.do = "upsert meta" THEN [T.meta EXCEPT ![s.w][s.c] = s.meta] ELSE T.meta,
         IF s.do = "add version" THEN [T.versions EXCEPT ![s.w][s.c][s.d] = Saved(@, s.data)]
                                 ELSE T.versions,
         T.workspaces, T.collections)

LiveIn(B, c)         == B.collections[c] = "live"
ListedAt(B, w, c, d) == MetaReadable(B.meta[w][c]) /\ d \in Range(B.meta[w][c].sequence)
HasVersion(B, v)     == \E ws \in AllWorkspaces, co \in Collections, dd \in Docs :
                            v \in Range(B.versions[ws][co][dd])

\* R is what one request may make of B by writing rows, meta rows and versions.
Created(B, R, w, c, d, v) ==
    /\ LiveIn(B, c) /\ MetaReadable(B.meta[w][c]) /\ d \notin Range(B.meta[w][c].sequence)
    /\ R = Tabs([B.rows EXCEPT ![w][c][d] = Draft(v)],
                [B.meta EXCEPT ![w][c] = Ordered(Append(@.sequence, d),
                                                 [@.statuses EXCEPT ![d] = "draft"])],
                B.versions, B.workspaces, B.collections)

Updated(B, R, w, c, d, v) ==
    /\ LiveIn(B, c) /\ ListedAt(B, w, c, d) /\ B.rows[w][c][d] # NoRow
    /\ R = Tabs([B.rows EXCEPT ![w][c][d] =
                    [data |-> v, status |-> IF @.status = "published" THEN "draft" ELSE @.status]],
                IF B.rows[w][c][d].status = "published"
                THEN [B.meta EXCEPT ![w][c] = Reverted(@, d)] ELSE B.meta,
                [B.versions EXCEPT ![w][c][d] = Saved(@, B.rows[w][c][d].data)],
                B.workspaces, B.collections)

OnlySaved(B, R, w, c, d) ==
    /\ LiveIn(B, c) /\ ListedAt(B, w, c, d) /\ B.rows[w][c][d] # NoRow
    /\ R = Tabs(B.rows, B.meta, [B.versions EXCEPT ![w][c][d] = Saved(@, B.rows[w][c][d].data)],
                B.workspaces, B.collections)

Drafted(B, R, w, c, d) ==
    /\ LiveIn(B, c) /\ ListedAt(B, w, c, d) /\ B.rows[w][c][d] # NoRow
    /\ R = Tabs([B.rows EXCEPT ![w][c][d].status = "draft"],
                [B.meta EXCEPT ![w][c] = Reverted(@, d)],
                B.versions, B.workspaces, B.collections)

Restored(B, R, w, c, d, v) ==
    /\ LiveIn(B, c) /\ B.rows[w][c][d] # NoRow /\ HasVersion(B, v)
    /\ R = Tabs([B.rows EXCEPT ![w][c][d].data = v], B.meta,
                [B.versions EXCEPT ![w][c][d] = Saved(@, B.rows[w][c][d].data)],
                B.workspaces, B.collections)

Removed(B, R, w, c, d) ==
    /\ LiveIn(B, c) /\ ListedAt(B, w, c, d)
    /\ \E s \in Selected(B.meta[w][c].sequence, Docs \ {d}) :
          R = Tabs([B.rows EXCEPT ![w][c][d] = NoRow],
                   [B.meta EXCEPT ![w][c] = Ordered(s, [@.statuses EXCEPT ![d] = "none"])],
                   B.versions, B.workspaces, B.collections)

Opened(B, R, c) ==
    /\ B.collections[c] = "unused"
    /\ R = Tabs(B.rows, [B.meta EXCEPT ![Production][c] = Ordered(<<>>, NoMeta.statuses)],
                B.versions, B.workspaces, [B.collections EXCEPT ![c] = "live"])

OneDocument(B, R, w, c, d) ==
    \/ \E v \in Values : Created(B, R, w, c, d, v) \/ Updated(B, R, w, c, d, v)
                         \/ Restored(B, R, w, c, d, v)
    \/ OnlySaved(B, R, w, c, d) \/ Drafted(B, R, w, c, d) \/ Removed(B, R, w, c, d)

Allowed(B, R) ==
    \/ \E w \in Workspaces, c \in Collections, d \in Docs : OneDocument(B, R, w, c, d)
    \/ \E c \in Collections : Opened(B, R, c)

\* What is left of a job leads to such an R.
Promised(j, B, T) ==
    \/ \E a \in Range(j) : j = <<a>> /\ Writes(a) /\ Allowed(B, Apply(T, a))
    \/ \E a, b \in Range(j) : /\ j = <<a, b>> /\ Writes(a) /\ Writes(b)
                              /\ Allowed(B, Apply(Apply(T, a), b))
    \/ \E a, b, e \in Range(j) : /\ j = <<a, b, e>> /\ Writes(a) /\ Writes(b) /\ Writes(e)
                                 /\ Allowed(B, Apply(Apply(Apply(T, a), b), e))

\* A handler that has only read so far, or is one transaction: what it knows
\* is true of the tables as they still are.
EditAsked(s, B) ==
    /\ s.do = "read row"
    /\ s.w \in Workspaces /\ s.c \in Collections /\ s.d \in Docs /\ LiveIn(B, s.c)
    /\ \/ /\ s.change.kind \in {"data", "empty", "invalid", "status"}
          /\ s.change.kind = "data" => s.change.data \in Values
          /\ s.meta = B.meta[s.w][s.c] /\ ListedAt(B, s.w, s.c, s.d)
       \/ /\ s.change.kind = "restore"
          /\ s.change.data \in Values /\ HasVersion(B, s.change.data)

PushAsked(s, B) ==
    \/ /\ s.do = "push document"
       /\ s.w \in Workspaces /\ s.c \in Collections /\ s.d \in Docs /\ LiveIn(B, s.c)
       /\ s.row = B.rows[s.w][s.c][s.d] /\ s.row # NoRow
    \/ s.do = "read rows to push" /\ s.w \in B.workspaces
    \/ s.do = "read meta to push" /\ s.w \in B.workspaces /\ s.rows = B.rows[s.w]
    \/ /\ s.do = "replace production"
       /\ \E w \in B.workspaces : s.rows = B.rows[w] /\ s.meta = B.meta[w]

\* The scope and the possible resolutions of a pull into w.
PullAsked(B, w, scope, choices) ==
    \/ \E c \in Collections, d \in Docs :
          /\ w \in Workspaces /\ LiveIn(B, c) /\ B.rows[Production][c][d] # NoRow
          /\ scope = {<<c, d>>} /\ choices = {{<<c, d>>}}
    \/ \E c \in Collections :
          /\ w \in Workspaces /\ LiveIn(B, c)
          /\ scope = {c} \X Docs /\ choices = SUBSET ({c} \X Docs)
    \/ /\ w \in B.workspaces
       /\ scope = Collections \X Docs /\ choices = SUBSET (Collections \X Docs)

\* A pull that has been resolved, up to its transaction.
Resolved(s, B, scope, choices) ==
    /\ PullAsked(B, s.w, scope, choices)
    /\ \E res \in choices : s.in = Incoming(s.mine, s.theirs, scope, res)

Scopes == {{<<c, d>>} : c \in Collections, d \in Docs} \cup {{c} \X Docs : c \in Collections}
          \cup {Collections \X Docs}

PullStep(s, B) ==
    \/ s.do = "read mine" /\ PullAsked(B, s.w, s.scope, s.choices)
    \/ /\ s.do = "read theirs" /\ PullAsked(B, s.w, s.scope, s.choices)
       /\ s.mine = B.rows[s.w]
    \/ /\ s.do = "apply pull" /\ s.mine = B.rows[s.w] /\ s.theirs = B.rows[Production]
       /\ \E scope \in Scopes : \/ Resolved(s, B, scope, {scope})
                                \/ Resolved(s, B, scope, SUBSET scope)

Asked(s, B) ==
    \/ EditAsked(s, B)
    \/ PushAsked(s, B)
    \/ PullStep(s, B)
    \/ s.do = "delete workspace" /\ s.w \in B.workspaces

\* delete_collection: what was cleared, and what is still to be.
Cleared(B) == B.workspaces \cup {Production}

Clearing(j, B, T, c) ==
    /\ LiveIn(B, c)
    /\ T.versions = B.versions /\ T.workspaces = B.workspaces /\ T.collections = B.collections
    /\ Len(j) >= 1 /\ j[Len(j)] = [do |-> "delete collection", c |-> c]
    /\ \A i \in 1 .. Len(j) - 1 : \E w \in Cleared(B) : j[i] = Clear(w, c)
    /\ \A w \in AllWorkspaces, x \in Collections :
          x # c \/ w \notin Cleared(B) => T.rows[w][x] = B.rows[w][x] /\ T.meta[w][x] = B.meta[w][x]
    /\ \A w \in Cleared(B) : \/ \E i \in 1 .. Len(j) - 1 : j[i] = Clear(w, c)
                             \/ T.rows[w][c] = NoRows[c] /\ T.meta[w][c] = NoMeta

Underway(j, B, T) ==
    \/ T = B /\ \E s \in Range(j) : j = <<s>> /\ Asked(s, B)
    \/ Promised(j, B, T)
    \/ \E c \in Collections : Clearing(j, B, T, c)

Resting == (\A p \in Threads : Idle(p)) /\ before = Tables

Alone(p) == ~Idle(p) /\ \A q \in Threads : q # p => Idle(q)

Progress == \/ Resting
            \/ \E p \in Threads : Alone(p) /\ Underway(job[p], before, Tables)
-----------------------------------------------------------------------------
(* DocStore's copies of the operators on tables are those used here.       *)

LEMMA LibrarySame ==
  /\ \A S : Store!Cardinality(S) = Cardinality(S)
  /\ \A f : Store!Range(f) = Range(f)
  /\ \A f : Store!IsInjective(f) = IsInjective(f)
<1>1. \A S : Store!Cardinality(S) = Cardinality(S)
  BY Zenon DEF Store!Cardinality, Cardinality
<1>2. \A f : Store!Range(f) = Range(f)
  BY DEF Store!Range, Range
<1>3. \A f : Store!IsInjective(f) = IsInjective(f)
  BY DEF Store!IsInjective, IsInjective
<1> QED
  BY <1>1, <1>2, <1>3

LEMMA NothingSame ==
  /\ Store!AllWorkspaces = AllWorkspaces
  /\ Store!NoMeta = NoMeta /\ Store!NoRows = NoRows /\ Store!NoMetas = NoMetas
BY DEF Store!AllWorkspaces, AllWorkspaces, Store!NoMeta, NoMeta, Store!NoRows, NoRows,
       Store!NoMetas, NoMetas

LEMMA OrdersSame ==
  /\ \A S : Store!Orderings(S) = Orderings(S)
  /\ \A s, S : Store!Selected(s, S) = Selected(s, S)
  /\ \A R, M, w, c : Store!PushOrders(R, M, w, c) = PushOrders(R, M, w, c)
<1>1. \A S : Store!Orderings(S) = Orderings(S)
  BY LibrarySame DEF Store!Orderings, Orderings
<1>2. \A s, S : Store!Selected(s, S) = Selected(s, S)
  <2> TAKE s, S
  <2> DEFINE kept == {i \in DOMAIN s : s[i] \in S}
  <2>1. Store!Cardinality(kept) = Cardinality(kept) /\ \A f : Store!Range(f) = Range(f)
    BY LibrarySame, Zenon
  <2> QED
    BY <2>1, Zenon DEF Store!Selected, Selected
<1>3. \A R, M, w, c : Store!PushOrders(R, M, w, c) = PushOrders(R, M, w, c)
  <2> TAKE R, M, w, c
  <2>1. Store!Present(R, w, c) = Present(R, w, c)
    BY DEF Store!Present, Present
  <2>2. Store!Range(M[w][c].sequence) = Range(M[w][c].sequence)
    BY LibrarySame, Zenon
  <2> QED
    BY <1>1, <1>2, <2>1, <2>2, Zenon DEF Store!PushOrders, PushOrders
<1> QED
  BY <1>1, <1>2, <1>3

LEMMA RowsSame ==
  /\ \A v : Store!Draft(v) = Draft(v)
  /\ \A s, st : Store!Ordered(s, st) = Ordered(s, st)
  /\ \A m : Store!MetaReadable(m) = MetaReadable(m)
  /\ \A h, v : Store!Saved(h, v) = Saved(h, v)
BY DEF Store!Draft, Draft, Store!Ordered, Ordered, Store!MetaReadable, MetaReadable,
       Store!Saved, Saved

LEMMA PushSame ==
  /\ \A R, w, c, d, r : Store!PushDocumentRows(R, w, c, d, r) = PushDocumentRows(R, w, c, d, r)
  /\ \A M, w, c, d : Store!PushDocumentMeta(M, w, c, d) = PushDocumentMeta(M, w, c, d)
  /\ \A R, w, c, ids : Store!PushCollectionRows(R, w, c, ids) = PushCollectionRows(R, w, c, ids)
  /\ \A R, M, w, c, m : Store!PushCollectionMeta(R, M, w, c, m) = PushCollectionMeta(R, M, w, c, m)
  /\ \A s : Store!CopiedMeta(s) = CopiedMeta(s)
  /\ \A T, s : Store!PushWorkspace(T, s) = PushWorkspace(T, s)
<1>1. \A R, w, c, d, r : Store!PushDocumentRows(R, w, c, d, r) = PushDocumentRows(R, w, c, d, r)
  BY DEF Store!PushDocumentRows, PushDocumentRows
<1>2. \A M, w, c, d : Store!PushDocumentMeta(M, w, c, d) = PushDocumentMeta(M, w, c, d)
  BY DEF Store!PushDocumentMeta, PushDocumentMeta, Store!WithStatus, WithStatus,
         Store!Ordered, Ordered, Store!Range, Range
<1>3. \A R, w, c, ids : Store!PushCollectionRows(R, w, c, ids) = PushCollectionRows(R, w, c, ids)
  BY DEF Store!PushCollectionRows, PushCollectionRows, Store!Copied, Copied,
         Store!Stamped, Stamped
<1>4. \A R, M, w, c, m : Store!PushCollectionMeta(R, M, w, c, m) = PushCollectionMeta(R, M, w, c, m)
  BY DEF Store!PushCollectionMeta, PushCollectionMeta, Store!StampedMeta, StampedMeta
<1>5. \A s : Store!CopiedMeta(s) = CopiedMeta(s)
  BY LibrarySame, RowsSame DEF Store!CopiedMeta, CopiedMeta
<1>6. \A T, s : Store!PushWorkspace(T, s) = PushWorkspace(T, s)
  BY DEF Store!PushWorkspace, PushWorkspace
<1> QED
  BY <1>1, <1>2, <1>3, <1>4, <1>5, <1>6

LEMMA PullSame ==
  /\ \A m, t, k, res : Store!Incoming(m, t, k, res) = Incoming(m, t, k, res)
  /\ \A m, M, w, in : Store!PullOrders(m, M, w, in) = PullOrders(m, M, w, in)
  /\ \A R, w, in, t : Store!PullRows(R, w, in, t) = PullRows(R, w, in, t)
  /\ \A M, w, in, t, o : Store!PullMeta(M, w, in, t, o) = PullMeta(M, w, in, t, o)
<1>1. \A m, t, k, res : Store!Incoming(m, t, k, res) = Incoming(m, t, k, res)
  BY DEF Store!Incoming, Incoming
<1>2. \A m, M, w, in, c : Store!Unlisted(m, M, w, in, c) = Unlisted(m, M, w, in, c)
  BY LibrarySame DEF Store!Unlisted, Unlisted
<1>3. \A m, M, w, in : Store!PullOrders(m, M, w, in) = PullOrders(m, M, w, in)
  BY <1>2, OrdersSame DEF Store!PullOrders, PullOrders
<1>4. \A R, w, in, t : Store!PullRows(R, w, in, t) = PullRows(R, w, in, t)
  BY DEF Store!PullRows, PullRows
<1>5. \A M, w, in, t, o : Store!PullMeta(M, w, in, t, o) = PullMeta(M, w, in, t, o)
  BY DEF Store!PullMeta, PullMeta, Store!Ordered, Ordered
<1> QED
  BY <1>1, <1>3, <1>4, <1>5

-----------------------------------------------------------------------------
(* What DocStore allows.                                                   *)

\* A sequence without repetition that misses a document is shorter than the
\* set of documents.
LEMMA RoomForOneMore ==
  ASSUME NEW s \in Seq(Docs), IsInjective(s), NEW d \in Docs, d \notin Range(s)
  PROVE  Len(s) < Cardinality(Docs)
<1> DEFINE n == Len(s)
           S == Docs \ {d}
<1>1. n \in Nat /\ DOMAIN s = 1 .. n /\ \A i \in 1 .. n : s[i] \in Docs
  BY LenProperties, ElementOfSeq
<1>2. \A i \in 1 .. n : s[i] \in S
  BY <1>1 DEF Range
<1>3. s \in Injection(1 .. n, S)
  <2>1. s \in [1 .. n -> S]
    BY <1>1, <1>2
  <2> QED
    BY <1>1, <2>1 DEF Injection, IsInjective
<1>4. IsFiniteSet(S) /\ Cardinality(S) = Cardinality(Docs) - 1 /\ Cardinality(Docs) \in Nat
  BY DocsAssumption, FS_RemoveElement, FS_CardinalityType
<1>5. Cardinality(1 .. n) <= Cardinality(S) /\ Cardinality(1 .. n) = n
  <2>1. Cardinality(1 .. n) <= Cardinality(S)
    BY <1>3, <1>4, FS_Injection
  <2> HIDE DEF n
  <2>2. Cardinality(1 .. n) = n
    BY <1>1, FS_Interval
  <2> QED
    BY <2>1, <2>2
<1> HIDE DEF n, S
<1> QED
  BY <1>1, <1>4, <1>5 DEF n

\* The step of DocStore that one action of a request is.
LEMMA StoreDocument ==
  ASSUME NEW w \in Workspaces, NEW c \in Collections, NEW d \in Docs,
         Store!DocumentStep(w, c, d)
  PROVE  Store!Next
BY DEF Store!Next

LEMMA CreatedStep ==
  ASSUME TablesOK(before), NEW w \in Workspaces, NEW c \in Collections, NEW d \in Docs,
         NEW v \in Values, Created(before, before', w, c, d, v)
  PROVE  Store!Next
<1> DEFINE q == before.meta[w][c].sequence
<1>1. q \in Seq(Docs) /\ IsInjective(q)
  BY ListParts, Places DEF TablesOK
<1>2. d \notin Range(q)
  BY DEF Created
<1>3. Len(q) < Cardinality(Docs)
  BY <1>1, <1>2, RoomForOneMore
<1>4. Store!CreateDocument(w, c, d, v)
  <2>1. /\ before'.rows = [before.rows EXCEPT ![w][c][d] = Draft(v)]
        /\ before'.meta = [before.meta EXCEPT ![w][c] = Ordered(Append(@.sequence, d),
                                                 [@.statuses EXCEPT ![d] = "draft"])]
        /\ before'.versions = before.versions
        /\ before'.workspaces = before.workspaces
        /\ before'.collections = before.collections
    BY DEF Created, Tabs
  <2> QED
    BY <1>2, <1>3, <2>1, LibrarySame, RowsSame
    DEF Created, LiveIn, Store!CreateDocument, Store!Live
<1> QED
  BY <1>4, StoreDocument DEF Store!DocumentStep

LEMMA UpdatedStep ==
  ASSUME NEW w \in Workspaces, NEW c \in Collections, NEW d \in Docs,
         NEW v \in Values, Updated(before, before', w, c, d, v)
  PROVE  Store!Next
<1>1. /\ before'.rows = [before.rows EXCEPT ![w][c][d] =
                    [data |-> v, status |-> IF @.status = "published" THEN "draft" ELSE @.status]]
      /\ before'.meta = IF before.rows[w][c][d].status = "published"
                        THEN [before.meta EXCEPT ![w][c] = Reverted(@, d)] ELSE before.meta
      /\ before'.versions = [before.versions EXCEPT ![w][c][d] =
                                Saved(@, before.rows[w][c][d].data)]
      /\ before'.workspaces = before.workspaces
      /\ before'.collections = before.collections
  BY DEF Updated, Tabs
<1>2. Store!Editable(w, c, d)
  BY LibrarySame, RowsSame DEF Updated, LiveIn, ListedAt, Store!Editable, Store!Live, Store!Listed
<1>3. Store!SaveVersion(w, c, d)
  BY <1>1 DEF Store!SaveVersion, Store!Saved, Saved
<1>4. Store!UpdateDocument(w, c, d, v)
  BY <1>1, <1>2, <1>3 DEF Store!UpdateDocument, Reverted, Store!Ordered, Ordered
<1> QED
  BY <1>4, StoreDocument DEF Store!DocumentStep

LEMMA OnlySavedStep ==
  ASSUME NEW w \in Workspaces, NEW c \in Collections, NEW d \in Docs,
         OnlySaved(before, before', w, c, d)
  PROVE  Store!Next
<1>1. /\ before'.rows = before.rows /\ before'.meta = before.meta
      /\ before'.versions = [before.versions EXCEPT ![w][c][d] =
                                Saved(@, before.rows[w][c][d].data)]
      /\ before'.workspaces = before.workspaces
      /\ before'.collections = before.collections
  BY DEF OnlySaved, Tabs
<1>2. Store!Editable(w, c, d)
  BY LibrarySame, RowsSame DEF OnlySaved, LiveIn, ListedAt, Store!Editable, Store!Live,
     Store!Listed
<1>3. Store!SaveVersion(w, c, d)
  BY <1>1 DEF Store!SaveVersion, Store!Saved, Saved
<1>4. Store!UpdateWithoutEffect(w, c, d)
  BY <1>1, <1>2, <1>3 DEF Store!UpdateWithoutEffect
<1> QED
  BY <1>4, StoreDocument DEF Store!DocumentStep

LEMMA DraftedStep ==
  ASSUME NEW w \in Workspaces, NEW c \in Collections, NEW d \in Docs,
         Drafted(before, before', w, c, d)
  PROVE  Store!Next
<1>1. /\ before'.rows = [before.rows EXCEPT ![w][c][d].status = "draft"]
      /\ before'.meta = [before.meta EXCEPT ![w][c] = Reverted(@, d)]
      /\ before'.versions = before.versions
      /\ before'.workspaces = before.workspaces
      /\ before'.collections = before.collections
  BY DEF Drafted, Tabs
<1>2. Store!Editable(w, c, d)
  BY LibrarySame, RowsSame DEF Drafted, LiveIn, ListedAt, Store!Editable, Store!Live,
     Store!Listed
<1>3. Store!UpdateDocumentStatus(w, c, d)
  BY <1>1, <1>2 DEF Store!UpdateDocumentStatus, Reverted, Store!Ordered, Ordered
<1> QED
  BY <1>3, StoreDocument DEF Store!DocumentStep

LEMMA RestoredStep ==
  ASSUME NEW w \in Workspaces, NEW c \in Collections, NEW d \in Docs, NEW v \in Values,
         Restored(before, before', w, c, d, v)
  PROVE  Store!Next
<1>1. /\ before'.rows = [before.rows EXCEPT ![w][c][d].data = v]
      /\ before'.meta = before.meta
      /\ before'.versions = [before.versions EXCEPT ![w][c][d] =
                                Saved(@, before.rows[w][c][d].data)]
      /\ before'.workspaces = before.workspaces
      /\ before'.collections = before.collections
  BY DEF Restored, Tabs
<1>2. Store!Live(c) /\ before.rows[w][c][d] # NoRow
  BY DEF Restored, LiveIn, Store!Live
<1>3. \E ws \in Store!AllWorkspaces, co \in Collections, dd \in Docs :
         v \in Store!Range(before.versions[ws][co][dd])
  BY LibrarySame, NothingSame DEF Restored, HasVersion
<1>4. Store!SaveVersion(w, c, d)
  BY <1>1 DEF Store!SaveVersion, Store!Saved, Saved
<1>5. Store!RestoreVersion(w, c, d, v)
  BY <1>1, <1>2, <1>3, <1>4 DEF Store!RestoreVersion
<1> QED
  BY <1>5, StoreDocument DEF Store!DocumentStep

LEMMA RemovedStep ==
  ASSUME NEW w \in Workspaces, NEW c \in Collections, NEW d \in Docs,
         Removed(before, before', w, c, d)
  PROVE  Store!Next
<1>1. PICK s \in Selected(before.meta[w][c].sequence, Docs \ {d}) :
        before' = Tabs([before.rows EXCEPT ![w][c][d] = NoRow],
                   [before.meta EXCEPT ![w][c] = Ordered(s, [@.statuses EXCEPT ![d] = "none"])],
                   before.versions, before.workspaces, before.collections)
  BY DEF Removed
<1>2. /\ before'.rows = [before.rows EXCEPT ![w][c][d] = NoRow]
      /\ before'.meta = [before.meta EXCEPT ![w][c] =
                             Ordered(s, [@.statuses EXCEPT ![d] = "none"])]
      /\ before'.versions = before.versions
      /\ before'.workspaces = before.workspaces
      /\ before'.collections = before.collections
  BY <1>1 DEF Tabs
<1>3. s \in Store!Selected(before.meta[w][c].sequence, Docs \ {d})
  BY OrdersSame
<1>4. Store!Live(c) /\ Store!Listed(w, c, d)
  BY LibrarySame, RowsSame DEF Removed, LiveIn, ListedAt, Store!Live, Store!Listed
<1>5. Store!DeleteDocument(w, c, d)
  BY <1>2, <1>3, <1>4 DEF Store!DeleteDocument, Store!Ordered, Ordered
<1> QED
  BY <1>5, StoreDocument DEF Store!DocumentStep

LEMMA OpenedStep ==
  ASSUME NEW c \in Collections, Opened(before, before', c)
  PROVE  Store!Next
<1>1. /\ before'.rows = before.rows
      /\ before'.meta = [before.meta EXCEPT ![Production][c] = Ordered(<<>>, NoMeta.statuses)]
      /\ before'.versions = before.versions
      /\ before'.workspaces = before.workspaces
      /\ before'.collections = [before.collections EXCEPT ![c] = "live"]
      /\ before.collections[c] = "unused"
  BY DEF Opened, Tabs
<1>2. Store!CreateCollection(c)
  BY <1>1, NothingSame, RowsSame DEF Store!CreateCollection
<1> QED
  BY <1>2 DEF Store!Next

LEMMA AllowedStep ==
  ASSUME TablesOK(before), Allowed(before, before')
  PROVE  Store!Next
BY CreatedStep, UpdatedStep, OnlySavedStep, DraftedStep, RestoredStep, RemovedStep, OpenedStep
DEF Allowed, OneDocument

-----------------------------------------------------------------------------
(* Steps of the one thread that is busy.                                   *)

StoreStep == Store!Next \/ before' = before

LEMMA TablesAre ==
  /\ Tables.rows = rows /\ Tables.meta = meta /\ Tables.versions = versions
  /\ Tables.workspaces = workspaces /\ Tables.collections = collections
  /\ Tables = Tabs(rows, meta, versions, workspaces, collections)
BY DEF Tables, Tabs

LEMMA TablesAreOK ==
  ASSUME IInv
  PROVE  TablesOK(Tables)
BY TablesAre DEF IInv, RowsOK, ListsOK, VersionsOK, RecordsOK, TablesOK

LEMMA NextTablesAreOK ==
  ASSUME IInv'
  PROVE  TablesOK(Tables')
BY DEF Tables, Tabs, IInv, RowsOK, ListsOK, VersionsOK, RecordsOK, TablesOK

\* The thread p alone has something to do, or nobody has: what the history
\* variable is after p's job becomes t.
LEMMA AfterStep ==
  ASSUME IInv, LoneNext, NEW p \in Threads, \A q \in Threads : q # p => Idle(q),
         NEW t, job' = [job EXCEPT ![p] = t]
  PROVE  /\ job'[p] = t
         /\ t # <<>> => before' = before /\ Alone(p)'
         /\ t = <<>> => before' = Tables' /\ Resting'
<1>1. DOMAIN job = Threads
  BY DEF IInv, JobsOK
<1>2. job'[p] = t /\ \A q \in Threads : q # p => job'[q] = <<>>
  BY <1>1 DEF Idle
<1>3. t # <<>> => ~Idle(p)' /\ \A q \in Threads : q # p => Idle(q)'
  BY <1>2 DEF Idle
<1>4. t = <<>> => \A q \in Threads : Idle(q)'
  BY <1>2 DEF Idle
<1>5. before' = IF \A q \in Threads : Idle(q)' THEN Tables' ELSE before
  BY DEF LoneNext, Rest
<1> QED
  BY <1>2, <1>3, <1>4, <1>5 DEF Alone, Resting

\* The same with what p has still to do.
LEMMA AfterRest ==
  ASSUME IInv, LoneNext, NEW p \in Threads, Alone(p),
         Done(p), Tail(job[p]) # <<>> => Underway(Tail(job[p]), before, Tables'),
         Tail(job[p]) = <<>> => (before' = Tables' => StoreStep)
  PROVE  Progress' /\ StoreStep
<1> DEFINE t == Tail(job[p])
<1>1. job' = [job EXCEPT ![p] = t] /\ \A q \in Threads : q # p => Idle(q)
  BY DEF Done, Alone, IInv, JobsOK
<1>2. /\ job'[p] = t
      /\ t # <<>> => before' = before /\ Alone(p)'
      /\ t = <<>> => before' = Tables' /\ Resting'
  BY <1>1, AfterStep
<1> HIDE DEF t
<1>3. CASE t = <<>>
  BY <1>2, <1>3 DEF Progress, t
<1>4. CASE t # <<>>
  <2>1. Underway(job'[p], before', Tables')
    BY <1>2, <1>4 DEF t
  <2> QED
    BY <1>2, <1>4, <2>1 DEF Progress, StoreStep
<1> QED
  BY <1>3, <1>4

\* One statement leads to another, and nothing is written.
LEMMA AfterRead ==
  ASSUME IInv, LoneNext, NEW p \in Threads, Alone(p), NEW s, job[p] = <<s>>,
         NEW t, JobOK(t), Continue(p, t), UNCHANGED tables,
         before = Tables, t # <<>> => Underway(t, before, before)
  PROVE  Progress' /\ StoreStep
<1>1. t \o <<>> = t /\ Tail(job[p]) = <<>>
  BY ConcatEmptySeq DEF JobOK
<1>2. job' = [job EXCEPT ![p] = t] /\ \A q \in Threads : q # p => Idle(q)
  BY <1>1 DEF Continue, Alone, IInv, JobsOK
<1>3. /\ job'[p] = t
      /\ t # <<>> => before' = before /\ Alone(p)'
      /\ t = <<>> => before' = Tables' /\ Resting'
  BY <1>2, AfterStep
<1>4. Tables' = Tables
  BY DEF tables, Tables
<1>5. CASE t = <<>>
  BY <1>3, <1>4, <1>5 DEF Progress, StoreStep
<1>6. CASE t # <<>>
  <2>1. Underway(job'[p], before', Tables')
    BY <1>3, <1>4, <1>6
  <2> QED
    BY <1>3, <1>6, <2>1 DEF Progress, StoreStep
<1> QED
  BY <1>5, <1>6

LEMMA ExecWrites ==
  ASSUME NEW p \in Threads, Exec(p), Writes(Head(job[p]))
  PROVE  Tables' = Apply(Tables, Head(job[p])) /\ Done(p)
<1> DEFINE s == Head(job[p])
<1>1. s.do \in {"upsert row", "upsert meta", "add version"}
  BY DEF Writes
<1>2. CASE s.do = "upsert row"
  <2>1. ExecUpsertRow(p)
    BY <1>2, ExecKind
  <2> QED
    BY <1>2, <2>1, TablesAre, Zenon DEF ExecUpsertRow, Apply, Tables, Tabs
<1>3. CASE s.do = "upsert meta"
  <2>1. ExecUpsertMeta(p)
    BY <1>3, ExecKind
  <2> QED
    BY <1>3, <2>1, TablesAre, Zenon DEF ExecUpsertMeta, Apply, Tables, Tabs
<1>4. CASE s.do = "add version"
  <2>1. ExecAddVersion(p)
    BY <1>4, ExecKind
  <2> QED
    BY <1>4, <2>1, TablesAre, Zenon DEF ExecAddVersion, Apply, Tables, Tabs
<1> QED
  BY <1>1, <1>2, <1>3, <1>4

LEMMA InList ==
  /\ \A a : a \in Range(<<a>>)
  /\ \A a, b : a \in Range(<<a, b>>) /\ b \in Range(<<a, b>>)
  /\ \A a, b, e : /\ a \in Range(<<a, b, e>>) /\ b \in Range(<<a, b, e>>)
                  /\ e \in Range(<<a, b, e>>)
<1>1. ASSUME NEW a PROVE a \in Range(<<a>>)
  <2>1. <<a>>[1] = a /\ 1 \in DOMAIN <<a>>
    OBVIOUS
  <2> QED
    BY <2>1 DEF Range
<1>2. ASSUME NEW a, NEW b PROVE a \in Range(<<a, b>>) /\ b \in Range(<<a, b>>)
  <2>1. <<a, b>>[1] = a /\ <<a, b>>[2] = b /\ 1 \in DOMAIN <<a, b>> /\ 2 \in DOMAIN <<a, b>>
    OBVIOUS
  <2> QED
    BY <2>1 DEF Range
<1>3. ASSUME NEW a, NEW b, NEW e
      PROVE  a \in Range(<<a, b, e>>) /\ b \in Range(<<a, b, e>>) /\ e \in Range(<<a, b, e>>)
  <2> DEFINE l == <<a, b, e>>
  <2>1. /\ l[1] = a /\ l[2] = b /\ l[3] = e
        /\ 1 \in DOMAIN l /\ 2 \in DOMAIN l /\ 3 \in DOMAIN l
    OBVIOUS
  <2> QED
    BY <2>1 DEF Range
<1> QED
  BY <1>1, <1>2, <1>3

\* A thread that writes what it has promised.
LEMMA PromisedStep ==
  ASSUME IInv, TablesOK(before), LoneNext, NEW p \in Threads, Alone(p), Exec(p),
         Promised(job[p], before, Tables)
  PROVE  Progress' /\ StoreStep
<1>1. ASSUME NEW a, job[p] = <<a>>, Writes(a), Allowed(before, Apply(Tables, a))
      PROVE  Progress' /\ StoreStep
  <2>1. Head(job[p]) = a /\ Tail(job[p]) = <<>>
    BY <1>1
  <2>2. Tables' = Apply(Tables, a) /\ Done(p)
    BY <1>1, <2>1, ExecWrites
  <2>3. before' = Tables' => StoreStep
    BY <1>1, <2>2, AllowedStep DEF StoreStep
  <2> QED
    BY <2>1, <2>2, <2>3, AfterRest
<1>2. ASSUME NEW a, NEW b, job[p] = <<a, b>>, Writes(a), Writes(b),
             Allowed(before, Apply(Apply(Tables, a), b))
      PROVE  Progress' /\ StoreStep
  <2>1. Head(job[p]) = a /\ Tail(job[p]) = <<b>> /\ <<b>> # <<>>
    BY <1>2, TwoStatements
  <2>2. Tables' = Apply(Tables, a) /\ Done(p)
    BY <1>2, <2>1, ExecWrites
  <2>3. Promised(<<b>>, before, Tables')
    BY <1>2, <2>2, InList DEF Promised
  <2> QED
    BY <2>1, <2>2, <2>3, AfterRest DEF Underway
<1>3. ASSUME NEW a, NEW b, NEW e, job[p] = <<a, b, e>>, Writes(a), Writes(b), Writes(e),
             Allowed(before, Apply(Apply(Apply(Tables, a), b), e))
      PROVE  Progress' /\ StoreStep
  <2>1. Head(job[p]) = a /\ Tail(job[p]) = <<b, e>> /\ <<b, e>> # <<>>
    BY <1>3, ThreeStatements
  <2>2. Tables' = Apply(Tables, a) /\ Done(p)
    BY <1>3, <2>1, ExecWrites
  <2>3. Promised(<<b, e>>, before, Tables')
    BY <1>3, <2>2, InList DEF Promised
  <2> QED
    BY <2>1, <2>2, <2>3, AfterRest DEF Underway
<1> QED
  BY <1>1, <1>2, <1>3 DEF Promised

-----------------------------------------------------------------------------
(* An edit that has found its row.                                         *)

LEMMA TabsAre ==
  ASSUME NEW r, NEW m, NEW v, NEW ws, NEW cs
  PROVE  /\ Tabs(r, m, v, ws, cs).rows = r /\ Tabs(r, m, v, ws, cs).meta = m
         /\ Tabs(r, m, v, ws, cs).versions = v /\ Tabs(r, m, v, ws, cs).workspaces = ws
         /\ Tabs(r, m, v, ws, cs).collections = cs
BY DEF Tabs

\* Which commits each kind of edit makes.
LEMMA EditsExactly ==
  ASSUME NEW s, NEW r
  PROVE  LET version == AddVersion(s.w, s.c, s.d, r.data)
             revert  == UpsertMeta(s.w, s.c, Reverted(s.meta, s.d))
             write   == UpsertRow(s.w, s.c, s.d, Written(s, r))
             dirty   == s.change.kind = "data" /\ r.status = "published"
         IN  /\ s.change.kind = "invalid" => Edits(s, r) = <<version>>
             /\ s.change.kind = "status" => Edits(s, r) = <<write, revert>>
             /\ dirty => Edits(s, r) = <<version, revert, write>>
             /\ s.change.kind \notin {"invalid", "status"} /\ ~dirty
                => Edits(s, r) = <<version, write>>
<1> DEFINE k == Commits(s, r)
<1>1. /\ k.version = AddVersion(s.w, s.c, s.d, r.data)
      /\ k.revert = UpsertMeta(s.w, s.c, Reverted(s.meta, s.d))
      /\ k.write = UpsertRow(s.w, s.c, s.d, Written(s, r))
      /\ k.dirty = (s.change.kind = "data" /\ r.status = "published")
  BY DEF Commits, Written
<1>2. Edits(s, r) = CASE s.change.kind = "invalid" -> <<k.version>>
                      [] s.change.kind = "status"  -> <<k.write, k.revert>>
                      [] k.dirty                   -> <<k.version, k.revert, k.write>>
                      [] OTHER                     -> <<k.version, k.write>>
  BY DEF Edits
<1>4. k.dirty => s.change.kind = "data"
  BY <1>1
<1> HIDE DEF k
<1>3. /\ s.change.kind = "invalid" => Edits(s, r) = <<k.version>>
      /\ s.change.kind = "status" => Edits(s, r) = <<k.write, k.revert>>
      /\ k.dirty /\ s.change.kind \notin {"invalid", "status"}
         => Edits(s, r) = <<k.version, k.revert, k.write>>
      /\ s.change.kind \notin {"invalid", "status"} /\ ~k.dirty
         => Edits(s, r) = <<k.version, k.write>>
  <2>1. CASE s.change.kind = "invalid"
    BY <1>2, <1>4, <2>1
  <2>2. CASE s.change.kind = "status"
    BY <1>2, <1>4, <2>2
  <2>3. CASE s.change.kind \notin {"invalid", "status"} /\ k.dirty
    BY <1>2, <2>3
  <2>4. CASE s.change.kind \notin {"invalid", "status"} /\ ~k.dirty
    BY <1>2, <2>4
  <2> QED
    BY <2>1, <2>2, <2>3, <2>4
<1> QED
  BY <1>1, <1>3

LEMMA PutSame ==
  ASSUME NEW R \in [AllWorkspaces -> Cells], NEW w \in AllWorkspaces, NEW c \in Collections,
         NEW d \in Docs
  PROVE  [R EXCEPT ![w][c][d] = R[w][c][d]] = R
<1>1. R[w] \in Cells /\ R[w][c] \in [Docs -> Rows \cup {NoRow}]
  BY DEF Cells
<1>2. [R[w][c] EXCEPT ![d] = R[w][c][d]] = R[w][c]
  BY <1>1
<1>3. [R[w] EXCEPT ![c] = R[w][c]] = R[w]
  BY <1>1 DEF Cells
<1>4. [R EXCEPT ![w] = R[w]] = R
  OBVIOUS
<1> QED
  BY <1>2, <1>3, <1>4

LEMMA EditPromises ==
  ASSUME NEW B, TablesOK(B), NEW s, EditAsked(s, B), B.rows[s.w][s.c][s.d] # NoRow
  PROVE  Promised(Edits(s, B.rows[s.w][s.c][s.d]), B, B)
<1> DEFINE w == s.w
           c == s.c
           d == s.d
           r == B.rows[w][c][d]
           kind == s.change.kind
           version == AddVersion(w, c, d, r.data)
           revert  == UpsertMeta(w, c, Reverted(s.meta, d))
           write   == UpsertRow(w, c, d, Written(s, r))
           t == Edits(s, r)
           SavedIn == [B.versions EXCEPT ![w][c][d] = Saved(@, r.data)]
           RowIn   == [B.rows EXCEPT ![w][c][d] = Written(s, r)]
           ListIn  == [B.meta EXCEPT ![w][c] = Reverted(s.meta, d)]
<1>1. /\ w \in Workspaces /\ w \in AllWorkspaces /\ c \in Collections /\ d \in Docs
      /\ LiveIn(B, c)
  BY Places DEF EditAsked
<1>2. r \in Rows /\ r # NoRow /\ r.data \in Values /\ r.status \in Statuses
      /\ r = [data |-> r.data, status |-> r.status]
  <2>1. B.rows \in [AllWorkspaces -> Cells]
    BY DEF TablesOK
  <2>2. B.rows[w][c] \in [Docs -> Rows \cup {NoRow}]
    BY <1>1, <2>1 DEF Cells
  <2>3. r \in Rows \cup {NoRow}
    BY <1>1, <2>2
  <2>4. r # NoRow
    OBVIOUS
  <2> HIDE DEF r
  <2> QED
    BY <2>3, <2>4 DEF Rows
<1>3. /\ Writes(version) /\ Writes(revert) /\ Writes(write)
      /\ Apply(B, version) = Tabs(B.rows, B.meta, SavedIn, B.workspaces, B.collections)
      /\ Apply(B, write) = Tabs(RowIn, B.meta, B.versions, B.workspaces, B.collections)
      /\ Apply(Apply(B, version), write) = Tabs(RowIn, B.meta, SavedIn, B.workspaces, B.collections)
      /\ Apply(Apply(B, write), revert)
           = Tabs(RowIn, ListIn, B.versions, B.workspaces, B.collections)
      /\ Apply(Apply(Apply(B, version), revert), write)
           = Tabs(RowIn, ListIn, SavedIn, B.workspaces, B.collections)
  <2>1. /\ Writes(version) /\ Writes(revert) /\ Writes(write)
        /\ \A T : Apply(T, version) = Tabs(T.rows, T.meta, [T.versions EXCEPT ![w][c][d] =
                                  Saved(@, r.data)], T.workspaces, T.collections)
        /\ \A T : Apply(T, revert) = Tabs(T.rows, [T.meta EXCEPT ![w][c] = Reverted(s.meta, d)],
                                         T.versions, T.workspaces, T.collections)
        /\ \A T : Apply(T, write) = Tabs([T.rows EXCEPT ![w][c][d] = Written(s, r)], T.meta,
                                        T.versions, T.workspaces, T.collections)
    BY DEF Apply, Writes, UpsertRow, UpsertMeta, AddVersion
  <2> HIDE DEF version, revert, write, w, c, d, r
  <2>2. /\ Apply(B, version) = Tabs(B.rows, B.meta, SavedIn, B.workspaces, B.collections)
        /\ Apply(B, write) = Tabs(RowIn, B.meta, B.versions, B.workspaces, B.collections)
    BY <2>1
  <2>3. /\ Apply(Apply(B, version), write)
             = Tabs(RowIn, B.meta, SavedIn, B.workspaces, B.collections)
        /\ Apply(Apply(B, write), revert)
             = Tabs(RowIn, ListIn, B.versions, B.workspaces, B.collections)
    BY <2>1, <2>2, TabsAre
  <2>4. Apply(Apply(B, version), revert)
           = Tabs(B.rows, ListIn, SavedIn, B.workspaces, B.collections)
    BY <2>1, <2>2, TabsAre
  <2>5. Apply(Apply(Apply(B, version), revert), write)
           = Tabs(RowIn, ListIn, SavedIn, B.workspaces, B.collections)
    BY <2>1, <2>4, TabsAre
  <2> QED
    BY <2>1, <2>2, <2>3, <2>5
<1>4. ASSUME NEW R, OneDocument(B, R, w, c, d)
      PROVE  Allowed(B, R)
  BY <1>1, <1>4 DEF Allowed
<1>5. B.rows \in [AllWorkspaces -> Cells] /\ [B.rows EXCEPT ![w][c][d] = r] = B.rows
  <2>1. B.rows \in [AllWorkspaces -> Cells]
    BY DEF TablesOK
  <2> QED
    BY <1>1, <2>1, PutSame
<1>6. /\ kind = "invalid" => t = <<version>>
      /\ kind = "status" => t = <<write, revert>>
      /\ kind = "data" /\ r.status = "published" => t = <<version, revert, write>>
      /\ kind \notin {"invalid", "status"} /\ ~(kind = "data" /\ r.status = "published")
         => t = <<version, write>>
  BY EditsExactly, Zenon
<1>7. \/ kind \in {"data", "empty", "invalid", "status"} /\ ListedAt(B, w, c, d)
         /\ s.meta = B.meta[w][c] /\ (kind = "data" => s.change.data \in Values)
      \/ kind = "restore" /\ s.change.data \in Values /\ HasVersion(B, s.change.data)
  BY DEF EditAsked
<1>8. Written(s, r) = [data   |-> IF kind \in {"data", "restore"} THEN s.change.data ELSE r.data,
                       status |-> IF (kind = "data" /\ r.status = "published") \/ kind = "status"
                                  THEN "draft" ELSE r.status]
  BY DEF Written
<1>15. r = B.rows[w][c][d]
  OBVIOUS
<1> HIDE DEF version, revert, write, t, kind, SavedIn, RowIn, ListIn, w, c, d, r
<1>9. CASE kind = "invalid"
  <2>1. OnlySaved(B, Apply(B, version), w, c, d)
    BY <1>1, <1>2, <1>3, <1>7, <1>9, <1>15 DEF OnlySaved, SavedIn
  <2>2. Promised(<<version>>, B, B)
    BY <1>3, <1>4, <2>1, InList DEF Promised, OneDocument
  <2> QED
    BY <1>6, <1>9, <2>2 DEF t, w, c, d, r
<1>10. CASE kind = "status"
  <2>1. Drafted(B, Apply(Apply(B, write), revert), w, c, d)
    <3>1. RowIn = [B.rows EXCEPT ![w][c][d].status = "draft"]
      <4>1. Written(s, r) = [r EXCEPT !.status = "draft"]
        BY <1>2, <1>8, <1>10
      <4> QED
        BY <1>1, <1>5, <1>15, <4>1 DEF RowIn, Cells
    <3>2. ListIn = [B.meta EXCEPT ![w][c] = Reverted(@, d)]
      BY <1>7, <1>10 DEF ListIn
    <3> QED
      BY <1>1, <1>2, <1>3, <1>7, <1>10, <1>15, <3>1, <3>2 DEF Drafted
  <2>2. Promised(<<write, revert>>, B, B)
    BY <1>3, <1>4, <2>1, InList DEF Promised, OneDocument
  <2> QED
    BY <1>6, <1>10, <2>2 DEF t, w, c, d, r
<1>11. CASE kind = "data" /\ r.status = "published"
  <2>1. Updated(B, Apply(Apply(Apply(B, version), revert), write), w, c, d, s.change.data)
    <3>1. RowIn = [B.rows EXCEPT ![w][c][d] =
             [data |-> s.change.data,
              status |-> IF @.status = "published" THEN "draft" ELSE @.status]]
      BY <1>8, <1>11, <1>15 DEF RowIn
    <3>2. ListIn = [B.meta EXCEPT ![w][c] = Reverted(@, d)]
      BY <1>7, <1>11 DEF ListIn
    <3> QED
      BY <1>1, <1>2, <1>3, <1>7, <1>11, <1>15, <3>1, <3>2, Zenon DEF Updated, SavedIn
  <2>2. Promised(<<version, revert, write>>, B, B)
    BY <1>3, <1>4, <1>7, <1>11, <2>1, InList DEF Promised, OneDocument
  <2> QED
    BY <1>6, <1>11, <2>2 DEF t, w, c, d, r
<1>12. CASE kind = "data" /\ r.status # "published"
  <2>1. Updated(B, Apply(Apply(B, version), write), w, c, d, s.change.data)
    <3>1. RowIn = [B.rows EXCEPT ![w][c][d] =
             [data |-> s.change.data,
              status |-> IF @.status = "published" THEN "draft" ELSE @.status]]
      BY <1>8, <1>12, <1>15 DEF RowIn
    <3> QED
      BY <1>1, <1>2, <1>3, <1>7, <1>12, <1>15, <3>1, Zenon DEF Updated, SavedIn
  <2>2. Promised(<<version, write>>, B, B)
    BY <1>3, <1>4, <1>7, <1>12, <2>1, InList DEF Promised, OneDocument
  <2> QED
    BY <1>6, <1>12, <2>2 DEF t, w, c, d, r
<1>13. CASE kind = "empty"
  <2>1. RowIn = B.rows
    <3>1. Written(s, r) = r
      BY <1>2, <1>8, <1>13
    <3> QED
      BY <1>5, <3>1 DEF RowIn
  <2>2. OnlySaved(B, Apply(Apply(B, version), write), w, c, d)
    BY <1>1, <1>2, <1>3, <1>7, <1>13, <1>15, <2>1 DEF OnlySaved, SavedIn
  <2>3. Promised(<<version, write>>, B, B)
    BY <1>3, <1>4, <2>2, InList DEF Promised, OneDocument
  <2> QED
    BY <1>6, <1>13, <2>3 DEF t, w, c, d, r
<1>14. CASE kind = "restore"
  <2>1. Restored(B, Apply(Apply(B, version), write), w, c, d, s.change.data)
    <3>1. RowIn = [B.rows EXCEPT ![w][c][d].data = s.change.data]
      <4>1. Written(s, r) = [r EXCEPT !.data = s.change.data]
        BY <1>2, <1>8, <1>14
      <4> QED
        BY <1>1, <1>5, <1>15, <4>1 DEF RowIn, Cells
    <3> QED
      BY <1>1, <1>2, <1>3, <1>7, <1>14, <1>15, <3>1 DEF Restored, SavedIn
  <2>2. Promised(<<version, write>>, B, B)
    BY <1>3, <1>4, <1>7, <1>14, <2>1, InList DEF Promised, OneDocument
  <2> QED
    BY <1>6, <1>14, <2>2 DEF t, w, c, d, r
<1> QED
  BY <1>7, <1>9, <1>10, <1>11, <1>12, <1>13, <1>14 DEF t, w, c, d, r

-----------------------------------------------------------------------------
(* A handler that had only read so far.                                    *)

LEMMA HistoryIs ==
  ASSUME before = Tables
  PROVE  /\ before.rows = rows /\ before.meta = meta /\ before.versions = versions
         /\ before.workspaces = workspaces /\ before.collections = collections
         /\ before' = Tables' =>
               /\ before'.rows = rows' /\ before'.meta = meta' /\ before'.versions = versions'
               /\ before'.workspaces = workspaces' /\ before'.collections = collections'
BY DEF Tables

LEMMA ReadRowStep ==
  ASSUME IInv, TablesOK(before), LoneNext, NEW p \in Threads, Alone(p), Exec(p),
         before = Tables, NEW s, job[p] = <<s>>, EditAsked(s, before)
  PROVE  Progress' /\ StoreStep
<1> DEFINE r == rows[s.w][s.c][s.d]
           t == IF r = NoRow THEN <<>> ELSE Edits(s, r)
<1>1. Head(job[p]) = s /\ s.do = "read row" /\ ~Idle(p)
  BY ExecKind, TwoStatements DEF EditAsked
<1>2. ExecReadRow(p)
  BY <1>1, ExecKind
<1>3. Continue(p, t) /\ UNCHANGED tables
  BY <1>1, <1>2 DEF ExecReadRow
<1>4. StatementOK(s)
  BY <1>1, HeadOK
<1>5. r \in Rows \cup {NoRow}
  BY <1>4, <1>1, RowType DEF IInv, StatementOK, AtDoc, At
<1>6. JobOK(t)
  BY <1>1, <1>4, <1>5, EditsOK, JobOf
<1>7. r # NoRow => Promised(t, before, before)
  BY TablesAre, EditPromises
<1>8. t # <<>> => Underway(t, before, before)
  BY <1>7 DEF Underway
<1> HIDE DEF t
<1> QED
  BY <1>3, <1>6, <1>8, AfterRead

LEMMA PushDocumentStep ==
  ASSUME IInv, LoneNext, NEW p \in Threads, Alone(p), Exec(p),
         before = Tables, NEW s, job[p] = <<s>>, PushAsked(s, before), s.do = "push document"
  PROVE  Progress' /\ StoreStep
<1>1. Head(job[p]) = s /\ Tail(job[p]) = <<>>
  BY TwoStatements
<1>2. ExecPushDocument(p)
  BY <1>1, ExecKind
<1>3. /\ rows' = PushDocumentRows(rows, s.w, s.c, s.d, s.row)
      /\ meta' = PushDocumentMeta(meta, s.w, s.c, s.d)
      /\ Done(p) /\ UNCHANGED <<versions, workspaces, collections>>
  BY <1>1, <1>2 DEF ExecPushDocument
<1>4. /\ s.w \in Workspaces /\ s.c \in Collections /\ s.d \in Docs
      /\ before.collections[s.c] = "live"
      /\ s.row = before.rows[s.w][s.c][s.d] /\ s.row # NoRow
  BY DEF PushAsked, LiveIn
<1>5. before' = Tables' => Store!PushDocument(s.w, s.c, s.d)
  BY <1>3, <1>4, PushSame, HistoryIs DEF Store!PushDocument, Store!Live
<1>6. before' = Tables' => StoreStep
  BY <1>4, <1>5, StoreDocument DEF Store!DocumentStep, StoreStep
<1> QED
  BY <1>1, <1>3, <1>6, AfterRest

LEMMA PushWorkspaceStep ==
  ASSUME IInv, TablesOK(before), LoneNext, NEW p \in Threads, Alone(p), Exec(p),
         before = Tables, NEW s, job[p] = <<s>>, PushAsked(s, before), s.do # "push document"
  PROVE  Progress' /\ StoreStep
<1>1. Head(job[p]) = s /\ Tail(job[p]) = <<>>
  BY TwoStatements
<1>2. StatementOK(s)
  BY <1>1, HeadOK DEF Alone
<1>3. CASE s.do = "read rows to push"
  <2> DEFINE a == [do |-> "read meta to push", w |-> s.w, rows |-> rows[s.w]]
  <2>1. Continue(p, <<a>>) /\ UNCHANGED tables
    BY <1>1, <1>3, ExecKind DEF ExecReadRowsToPush
  <2>2. Asked(a, before)
    BY <1>3 DEF PushAsked, Asked, Tables
  <2>3. StatementOK(a)
    BY <1>2, <1>3 DEF StatementOK, IInv, RowsOK
  <2> HIDE DEF a
  <2>4. Underway(<<a>>, before, before) /\ JobOK(<<a>>)
    BY <2>2, <2>3, InList, JobOf DEF Underway
  <2> QED
    BY <2>1, <2>4, AfterRead
<1>4. CASE s.do = "read meta to push"
  <2> DEFINE a == [do |-> "replace production", rows |-> s.rows, meta |-> meta[s.w]]
  <2>1. Continue(p, <<a>>) /\ UNCHANGED tables
    BY <1>1, <1>4, ExecKind DEF ExecReadMetaToPush
  <2>2. Asked(a, before)
    BY <1>4 DEF PushAsked, Asked, Tables
  <2>3. StatementOK(a)
    BY <1>2, <1>4, ListType DEF StatementOK, IInv, ListsOK
  <2> HIDE DEF a
  <2>4. Underway(<<a>>, before, before) /\ JobOK(<<a>>)
    BY <2>2, <2>3, InList, JobOf DEF Underway
  <2> QED
    BY <2>1, <2>4, AfterRead
<1>5. CASE s.do = "replace production"
  <2>1. /\ rows' = PushWorkspace(rows, s.rows) /\ meta' = PushWorkspace(meta, s.meta)
        /\ Done(p) /\ UNCHANGED <<versions, workspaces, collections>>
    BY <1>1, <1>5, ExecKind DEF ExecReplaceProduction
  <2>2. PICK w \in before.workspaces : s.rows = before.rows[w] /\ s.meta = before.meta[w]
    BY <1>5 DEF PushAsked
  <2>3. w \in Workspaces
    BY <2>2 DEF TablesOK
  <2>4. before' = Tables' => Store!PushWorkspaceToProduction(w)
    BY <2>1, <2>2, PushSame, HistoryIs DEF Store!PushWorkspaceToProduction
  <2>5. before' = Tables' => StoreStep
    BY <2>3, <2>4 DEF StoreStep, Store!Next, Store!WorkspaceStep
  <2> QED
    BY <1>1, <2>1, <2>5, AfterRest
<1> QED
  BY <1>3, <1>4, <1>5 DEF PushAsked

LEMMA DeleteWorkspaceStep ==
  ASSUME IInv, TablesOK(before), LoneNext, NEW p \in Threads, Alone(p), Exec(p),
         before = Tables, NEW s, job[p] = <<s>>, s.do = "delete workspace",
         s.w \in before.workspaces
  PROVE  Progress' /\ StoreStep
<1>1. Head(job[p]) = s /\ Tail(job[p]) = <<>>
  BY TwoStatements
<1>2. /\ workspaces' = workspaces \ {s.w}
      /\ rows' = [rows EXCEPT ![s.w] = NoRows] /\ meta' = [meta EXCEPT ![s.w] = NoMetas]
      /\ Done(p) /\ UNCHANGED <<versions, collections>>
  BY <1>1, ExecKind DEF ExecDeleteWorkspace
<1>3. s.w \in Workspaces
  BY DEF TablesOK
<1>4. before' = Tables' => Store!DeleteWorkspace(s.w)
  BY <1>2, NothingSame, HistoryIs DEF Store!DeleteWorkspace
<1>5. before' = Tables' => StoreStep
  BY <1>3, <1>4 DEF StoreStep, Store!Next, Store!WorkspaceStep
<1> QED
  BY <1>1, <1>2, <1>5, AfterRest

\* A pull that writes what DocStore's pull writes.
LEMMA PullTaken ==
  ASSUME NEW s, NEW scope, NEW res, before = Tables, before' = Tables',
         s.mine = before.rows[s.w], s.theirs = before.rows[Production],
         s.in = Incoming(s.mine, s.theirs, scope, res),
         rows' = PullRows(rows, s.w, s.in, s.theirs),
         \E order \in PullOrders(s.mine, meta, s.w, s.in) :
            meta' = PullMeta(meta, s.w, s.in, s.theirs, order),
         UNCHANGED <<versions, workspaces, collections>>
  PROVE  Store!Pull(s.w, scope, res)
<1>1. PICK order \in PullOrders(s.mine, meta, s.w, s.in) :
         meta' = PullMeta(meta, s.w, s.in, s.theirs, order)
  OBVIOUS
<1>2. /\ s.in = Store!Incoming(before.rows[s.w], before.rows[Production], scope, res)
      /\ before'.rows = Store!PullRows(before.rows, s.w, s.in, before.rows[Production])
      /\ order \in Store!PullOrders(before.rows[s.w], before.meta, s.w, s.in)
      /\ before'.meta = Store!PullMeta(before.meta, s.w, s.in, before.rows[Production], order)
      /\ before'.versions = before.versions /\ before'.workspaces = before.workspaces
      /\ before'.collections = before.collections
  BY <1>1, PullSame, HistoryIs
<1> QED
  BY <1>2 DEF Store!Pull

LEMMA ApplyPullStep ==
  ASSUME IInv, TablesOK(before), LoneNext, NEW p \in Threads, Alone(p), Exec(p),
         before = Tables, NEW s, job[p] = <<s>>, PullStep(s, before), s.do = "apply pull"
  PROVE  Progress' /\ StoreStep
<1>1. Head(job[p]) = s /\ Tail(job[p]) = <<>>
  BY TwoStatements
<1>2. /\ rows' = PullRows(rows, s.w, s.in, s.theirs)
      /\ \E order \in PullOrders(s.mine, meta, s.w, s.in) :
            meta' = PullMeta(meta, s.w, s.in, s.theirs, order)
      /\ Done(p) /\ UNCHANGED <<versions, workspaces, collections>>
  BY <1>1, ExecKind DEF ExecApplyPull
<1>3. /\ s.mine = before.rows[s.w] /\ s.theirs = before.rows[Production]
      /\ \E scope : \E choices : Resolved(s, before, scope, choices)
  BY DEF PullStep
<1>4. PICK scope, choices : Resolved(s, before, scope, choices)
  BY <1>3
<1>5. PICK res \in choices : s.in = Incoming(s.mine, s.theirs, scope, res)
  BY <1>4 DEF Resolved
<1>6. before' = Tables' => Store!Pull(s.w, scope, res)
  BY <1>2, <1>3, <1>5, PullTaken
<1>7. PullAsked(before, s.w, scope, choices)
  BY <1>4 DEF Resolved
<1>8. before' = Tables' => Store!Next
  <2>1. ASSUME NEW c \in Collections, NEW d \in Docs, before' = Tables',
               s.w \in Workspaces, LiveIn(before, c), before.rows[Production][c][d] # NoRow,
               scope = {<<c, d>>}, choices = {{<<c, d>>}}
        PROVE  Store!Next
    <3>1. Store!PullDocument(s.w, c, d)
      BY <1>5, <1>6, <2>1 DEF Store!PullDocument, Store!Live, LiveIn
    <3> QED
      BY <2>1, <3>1, StoreDocument DEF Store!DocumentStep
  <2>2. ASSUME NEW c \in Collections, before' = Tables', s.w \in Workspaces, LiveIn(before, c),
               scope = {c} \X Docs, choices = SUBSET ({c} \X Docs)
        PROVE  Store!Next
    <3>1. Store!PullCollection(s.w, c)
      BY <1>5, <1>6, <2>2 DEF Store!PullCollection, Store!Live, LiveIn
    <3> QED
      BY <2>2, <3>1 DEF Store!Next, Store!CollectionStep
  <2>3. ASSUME before' = Tables', s.w \in before.workspaces,
               scope = Collections \X Docs, choices = SUBSET (Collections \X Docs)
        PROVE  Store!Next
    <3>1. Store!PullWorkspace(s.w)
      BY <1>5, <1>6, <2>3 DEF Store!PullWorkspace
    <3>2. s.w \in Workspaces
      BY <2>3 DEF TablesOK
    <3> QED
      BY <3>1, <3>2 DEF Store!Next, Store!WorkspaceStep
  <2> QED
    BY <1>7, <2>1, <2>2, <2>3 DEF PullAsked
<1> QED
  BY <1>1, <1>2, <1>8, AfterRest DEF StoreStep

\* The scope of a pull says how it may be resolved.
LEMMA PullChoices ==
  ASSUME NEW B, NEW w, NEW scope, NEW choices, PullAsked(B, w, scope, choices)
  PROVE  scope \in Scopes /\ (choices = {scope} \/ choices = SUBSET scope)
<1>1. ASSUME NEW c \in Collections, NEW d \in Docs, scope = {<<c, d>>}, choices = {{<<c, d>>}}
      PROVE  scope \in Scopes /\ choices = {scope}
  BY <1>1 DEF Scopes
<1>2. ASSUME NEW c \in Collections, scope = {c} \X Docs, choices = SUBSET ({c} \X Docs)
      PROVE  scope \in Scopes /\ choices = SUBSET scope
  BY <1>2 DEF Scopes
<1>3. ASSUME scope = Collections \X Docs, choices = SUBSET (Collections \X Docs)
      PROVE  scope \in Scopes /\ choices = SUBSET scope
  BY <1>3 DEF Scopes
<1> QED
  BY <1>1, <1>2, <1>3 DEF PullAsked

LEMMA PullResolves ==
  ASSUME NEW B, NEW a, NEW scope, NEW choices, PullAsked(B, a.w, scope, choices),
         a.do = "apply pull", a.mine = B.rows[a.w], a.theirs = B.rows[Production],
         \E res \in choices : a.in = Incoming(a.mine, a.theirs, scope, res)
  PROVE  PullStep(a, B)
<1>1. Resolved(a, B, scope, choices)
  BY DEF Resolved
<1>2. scope \in Scopes /\ (choices = {scope} \/ choices = SUBSET scope)
  BY PullChoices
<1> QED
  BY <1>1, <1>2 DEF PullStep

LEMMA PullReadStep ==
  ASSUME IInv, TablesOK(before), LoneNext, NEW p \in Threads, Alone(p), Exec(p),
         before = Tables, NEW s, job[p] = <<s>>, PullStep(s, before), s.do # "apply pull"
  PROVE  Progress' /\ StoreStep
<1>1. Head(job[p]) = s /\ Tail(job[p]) = <<>>
  BY TwoStatements
<1>2. StatementOK(s)
  BY <1>1, HeadOK DEF Alone
<1>3. CASE s.do = "read mine"
  <2> DEFINE a == [do |-> "read theirs", w |-> s.w, scope |-> s.scope,
                   choices |-> s.choices, mine |-> rows[s.w]]
  <2>1. Continue(p, <<a>>) /\ UNCHANGED tables
    BY <1>1, <1>3, ExecKind DEF ExecReadMine
  <2>2. PullStep(a, before)
    BY <1>3 DEF PullStep, Tables
  <2>3. StatementOK(a)
    BY <1>2, <1>3, Places DEF StatementOK, IInv, RowsOK
  <2> HIDE DEF a
  <2>4. Underway(<<a>>, before, before) /\ JobOK(<<a>>)
    BY <2>2, <2>3, InList, JobOf DEF Underway, Asked
  <2> QED
    BY <2>1, <2>4, AfterRead
<1>4. CASE s.do = "read theirs"
  <2>1. PICK res \in s.choices :
           Continue(p, <<[do |-> "apply pull", w |-> s.w, mine |-> s.mine,
                          theirs |-> rows[Production],
                          in |-> Incoming(s.mine, rows[Production], s.scope, res)]>>)
    BY <1>1, <1>4, ExecKind DEF ExecReadTheirs
  <2> DEFINE a == [do |-> "apply pull", w |-> s.w, mine |-> s.mine, theirs |-> rows[Production],
                   in |-> Incoming(s.mine, rows[Production], s.scope, res)]
  <2>2. Continue(p, <<a>>) /\ UNCHANGED tables
    BY <1>1, <1>4, <2>1, ExecKind DEF ExecReadTheirs
  <2>3. PullAsked(before, s.w, s.scope, s.choices) /\ s.mine = before.rows[s.w]
    BY <1>4 DEF PullStep
  <2>4. /\ a.do = "apply pull" /\ a.w = s.w /\ a.mine = s.mine /\ a.theirs = rows[Production]
        /\ a.in = Incoming(s.mine, rows[Production], s.scope, res)
    OBVIOUS
  <2>5. StatementOK(a)
    BY <1>2, <1>4, Places, IncomingFacts DEF StatementOK, IInv, RowsOK
  <2> HIDE DEF a
  <2>6. PullStep(a, before)
    <3>1. PullAsked(before, a.w, s.scope, s.choices)
      BY <2>3, <2>4
    <3>2. a.mine = before.rows[a.w] /\ a.theirs = before.rows[Production]
      BY <2>3, <2>4, HistoryIs
    <3>3. \E res_1 \in s.choices : a.in = Incoming(a.mine, a.theirs, s.scope, res_1)
      BY <2>4
    <3> QED
      BY <2>4, <3>1, <3>2, <3>3, PullResolves
  <2>7. Underway(<<a>>, before, before) /\ JobOK(<<a>>)
    BY <2>5, <2>6, InList, JobOf DEF Underway, Asked
  <2> QED
    BY <2>2, <2>7, AfterRead
<1> QED
  BY <1>3, <1>4 DEF PullStep

LEMMA AskedStep ==
  ASSUME IInv, TablesOK(before), LoneNext, NEW p \in Threads, Alone(p), Exec(p),
         before = Tables, NEW s, job[p] = <<s>>, Asked(s, before)
  PROVE  Progress' /\ StoreStep
BY ReadRowStep, PushDocumentStep, PushWorkspaceStep, ApplyPullStep, PullReadStep,
   DeleteWorkspaceStep DEF Asked

-----------------------------------------------------------------------------
(* A collection is deleted one workspace after the other.                  *)

LEMMA JobIndices ==
  ASSUME NEW j, JobOK(j), j # <<>>
  PROVE  /\ Len(j) \in Nat /\ Len(j) >= 1 /\ Head(j) = j[1]
         /\ Len(Tail(j)) = Len(j) - 1
         /\ \A i \in 1 .. Len(j) - 1 : Tail(j)[i] = j[i + 1]
         /\ Len(j) = 1 => Tail(j) = <<>>
         /\ Len(j) > 1 => Tail(j) # <<>>
<1>1. PICK S : j \in Seq(S)
  BY DEF JobOK
<1>2. /\ Len(j) \in Nat /\ Len(j) >= 1 /\ Head(j) = j[1] /\ Tail(j) \in Seq(S)
      /\ Len(Tail(j)) = Len(j) - 1
      /\ \A i \in 1 .. Len(j) - 1 : Tail(j)[i] = j[i + 1]
  BY <1>1, LenProperties, EmptySeq, HeadTailProperties
<1>3. Len(Tail(j)) = 0 => Tail(j) = <<>>
  BY <1>2, EmptySeq
<1>4. Len(<<>>) = 0
  BY EmptySeq
<1>5. Len(j) = 1 => Tail(j) = <<>>
  BY <1>2, <1>3
<1>6. Len(j) > 1 => Len(Tail(j)) # 0
  BY <1>2
<1>7. Len(j) > 1 => Tail(j) # <<>>
  BY <1>4, <1>6, Zenon
<1> QED
  BY <1>2, <1>5, <1>7

\* Production's tables and those of every workspace with a record are
\* cleared: DocStore's deletion.
LEMMA ClearedStep ==
  ASSUME TablesOK(before), TablesOK(before'), NEW c \in Collections, LiveIn(before, c),
         before'.versions = before.versions, before'.workspaces = before.workspaces,
         before'.collections = [before.collections EXCEPT ![c] = "deleted"],
         \A w \in AllWorkspaces, x \in Collections :
            x # c \/ w \notin Cleared(before)
            => before'.rows[w][x] = before.rows[w][x] /\ before'.meta[w][x] = before.meta[w][x],
         \A w \in Cleared(before) : before'.rows[w][c] = NoRows[c] /\ before'.meta[w][c] = NoMeta
  PROVE  Store!Next
<1>1. /\ before.rows \in [AllWorkspaces -> Cells] /\ before'.rows \in [AllWorkspaces -> Cells]
      /\ before.meta \in [AllWorkspaces -> [Collections -> Metas]]
      /\ before'.meta \in [AllWorkspaces -> [Collections -> Metas]]
  BY DEF TablesOK
<1>2. before'.rows = [w \in AllWorkspaces |->
          IF w \in Cleared(before) THEN [before.rows[w] EXCEPT ![c] = NoRows[c]]
          ELSE before.rows[w]]
  <2>1. ASSUME NEW w \in AllWorkspaces
        PROVE  before'.rows[w] = IF w \in Cleared(before)
                                 THEN [before.rows[w] EXCEPT ![c] = NoRows[c]] ELSE before.rows[w]
    <3>1. before.rows[w] \in Cells /\ before'.rows[w] \in Cells
      BY <1>1
    <3>2. \A x \in Collections : before'.rows[w][x] =
             IF w \in Cleared(before) /\ x = c THEN NoRows[c] ELSE before.rows[w][x]
      <4> TAKE x \in Collections
      <4>1. CASE w \in Cleared(before) /\ x = c
        BY <4>1, Zenon
      <4>2. CASE ~(w \in Cleared(before) /\ x = c)
        BY <4>2, Zenon
      <4> QED
        BY <4>1, <4>2
    <3>3. CASE w \in Cleared(before)
      BY <3>1, <3>2, <3>3 DEF Cells
    <3>4. CASE w \notin Cleared(before)
      BY <3>1, <3>2, <3>4 DEF Cells
    <3> QED
      BY <3>3, <3>4
  <2> QED
    BY <1>1, <2>1
<1>3. before'.meta = [w \in AllWorkspaces |->
          IF w \in Cleared(before) THEN [before.meta[w] EXCEPT ![c] = NoMeta] ELSE before.meta[w]]
  <2>1. ASSUME NEW w \in AllWorkspaces
        PROVE  before'.meta[w] = IF w \in Cleared(before)
                                 THEN [before.meta[w] EXCEPT ![c] = NoMeta] ELSE before.meta[w]
    <3>1. before.meta[w] \in [Collections -> Metas] /\ before'.meta[w] \in [Collections -> Metas]
      BY <1>1
    <3>2. \A x \in Collections : before'.meta[w][x] =
             IF w \in Cleared(before) /\ x = c THEN NoMeta ELSE before.meta[w][x]
      OBVIOUS
    <3> QED
      BY <3>1, <3>2
  <2> QED
    BY <1>1, <2>1
<1>4. Store!DeleteCollection(c)
  BY <1>2, <1>3, NothingSame DEF Store!DeleteCollection, Store!Live, LiveIn, Cleared
<1> QED
  BY <1>4 DEF Store!Next

LEMMA ClearIs ==
  ASSUME NEW w, NEW c
  PROVE  /\ Clear(w, c).do = "clear collection" /\ Clear(w, c).w = w /\ Clear(w, c).c = c
         /\ \A v : Clear(v, c) = Clear(w, c) => v = w
BY DEF Clear

LEMMA ClearHead ==
  ASSUME NEW h, NEW w, NEW c, h = Clear(w, c)
  PROVE  h.do = "clear collection" /\ h.w = w /\ h.c = c
BY DEF Clear

\* One more workspace is cleared.
LEMMA ClearsOne ==
  ASSUME NEW j, JobOK(j), j # <<>>, Len(j) > 1, NEW B, TablesOK(B), NEW T, TablesOK(T),
         NEW c \in Collections, Clearing(j, B, T, c), NEW v \in Cleared(B), j[1] = Clear(v, c),
         NEW U, U = Tabs([T.rows EXCEPT ![v][c] = NoRows[c]], [T.meta EXCEPT ![v][c] = NoMeta],
                         T.versions, T.workspaces, T.collections)
  PROVE  Clearing(Tail(j), B, U, c)
<1> DEFINE t == Tail(j)
           n == Len(j)
<1>1. /\ n \in Nat /\ n > 1 /\ Len(t) = n - 1
      /\ \A i \in 1 .. n - 1 : t[i] = j[i + 1]
  BY JobIndices
<1>2. v \in AllWorkspaces /\ \A w \in Cleared(B) : w \in AllWorkspaces
  BY DEF Cleared, TablesOK, AllWorkspaces
<1>3. /\ U.rows = [T.rows EXCEPT ![v][c] = NoRows[c]] /\ U.meta = [T.meta EXCEPT ![v][c] = NoMeta]
      /\ U.versions = T.versions /\ U.workspaces = T.workspaces
      /\ U.collections = T.collections
  BY DEF Tabs
<1>4. /\ T.rows \in [AllWorkspaces -> [Collections -> [Docs -> Rows \cup {NoRow}]]]
      /\ T.meta \in [AllWorkspaces -> [Collections -> Metas]]
  BY DEF TablesOK, Cells
<1>5. \A w \in AllWorkspaces, x \in Collections :
         ~(w = v /\ x = c) => U.rows[w][x] = T.rows[w][x] /\ U.meta[w][x] = T.meta[w][x]
  BY <1>2, <1>3, <1>4
<1>6. U.rows[v][c] = NoRows[c] /\ U.meta[v][c] = NoMeta
  BY <1>2, <1>3, <1>4
<1>7. \A i \in 1 .. n - 1 : \E w \in Cleared(B) : j[i] = Clear(w, c)
  BY DEF Clearing
<1>8. \A i \in 1 .. n - 2 : \E w \in Cleared(B) : t[i] = Clear(w, c)
  <2> TAKE i \in 1 .. n - 2
  <2>1. i \in 1 .. n - 1 /\ i + 1 \in 1 .. n - 1
    BY <1>1
  <2> HIDE DEF t, n
  <2>2. t[i] = j[i + 1]
    BY <1>1, <2>1
  <2> QED
    BY <1>7, <2>1, <2>2
<1>9. \A w \in AllWorkspaces, x \in Collections :
          x # c \/ w \notin Cleared(B) => U.rows[w][x] = B.rows[w][x] /\ U.meta[w][x] = B.meta[w][x]
  <2>1. \A w \in AllWorkspaces, x \in Collections :
          x # c \/ w \notin Cleared(B) => T.rows[w][x] = B.rows[w][x] /\ T.meta[w][x] = B.meta[w][x]
    BY DEF Clearing
  <2> QED
    BY <1>5, <2>1
<1>10. ASSUME NEW w \in Cleared(B)
       PROVE  \/ \E i \in 1 .. n - 2 : t[i] = Clear(w, c)
              \/ U.rows[w][c] = NoRows[c] /\ U.meta[w][c] = NoMeta
  <2>1. CASE w = v
    BY <1>6, <2>1
  <2>2. ASSUME NEW i \in 1 .. n - 1, j[i] = Clear(w, c), w # v
        PROVE  \E k \in 1 .. n - 2 : t[k] = Clear(w, c)
    <3>1. i # 1
      <4>1. Clear(w, c) # Clear(v, c)
        BY <2>2, ClearIs
      <4> QED
        BY <2>2, <4>1, Zenon
    <3>2. i - 1 \in 1 .. n - 2 /\ i - 1 \in 1 .. n - 1 /\ (i - 1) + 1 = i
      BY <1>1, <3>1
    <3> HIDE DEF t, n
    <3>3. t[i - 1] = j[i]
      BY <1>1, <3>2
    <3> QED
      BY <2>2, <3>2, <3>3
  <2>3. T.rows[w][c] = NoRows[c] /\ T.meta[w][c] = NoMeta
        => U.rows[w][c] = NoRows[c] /\ U.meta[w][c] = NoMeta
    BY <1>2, <1>5, <1>6
  <2>4. \/ \E i \in 1 .. n - 1 : j[i] = Clear(w, c)
        \/ T.rows[w][c] = NoRows[c] /\ T.meta[w][c] = NoMeta
    BY DEF Clearing
  <2> HIDE DEF t, n
  <2> QED
    BY <2>1, <2>2, <2>3, <2>4
<1>11. /\ LiveIn(B, c) /\ U.versions = B.versions /\ U.workspaces = B.workspaces
       /\ U.collections = B.collections
       /\ j[n] = [do |-> "delete collection", c |-> c]
  BY <1>3 DEF Clearing
<1>12. t[n - 1] = j[n] /\ Len(t) >= 1 /\ Len(t) - 1 = n - 2
  <2>1. n - 1 \in 1 .. n - 1 /\ (n - 1) + 1 = n /\ n - 1 >= 1 /\ (n - 1) - 1 = n - 2
    BY <1>1
  <2> HIDE DEF t, n
  <2> QED
    BY <1>1, <2>1
<1> HIDE DEF n
<1>13. Len(t) = n - 1
  BY <1>1
<1> HIDE DEF t
<1>14. Clearing(t, B, U, c)
  BY <1>8, <1>9, <1>10, <1>11, <1>12, <1>13, Zenon DEF Clearing
<1> QED
  BY <1>14 DEF t

LEMMA ClearOne ==
  ASSUME IInv, TablesOK(before), LoneNext, NEW p \in Threads, Alone(p), Exec(p),
         NEW c \in Collections, Clearing(job[p], before, Tables, c), Len(job[p]) > 1
  PROVE  Progress' /\ StoreStep
<1>1. JobOK(job[p]) /\ job[p] # <<>>
  BY DEF IInv, JobsOK, Alone, Idle
<1>2. Tail(job[p]) # <<>>
  BY <1>1, JobIndices
<1>3. PICK v \in Cleared(before) : job[p][1] = Clear(v, c)
  <2>1. 1 \in 1 .. Len(job[p]) - 1
    BY <1>1, JobIndices
  <2> QED
    BY <2>1 DEF Clearing
<1>4. Head(job[p]).do = "clear collection" /\ Head(job[p]).w = v /\ Head(job[p]).c = c
  <2>1. Head(job[p]) = job[p][1]
    BY <1>1, JobIndices, Zenon
  <2>2. Head(job[p]) = Clear(v, c)
    BY <1>3, <2>1, Zenon
  <2> QED
    BY <2>2, ClearHead, Zenon
<1>5. ExecClearCollection(p)
  BY <1>4, ExecKind
<1>6. /\ rows' = [rows EXCEPT ![v][c] = NoRows[c]] /\ meta' = [meta EXCEPT ![v][c] = NoMeta]
      /\ Done(p) /\ UNCHANGED <<versions, workspaces, collections>>
  BY <1>4, <1>5 DEF ExecClearCollection
<1>7. Tables' = Tabs([rows EXCEPT ![v][c] = NoRows[c]], [meta EXCEPT ![v][c] = NoMeta],
                     versions, workspaces, collections)
  BY <1>6 DEF Tables, Tabs
<1>8. Tables' = Tabs([Tables.rows EXCEPT ![v][c] = NoRows[c]],
                     [Tables.meta EXCEPT ![v][c] = NoMeta],
                     Tables.versions, Tables.workspaces, Tables.collections)
  BY <1>7, TablesAre
<1>9. Clearing(Tail(job[p]), before, Tables', c)
  BY <1>1, <1>3, <1>8, TablesAreOK, ClearsOne
<1> QED
  BY <1>2, <1>6, <1>9, AfterRest DEF Underway

LEMMA DeleteHead ==
  ASSUME NEW h, NEW c, h = [do |-> "delete collection", c |-> c]
  PROVE  h.do = "delete collection" /\ h.c = c
OBVIOUS

\* The collection's record goes last.
LEMMA ClearLast ==
  ASSUME IInv, IInv', TablesOK(before), LoneNext, NEW p \in Threads, Alone(p), Exec(p),
         NEW c \in Collections, Clearing(job[p], before, Tables, c), Len(job[p]) = 1
  PROVE  Progress' /\ StoreStep
<1>1. JobOK(job[p]) /\ job[p] # <<>>
  BY DEF IInv, JobsOK, Alone, Idle
<1>2. Tail(job[p]) = <<>>
  BY <1>1, JobIndices
<1>3. /\ job[p][1] = [do |-> "delete collection", c |-> c]
      /\ \A w \in Cleared(before) : rows[w][c] = NoRows[c] /\ meta[w][c] = NoMeta
  <2>1. 1 .. Len(job[p]) - 1 = {}
    OBVIOUS
  <2>2. job[p][1] = [do |-> "delete collection", c |-> c]
    BY DEF Clearing
  <2>3. \A w \in Cleared(before) : Tables.rows[w][c] = NoRows[c] /\ Tables.meta[w][c] = NoMeta
    BY <2>1 DEF Clearing
  <2> QED
    BY <2>2, <2>3, TablesAre
<1>4. Head(job[p]).do = "delete collection" /\ Head(job[p]).c = c
  <2>1. Head(job[p]) = job[p][1]
    BY <1>1, JobIndices, Zenon
  <2>2. Head(job[p]) = [do |-> "delete collection", c |-> c]
    BY <1>3, <2>1, Zenon
  <2> QED
    BY <2>2, DeleteHead, Zenon
<1>5. ExecDeleteCollection(p)
  BY <1>4, ExecKind
<1>6. /\ collections' = [collections EXCEPT ![c] = "deleted"] /\ Done(p)
      /\ UNCHANGED <<rows, meta, versions, workspaces>>
  BY <1>4, <1>5 DEF ExecDeleteCollection
<1>7. /\ LiveIn(before, c)
      /\ versions = before.versions /\ workspaces = before.workspaces
      /\ collections = before.collections
      /\ \A w \in AllWorkspaces, x \in Collections :
            x # c \/ w \notin Cleared(before)
            => rows[w][x] = before.rows[w][x] /\ meta[w][x] = before.meta[w][x]
  BY TablesAre DEF Clearing
<1>8. /\ Tables'.rows = rows' /\ Tables'.meta = meta' /\ Tables'.versions = versions'
      /\ Tables'.workspaces = workspaces' /\ Tables'.collections = collections'
  BY DEF Tables
<1>9. ASSUME before' = Tables'
      PROVE  StoreStep
  <2>1. TablesOK(before')
    BY <1>9, NextTablesAreOK
  <2>2. /\ before'.rows = rows /\ before'.meta = meta /\ before'.versions = before.versions
        /\ before'.workspaces = before.workspaces
        /\ before'.collections = [before.collections EXCEPT ![c] = "deleted"]
    BY <1>6, <1>7, <1>8, <1>9
  <2>3. Store!Next
    BY <1>3, <1>7, <2>1, <2>2, ClearedStep
  <2> QED
    BY <2>3 DEF StoreStep
<1> QED
  BY <1>2, <1>6, <1>9, AfterRest

-----------------------------------------------------------------------------
(* Requests begin when nothing is under way.                               *)

LEMMA AfterBegin ==
  ASSUME IInv, LoneNext, Resting, NEW p \in Threads, NEW t, Begin(p, t), t # <<>>,
         Underway(t, before, before)
  PROVE  Progress' /\ StoreStep
<1>1. job' = [job EXCEPT ![p] = t] /\ \A q \in Threads : q # p => Idle(q)
  BY DEF Begin, Resting
<1>2. job'[p] = t /\ before' = before /\ Alone(p)'
  BY <1>1, AfterStep
<1>3. Tables' = before
  BY DEF Begin, tables, Tables, Resting
<1>4. Underway(job'[p], before', Tables')
  BY <1>2, <1>3
<1> QED
  BY <1>2, <1>4 DEF Progress, StoreStep

\* A request that is one commit.
LEMMA AfterCommit ==
  ASSUME LoneNext, Resting, job' = job
  PROVE  before' = Tables' /\ Progress'
<1>1. \A q \in Threads : Idle(q)'
  BY DEF Resting, Idle
<1> QED
  BY <1>1 DEF LoneNext, Rest, Progress, Resting

\* A request for one statement.
LEMMA AskedBegins ==
  ASSUME IInv, LoneNext, Resting, NEW p \in Threads, NEW s, Begin(p, <<s>>),
         Asked(s, before)
  PROVE  Progress' /\ StoreStep
<1>1. <<s>> # <<>> /\ Underway(<<s>>, before, before)
  BY InList, TwoStatements DEF Underway
<1> QED
  BY <1>1, AfterBegin

LEMMA CreateBeginsWell ==
  ASSUME IInv, TablesOK(before), LoneNext, Resting, NEW w \in Workspaces,
         NEW c \in Collections, NEW d \in Docs, NEW v \in Values, CreateDocument(w, c, d, v)
  PROVE  Progress' /\ StoreStep
<1> DEFINE m   == meta[w][c]
           new == Ordered(Append(m.sequence, d), [m.statuses EXCEPT ![d] = "draft"])
           a   == UpsertRow(w, c, d, Draft(v))
           b   == UpsertMeta(w, c, new)
<1>1. before = Tables
  BY DEF Resting
<1>2. /\ Begin(Loop, <<a, b>>) /\ LiveIn(before, c)
      /\ MetaReadable(before.meta[w][c]) /\ d \notin Range(before.meta[w][c].sequence)
  BY <1>1, HistoryIs DEF CreateDocument, Live, LiveIn
<1>3. Writes(a) /\ Writes(b)
  BY DEF Writes, UpsertRow, UpsertMeta
<1>4. Apply(Apply(before, a), b)
        = Tabs([before.rows EXCEPT ![w][c][d] = Draft(v)], [before.meta EXCEPT ![w][c] = new],
               before.versions, before.workspaces, before.collections)
  BY Zenon DEF Apply, UpsertRow, UpsertMeta, Tabs
<1>5. [before.meta EXCEPT ![w][c] = new] =
         [before.meta EXCEPT ![w][c] = Ordered(Append(@.sequence, d),
                                               [@.statuses EXCEPT ![d] = "draft"])]
  BY <1>1, HistoryIs
<1> HIDE DEF a, b, new
<1>6. Created(before, Apply(Apply(before, a), b), w, c, d, v)
  BY <1>2, <1>4, <1>5 DEF Created
<1>7. Allowed(before, Apply(Apply(before, a), b))
  BY <1>6 DEF Allowed, OneDocument
<1>8. Underway(<<a, b>>, before, before) /\ <<a, b>> # <<>>
  BY <1>3, <1>7, InList, TwoStatements DEF Underway, Promised
<1> QED
  BY <1>2, <1>8, LoopIsThread, AfterBegin

LEMMA DeleteBeginsWell ==
  ASSUME IInv, TablesOK(before), LoneNext, Resting, NEW w \in Workspaces,
         NEW c \in Collections, NEW d \in Docs, DeleteDocument(w, c, d)
  PROVE  Progress' /\ StoreStep
<1>1. before = Tables
  BY DEF Resting
<1> DEFINE m == meta[w][c]
<1>2. PICK s \in Selected(m.sequence, Docs \ {d}) :
        Begin(Loop, <<UpsertMeta(w, c, Ordered(s, [m.statuses EXCEPT ![d] = "none"])),
                      UpsertRow(w, c, d, NoRow)>>)
  BY DEF DeleteDocument
<1> DEFINE new == Ordered(s, [m.statuses EXCEPT ![d] = "none"])
           a   == UpsertMeta(w, c, new)
           b   == UpsertRow(w, c, d, NoRow)
<1>3. Begin(Loop, <<a, b>>) /\ LiveIn(before, c) /\ ListedAt(before, w, c, d)
      /\ s \in Selected(before.meta[w][c].sequence, Docs \ {d})
  BY <1>1, <1>2, HistoryIs DEF DeleteDocument, Live, LiveIn, Listed, ListedAt
<1>4. Writes(a) /\ Writes(b)
  BY DEF Writes, UpsertRow, UpsertMeta
<1>5. Apply(Apply(before, a), b)
        = Tabs([before.rows EXCEPT ![w][c][d] = NoRow], [before.meta EXCEPT ![w][c] = new],
               before.versions, before.workspaces, before.collections)
  BY Zenon DEF Apply, UpsertRow, UpsertMeta, Tabs
<1>6. [before.meta EXCEPT ![w][c] = new] =
         [before.meta EXCEPT ![w][c] = Ordered(s, [@.statuses EXCEPT ![d] = "none"])]
  BY <1>1, HistoryIs
<1> HIDE DEF a, b, new
<1>7. Removed(before, Apply(Apply(before, a), b), w, c, d)
  BY <1>3, <1>5, <1>6 DEF Removed
<1>8. Allowed(before, Apply(Apply(before, a), b))
  BY <1>7 DEF Allowed, OneDocument
<1>9. Underway(<<a, b>>, before, before) /\ <<a, b>> # <<>>
  BY <1>4, <1>8, InList, TwoStatements DEF Underway, Promised
<1> QED
  BY <1>3, <1>9, LoopIsThread, AfterBegin

\* An edit begins with the read of its row.
LEMMA EditBeginsWell ==
  ASSUME IInv, LoneNext, Resting, NEW w \in Workspaces, NEW c \in Collections, NEW d \in Docs,
         NEW m, NEW change, BeginEdit(w, c, d, m, change),
         \/ /\ change.kind \in {"data", "empty", "invalid", "status"}
            /\ change.kind = "data" => change.data \in Values
            /\ m = meta[w][c] /\ Listed(w, c, d)
         \/ /\ change.kind = "restore" /\ change.data \in Values
            /\ \E ws \in AllWorkspaces, co \in Collections, dd \in Docs :
                  change.data \in Range(versions[ws][co][dd])
  PROVE  Progress' /\ StoreStep
<1> DEFINE s == [do |-> "read row", w |-> w, c |-> c, d |-> d, meta |-> m, change |-> change]
<1>1. before = Tables
  BY DEF Resting
<1>2. Begin(Loop, <<s>>) /\ LiveIn(before, c)
  BY <1>1, HistoryIs DEF BeginEdit, Live, LiveIn
<1>3. \/ /\ change.kind \in {"data", "empty", "invalid", "status"}
         /\ change.kind = "data" => change.data \in Values
         /\ m = before.meta[w][c] /\ ListedAt(before, w, c, d)
      \/ change.kind = "restore" /\ change.data \in Values /\ HasVersion(before, change.data)
  BY <1>1, HistoryIs DEF Listed, ListedAt, HasVersion
<1>4. /\ s.do = "read row" /\ s.w = w /\ s.c = c /\ s.d = d /\ s.meta = m
      /\ s.change = change
  OBVIOUS
<1> HIDE DEF s
<1>5. EditAsked(s, before)
  BY <1>2, <1>3, <1>4 DEF EditAsked
<1> QED
  BY <1>2, <1>5, LoopIsThread, AskedBegins DEF Asked

LEMMA EditsBeginWell ==
  ASSUME IInv, LoneNext, Resting, NEW w \in Workspaces, NEW c \in Collections, NEW d \in Docs
  PROVE  /\ \A v \in Values : UpdateDocument(w, c, d, v) => Progress' /\ StoreStep
         /\ UpdateWithoutEffect(w, c, d) => Progress' /\ StoreStep
         /\ UpdateDocumentStatus(w, c, d) => Progress' /\ StoreStep
         /\ \A v \in Values : RestoreVersion(w, c, d, v) => Progress' /\ StoreStep
<1>1. ASSUME NEW v \in Values, UpdateDocument(w, c, d, v)
      PROVE  Progress' /\ StoreStep
  <2> DEFINE change == [kind |-> "data", data |-> v]
  <2>1. change.kind = "data" /\ change.data \in Values
    OBVIOUS
  <2>2. BeginEdit(w, c, d, meta[w][c], change) /\ Listed(w, c, d)
    BY <1>1 DEF UpdateDocument
  <2> HIDE DEF change
  <2> QED
    BY <2>1, <2>2, EditBeginsWell
<1>2. ASSUME UpdateWithoutEffect(w, c, d)
      PROVE  Progress' /\ StoreStep
  <2>1. PICK kind \in {"empty", "invalid"} : BeginEdit(w, c, d, meta[w][c], [kind |-> kind])
    BY <1>2 DEF UpdateWithoutEffect
  <2> DEFINE change == [kind |-> kind]
  <2>2. change.kind \in {"empty", "invalid"}
    OBVIOUS
  <2>3. BeginEdit(w, c, d, meta[w][c], change) /\ Listed(w, c, d)
    BY <1>2, <2>1 DEF UpdateWithoutEffect
  <2> HIDE DEF change
  <2> QED
    BY <2>2, <2>3, EditBeginsWell
<1>3. ASSUME UpdateDocumentStatus(w, c, d)
      PROVE  Progress' /\ StoreStep
  <2> DEFINE change == [kind |-> "status"]
  <2>1. change.kind = "status"
    OBVIOUS
  <2>2. BeginEdit(w, c, d, meta[w][c], change) /\ Listed(w, c, d)
    BY <1>3 DEF UpdateDocumentStatus
  <2> HIDE DEF change
  <2> QED
    BY <2>1, <2>2, EditBeginsWell
<1>4. ASSUME NEW v \in Values, RestoreVersion(w, c, d, v)
      PROVE  Progress' /\ StoreStep
  <2> DEFINE change == [kind |-> "restore", data |-> v]
  <2>1. change.kind = "restore" /\ change.data = v
    OBVIOUS
  <2>2. /\ BeginEdit(w, c, d, NoMeta, change)
        /\ \E ws \in AllWorkspaces, co \in Collections, dd \in Docs :
              v \in Range(versions[ws][co][dd])
    BY <1>4 DEF RestoreVersion
  <2> HIDE DEF change
  <2> QED
    BY <2>1, <2>2, EditBeginsWell
<1> QED
  BY <1>1, <1>2, <1>3, <1>4

LEMMA PushDocumentBeginsWell ==
  ASSUME IInv, LoneNext, Resting, NEW w \in Workspaces, NEW c \in Collections, NEW d \in Docs,
         PushDocument(w, c, d)
  PROVE  Progress' /\ StoreStep
<1> DEFINE s == [do |-> "push document", w |-> w, c |-> c, d |-> d, row |-> rows[w][c][d]]
<1>1. before = Tables
  BY DEF Resting
<1>2. Begin(Loop, <<s>>) /\ LiveIn(before, c) /\ rows[w][c][d] # NoRow
  BY <1>1, HistoryIs DEF PushDocument, Live, LiveIn
<1>3. PushAsked(s, before)
  BY <1>1, <1>2, HistoryIs DEF PushAsked
<1> HIDE DEF s
<1> QED
  BY <1>2, <1>3, LoopIsThread, AskedBegins DEF Asked

\* The three kinds of pull.
LEMMA PullBeginsWell ==
  ASSUME IInv, LoneNext, Resting, NEW p \in Threads, NEW w, NEW scope, NEW choices,
         BeginPull(p, w, scope, choices), PullAsked(before, w, scope, choices)
  PROVE  Progress' /\ StoreStep
<1> DEFINE s == [do |-> "read mine", w |-> w, scope |-> scope, choices |-> choices]
<1>1. Begin(p, <<s>>)
  BY DEF BeginPull
<1>2. s.do = "read mine" /\ s.w = w /\ s.scope = scope /\ s.choices = choices
  OBVIOUS
<1> HIDE DEF s
<1>3. Asked(s, before)
  BY <1>2 DEF PullStep, Asked
<1> QED
  BY <1>1, <1>3, AskedBegins

LEMMA PullsBeginWell ==
  ASSUME IInv, TablesOK(before), LoneNext, Resting, NEW w \in Workspaces
  PROVE  /\ \A c \in Collections, d \in Docs : PullDocument(w, c, d) => Progress' /\ StoreStep
         /\ \A c \in Collections : PullCollection(w, c) => Progress' /\ StoreStep
         /\ \A p \in Threads : PullWorkspace(p, w) => Progress' /\ StoreStep
<1>1. before = Tables
  BY DEF Resting
<1>2. ASSUME NEW c \in Collections, NEW d \in Docs, PullDocument(w, c, d)
      PROVE  Progress' /\ StoreStep
  <2>1. BeginPull(Loop, w, {<<c, d>>}, {{<<c, d>>}})
    BY <1>2 DEF PullDocument
  <2>2. LiveIn(before, c) /\ before.rows[Production][c][d] # NoRow
    BY <1>1, <1>2, HistoryIs DEF PullDocument, Live, LiveIn
  <2>3. PullAsked(before, w, {<<c, d>>}, {{<<c, d>>}})
    BY <2>2 DEF PullAsked
  <2> QED
    BY <2>1, <2>3, LoopIsThread, PullBeginsWell
<1>3. ASSUME NEW c \in Collections, PullCollection(w, c)
      PROVE  Progress' /\ StoreStep
  <2>1. BeginPull(Loop, w, {c} \X Docs, SUBSET ({c} \X Docs)) /\ LiveIn(before, c)
    BY <1>1, <1>3, HistoryIs DEF PullCollection, Live, LiveIn
  <2>2. PullAsked(before, w, {c} \X Docs, SUBSET ({c} \X Docs))
    BY <2>1 DEF PullAsked
  <2> QED
    BY <2>1, <2>2, LoopIsThread, PullBeginsWell
<1>4. ASSUME NEW p \in Threads, PullWorkspace(p, w)
      PROVE  Progress' /\ StoreStep
  <2>1. /\ BeginPull(p, w, Collections \X Docs, SUBSET (Collections \X Docs))
        /\ w \in before.workspaces
    BY <1>1, <1>4, HistoryIs DEF PullWorkspace
  <2>2. PullAsked(before, w, Collections \X Docs, SUBSET (Collections \X Docs))
    BY <2>1 DEF PullAsked
  <2> QED
    BY <2>1, <2>2, PullBeginsWell
<1> QED
  BY <1>2, <1>3, <1>4

LEMMA PushCollectionIsStep ==
  ASSUME LoneNext, Resting, NEW w \in Workspaces, NEW c \in Collections, PushCollection(w, c)
  PROVE  Progress' /\ StoreStep
<1>1. before = Tables
  BY DEF Resting
<1>2. job' = job /\ Progress' /\ before' = Tables'
  BY AfterCommit DEF PushCollection
<1>3. PICK s \in PushOrders(rows, meta, w, c) :
          /\ IsInjective(s)
          /\ rows' = PushCollectionRows(rows, w, c, Range(s))
          /\ meta' = PushCollectionMeta(rows, meta, w, c, CopiedMeta(s))
  BY DEF PushCollection
<1>4. /\ before.rows = rows /\ before.meta = meta /\ before'.rows = rows' /\ before'.meta = meta'
      /\ before'.versions = before.versions /\ before'.workspaces = before.workspaces
      /\ before'.collections = before.collections /\ before.collections[c] = "live"
  BY <1>1, <1>2, HistoryIs DEF PushCollection, Live
<1>5. /\ s \in Store!PushOrders(before.rows, before.meta, w, c) /\ Store!IsInjective(s)
      /\ before'.rows = Store!PushCollectionRows(before.rows, w, c, Store!Range(s))
      /\ before'.meta = Store!PushCollectionMeta(before.rows, before.meta, w, c,
                                                 Store!CopiedMeta(s))
  BY <1>3, <1>4, LibrarySame, OrdersSame, PushSame
<1>6. Store!PushCollection(w, c)
  BY <1>4, <1>5 DEF Store!PushCollection, Store!Live
<1> QED
  BY <1>2, <1>6 DEF StoreStep, Store!Next, Store!CollectionStep

LEMMA CreateWorkspaceIsStep ==
  ASSUME LoneNext, Resting, NEW p \in Pool, NEW w \in Workspaces, CreateWorkspace(p, w)
  PROVE  Progress' /\ StoreStep
<1>1. before = Tables
  BY DEF Resting
<1>2. job' = job /\ Progress' /\ before' = Tables'
  BY AfterCommit DEF CreateWorkspace
<1>3. Store!CreateWorkspace(w)
  BY <1>1, <1>2, HistoryIs DEF CreateWorkspace, Store!CreateWorkspace
<1> QED
  BY <1>2, <1>3 DEF StoreStep, Store!Next, Store!WorkspaceStep

LEMMA WorkspaceBeginsWell ==
  ASSUME IInv, LoneNext, Resting, NEW p \in Threads, NEW w \in Workspaces
  PROVE  /\ DeleteWorkspace(p, w) => Progress' /\ StoreStep
         /\ PushWorkspaceToProduction(p, w) => Progress' /\ StoreStep
<1>1. before = Tables
  BY DEF Resting
<1>2. ASSUME DeleteWorkspace(p, w)
      PROVE  Progress' /\ StoreStep
  <2> DEFINE s == [do |-> "delete workspace", w |-> w]
  <2>1. Begin(p, <<s>>) /\ w \in before.workspaces
    BY <1>1, <1>2, HistoryIs DEF DeleteWorkspace
  <2>2. s.do = "delete workspace" /\ s.w = w
    OBVIOUS
  <2> HIDE DEF s
  <2> QED
    BY <2>1, <2>2, AskedBegins DEF Asked
<1>3. ASSUME PushWorkspaceToProduction(p, w)
      PROVE  Progress' /\ StoreStep
  <2> DEFINE s == [do |-> "read rows to push", w |-> w]
  <2>1. Begin(p, <<s>>) /\ w \in before.workspaces
    BY <1>1, <1>3, HistoryIs DEF PushWorkspaceToProduction
  <2>2. s.do = "read rows to push" /\ s.w = w
    OBVIOUS
  <2> HIDE DEF s
  <2> QED
    BY <2>1, <2>2, AskedBegins DEF Asked, PushAsked
<1> QED
  BY <1>2, <1>3

LEMMA CreateCollectionBeginsWell ==
  ASSUME IInv, LoneNext, Resting, NEW p \in Threads, NEW c \in Collections,
         CreateCollection(p, c)
  PROVE  Progress' /\ StoreStep
<1> DEFINE m == Ordered(<<>>, NoMeta.statuses)
           a == UpsertMeta(Production, c, m)
<1>1. before = Tables
  BY DEF Resting
<1>2. /\ collections[c] = "unused" /\ collections' = [collections EXCEPT ![c] = "live"]
      /\ job' = [job EXCEPT ![p] = <<a>>] /\ UNCHANGED <<rows, meta, versions, workspaces>>
  BY DEF CreateCollection
<1>3. Writes(a) /\ Apply(Tables', a) = Tabs(rows, [meta EXCEPT ![Production][c] = m], versions,
                                            workspaces, [collections EXCEPT ![c] = "live"])
  <2>1. /\ Tables'.rows = rows /\ Tables'.meta = meta /\ Tables'.versions = versions
        /\ Tables'.workspaces = workspaces
        /\ Tables'.collections = [collections EXCEPT ![c] = "live"]
    BY <1>2 DEF Tables
  <2> QED
    BY <2>1 DEF Writes, Apply, UpsertMeta
<1>4. Opened(before, Apply(Tables', a), c)
  BY <1>1, <1>2, <1>3, HistoryIs DEF Opened
<1>5. <<a>> # <<>> /\ \A q \in Threads : q # p => Idle(q)
  BY TwoStatements DEF Resting
<1> HIDE DEF a
<1>6. job'[p] = <<a>> /\ before' = before /\ Alone(p)'
  BY <1>2, <1>5, AfterStep
<1>7. Promised(<<a>>, before, Tables')
  BY <1>3, <1>4, InList DEF Promised, Allowed
<1> QED
  BY <1>6, <1>7 DEF Progress, Underway, StoreStep

\* Production and every workspace with a record are to be cleared.
LEMMA ClearingBegins ==
  ASSUME NEW B, TablesOK(B), IsFiniteSet(B.workspaces), NEW c \in Collections, LiveIn(B, c),
         NEW order \in Orderings(B.workspaces)
  PROVE  LET all    == <<Production>> \o order
             clears == [i \in DOMAIN all |-> Clear(all[i], c)]
         IN  Clearing(clears \o <<[do |-> "delete collection", c |-> c]>>, B, B, c)
<1> DEFINE all    == <<Production>> \o order
           clears == [i \in DOMAIN all |-> Clear(all[i], c)]
           z      == [do |-> "delete collection", c |-> c]
           j      == clears \o <<z>>
           n      == Cardinality(B.workspaces)
<1>1. n \in Nat
  BY FS_CardinalityType
<1>2. order \in [1 .. n -> B.workspaces] /\ Range(order) = B.workspaces
  BY DEF Orderings
<1> HIDE DEF n
<1>3. order \in Seq(B.workspaces) /\ Len(order) = n /\ order \in Seq(Cleared(B))
  <2>1. order \in Seq(B.workspaces)
    BY <1>1, <1>2, SeqDef
  <2>2. Len(order) = n
    BY <1>1, <1>2, <2>1, LenProperties
  <2>3. B.workspaces \subseteq Cleared(B)
    BY DEF Cleared
  <2> QED
    BY <2>1, <2>2, <2>3, SeqMonotonic
<1>4. /\ <<Production>> \in Seq(Cleared(B)) /\ Len(<<Production>>) = 1
      /\ <<Production>>[1] = Production
  BY DEF Cleared
<1>5. /\ all \in Seq(Cleared(B)) /\ Len(all) = n + 1
      /\ \A i \in 1 .. n + 1 : all[i] = IF i <= 1 THEN <<Production>>[i] ELSE order[i - 1]
  BY <1>1, <1>3, <1>4, ConcatProperties
<1> HIDE DEF all
<1>6. DOMAIN all = 1 .. n + 1 /\ \A i \in 1 .. n + 1 : all[i] \in Cleared(B)
  BY <1>1, <1>5, LenProperties, ElementOfSeq
<1>7. \A w \in Cleared(B) : \E i \in 1 .. n + 1 : all[i] = w
  <2> TAKE w \in Cleared(B)
  <2>1. CASE w = Production
    BY <1>1, <1>4, <1>5, <2>1
  <2>2. CASE w \in B.workspaces
    <3>1. PICK i \in 1 .. n : order[i] = w
      BY <1>2, <2>2 DEF Range
    <3>2. i + 1 \in 1 .. n + 1 /\ ~(i + 1 <= 1) /\ (i + 1) - 1 = i
      BY <1>1
    <3>3. all[i + 1] = order[i]
      BY <1>5, <3>2
    <3> QED
      BY <3>1, <3>2, <3>3
  <2> QED
    BY <2>1, <2>2 DEF Cleared
<1> DEFINE S == {Clear(w, c) : w \in Cleared(B)} \cup {z}
<1>8. clears \in Seq(S) /\ Len(clears) = n + 1
      /\ \A i \in 1 .. n + 1 : clears[i] = Clear(all[i], c)
  <2>1. clears \in [1 .. n + 1 -> S]
    BY <1>6
  <2>2. n + 1 \in Nat
    BY <1>1
  <2> HIDE DEF S
  <2>3. clears \in Seq(S)
    BY <2>1, <2>2, SeqDef
  <2>4. Len(clears) = n + 1
    BY <2>1, <2>2, <2>3, LenProperties
  <2> QED
    BY <1>6, <2>3, <2>4
<1>9. z \in S
  OBVIOUS
<1> HIDE DEF clears, S, z
<1>10. <<z>> \in Seq(S) /\ Len(<<z>>) = 1 /\ <<z>>[1] = z
  BY <1>9
<1>11. /\ Len(j) = n + 2
       /\ \A i \in 1 .. n + 2 : j[i] = IF i <= n + 1 THEN clears[i] ELSE <<z>>[i - (n + 1)]
  <2>1. /\ j \in Seq(S) /\ Len(j) = Len(clears) + Len(<<z>>)
        /\ \A i \in 1 .. Len(clears) + Len(<<z>>) :
              j[i] = IF i <= Len(clears) THEN clears[i] ELSE <<z>>[i - Len(clears)]
    BY <1>8, <1>10, ConcatProperties
  <2>2. Len(clears) + Len(<<z>>) = n + 2
    BY <1>1, <1>8, <1>10
  <2> QED
    BY <1>8, <2>1, <2>2
<1> HIDE DEF j
<1>12. j[n + 2] = z
  <2>1. n + 2 \in 1 .. n + 2 /\ ~(n + 2 <= n + 1) /\ (n + 2) - (n + 1) = 1
    BY <1>1
  <2> QED
    BY <1>10, <1>11, <2>1
<1>13. \A i \in 1 .. n + 1 : j[i] = Clear(all[i], c)
  <2> TAKE i \in 1 .. n + 1
  <2>1. i \in 1 .. n + 2 /\ i <= n + 1
    BY <1>1
  <2> QED
    BY <1>8, <1>11, <2>1
<1>14. Len(j) - 1 = n + 1 /\ Len(j) >= 1
  BY <1>1, <1>11
<1>15. Clearing(j, B, B, c)
  <2>1. \A i \in 1 .. n + 1 : \E w \in Cleared(B) : j[i] = Clear(w, c)
    BY <1>6, <1>13
  <2>2. \A w \in Cleared(B) : \E i \in 1 .. n + 1 : j[i] = Clear(w, c)
    BY <1>7, <1>13
  <2>3. j[Len(j)] = [do |-> "delete collection", c |-> c]
    BY <1>11, <1>12 DEF z
  <2> QED
    BY <1>14, <2>1, <2>2, <2>3 DEF Clearing
<1> QED
  BY <1>15 DEF j, clears, all, z

LEMMA DeleteCollectionBeginsWell ==
  ASSUME IInv, TablesOK(before), LoneNext, Resting, NEW p \in Threads, NEW c \in Collections,
         DeleteCollection(p, c)
  PROVE  Progress' /\ StoreStep
<1>1. before = Tables
  BY DEF Resting
<1>2. PICK order \in Orderings(workspaces) :
          LET all    == <<Production>> \o order
              clears == [i \in DOMAIN all |-> Clear(all[i], c)]
          IN  Begin(p, clears \o <<[do |-> "delete collection", c |-> c]>>)
  BY DEF DeleteCollection, Clear
<1> DEFINE all    == <<Production>> \o order
           clears == [i \in DOMAIN all |-> Clear(all[i], c)]
           t      == clears \o <<[do |-> "delete collection", c |-> c]>>
<1>3. Begin(p, t)
  BY <1>2
<1>4. LiveIn(before, c) /\ order \in Orderings(before.workspaces) /\ IsFiniteSet(before.workspaces)
  BY <1>1, HistoryIs DEF DeleteCollection, Live, LiveIn, IInv, RecordsOK
<1>5. Clearing(t, before, before, c)
  BY <1>4, ClearingBegins
<1> HIDE DEF t
<1>6. t # <<>>
  <2>1. Len(t) >= 1
    BY <1>5 DEF Clearing
  <2>2. Len(<<>>) = 0
    BY EmptySeq
  <2> QED
    BY <2>1, <2>2
<1> QED
  BY <1>3, <1>5, <1>6, AfterBegin DEF Underway

-----------------------------------------------------------------------------
(* Every step of the handlers keeps the promise.                           *)

\* The busy thread executes its next statement.
LEMMA UnderwayStep ==
  ASSUME IInv, IInv', TablesOK(before), LoneNext, Progress, NEW p \in Threads, Exec(p)
  PROVE  Progress' /\ StoreStep
<1>1. ~Idle(p)
  BY ExecKind
<1>2. Alone(p) /\ Underway(job[p], before, Tables)
  BY <1>1 DEF Progress, Resting, Alone
<1>3. ASSUME Tables = before, NEW s, job[p] = <<s>>, Asked(s, before)
      PROVE  Progress' /\ StoreStep
  BY <1>2, <1>3, AskedStep
<1>4. CASE Promised(job[p], before, Tables)
  BY <1>2, <1>4, PromisedStep
<1>5. ASSUME NEW c \in Collections, Clearing(job[p], before, Tables, c)
      PROVE  Progress' /\ StoreStep
  <2>1. Len(job[p]) \in Nat /\ Len(job[p]) >= 1
    BY <1>1, JobIndices DEF IInv, JobsOK, Idle
  <2>2. CASE Len(job[p]) > 1
    BY <1>2, <1>5, <2>2, ClearOne
  <2>3. CASE Len(job[p]) = 1
    BY <1>2, <1>5, <2>3, ClearLast
  <2>4. Len(job[p]) > 1 \/ Len(job[p]) = 1
    <3> DEFINE n == Len(job[p])
    <3>1. n \in Nat /\ n >= 1
      BY <2>1
    <3> HIDE DEF n
    <3>2. n > 1 \/ n = 1
      BY <3>1
    <3> QED
      BY <3>2 DEF n
  <2> QED
    BY <2>2, <2>3, <2>4
<1> QED
  BY <1>2, <1>3, <1>4, <1>5 DEF Underway

LEMMA DocumentRequestStep ==
  ASSUME IInv, TablesOK(before), LoneNext, Resting,
         NEW w \in Workspaces, NEW c \in Collections, NEW d \in Docs, DocumentRequest(w, c, d)
  PROVE  Progress' /\ StoreStep
<1>1. ASSUME NEW v \in Values,
             CreateDocument(w, c, d, v) \/ UpdateDocument(w, c, d, v) \/ RestoreVersion(w, c, d, v)
      PROVE  Progress' /\ StoreStep
  BY <1>1, CreateBeginsWell, EditsBeginWell
<1>2. CASE UpdateWithoutEffect(w, c, d) \/ UpdateDocumentStatus(w, c, d)
  BY <1>2, EditsBeginWell
<1>3. CASE DeleteDocument(w, c, d)
  BY <1>3, DeleteBeginsWell
<1>4. CASE PushDocument(w, c, d)
  BY <1>4, PushDocumentBeginsWell
<1>5. CASE PullDocument(w, c, d)
  BY <1>5, PullsBeginWell
<1> QED
  BY <1>1, <1>2, <1>3, <1>4, <1>5 DEF DocumentRequest

LEMMA CollectionRequestStep ==
  ASSUME IInv, TablesOK(before), LoneNext, Resting,
         NEW w \in Workspaces, NEW c \in Collections, PushCollection(w, c) \/ PullCollection(w, c)
  PROVE  Progress' /\ StoreStep
BY PushCollectionIsStep, PullsBeginWell

LEMMA PoolRequestStep ==
  ASSUME IInv, TablesOK(before), LoneNext, Resting,
         NEW p \in Pool, PoolRequest(p)
  PROVE  Progress' /\ StoreStep
<1>1. p \in Threads
  BY LoopIsThread
<1>2. ASSUME NEW w \in Workspaces,
             \/ CreateWorkspace(p, w) \/ DeleteWorkspace(p, w)
             \/ PushWorkspaceToProduction(p, w) \/ PullWorkspace(p, w)
      PROVE  Progress' /\ StoreStep
  BY <1>1, <1>2, CreateWorkspaceIsStep, WorkspaceBeginsWell, PullsBeginWell
<1>3. ASSUME NEW c \in Collections, CreateCollection(p, c) \/ DeleteCollection(p, c)
      PROVE  Progress' /\ StoreStep
  BY <1>1, <1>3, CreateCollectionBeginsWell, DeleteCollectionBeginsWell
<1> QED
  BY <1>2, <1>3 DEF PoolRequest

-----------------------------------------------------------------------------
(* The refinement.                                                         *)

\* The inductive invariant: what the tables were when the last handler had
\* ended and, up to the first overlap or crash, where the handler under way
\* leads from there.
SequentialInv == IInv /\ TablesOK(before) /\ alone \in BOOLEAN /\ (alone => Progress)

LEMMA InitSequential == HistoryInit => SequentialInv /\ Store!Init
<1> SUFFICES ASSUME HistoryInit PROVE SequentialInv /\ Store!Init
  OBVIOUS
<1>1. IInv /\ before = Tables /\ alone = TRUE
  BY InitIInv DEF HistoryInit
<1>2. \A p \in Threads : Idle(p)
  BY DEF HistoryInit, Init, Idle
<1>3. SequentialInv
  BY <1>1, <1>2, TablesAreOK DEF SequentialInv, Progress, Resting
<1>4. Store!Init
  BY <1>1, HistoryIs, NothingSame DEF HistoryInit, Init, Store!Init
<1> QED
  BY <1>3, <1>4

\* A request that is alone goes from rest to rest, or is carried on.
LEMMA LoneStep ==
  ASSUME IInv, IInv', TablesOK(before), LoneNext, Progress, Rest \/ \E p \in Threads : Exec(p)
  PROVE  Progress' /\ StoreStep
<1>1. ASSUME NEW p \in Threads, Exec(p)
      PROVE  Progress' /\ StoreStep
  BY <1>1, UnderwayStep
<1>2. CASE Rest
  <2>1. Resting
    BY <1>2 DEF Progress, Alone, Rest
  <2>2. ASSUME NEW w \in Workspaces, NEW c \in Collections, NEW d \in Docs,
               DocumentRequest(w, c, d)
        PROVE  Progress' /\ StoreStep
    BY <2>1, <2>2, DocumentRequestStep
  <2>3. ASSUME NEW w \in Workspaces, NEW c \in Collections,
               PushCollection(w, c) \/ PullCollection(w, c)
        PROVE  Progress' /\ StoreStep
    BY <2>1, <2>3, CollectionRequestStep
  <2>4. ASSUME NEW p \in Pool, PoolRequest(p)
        PROVE  Progress' /\ StoreStep
    BY <2>1, <2>4, PoolRequestStep
  <2>5. ~Crash
    BY <1>2 DEF Crash, Rest
  <2> QED
    BY <1>1, <2>2, <2>3, <2>4, <2>5 DEF LoneNext, Next
<1> QED
  BY <1>1, <1>2

LEMMA NextSequential ==
  SequentialInv /\ [HistoryNext]_<<vars, before, alone>>
  => SequentialInv' /\ [alone' => Store!Next]_(Store!vars)
<1> SUFFICES ASSUME SequentialInv, [HistoryNext]_<<vars, before, alone>>
             PROVE  SequentialInv' /\ [alone' => Store!Next]_(Store!vars)
  OBVIOUS
<1>1. IInv /\ TablesOK(before) /\ alone \in BOOLEAN /\ (alone => Progress)
  BY DEF SequentialInv
<1>2. [Next]_vars
  BY DEF HistoryNext
<1>3. IInv'
  BY <1>1, <1>2, NextKeepsIInv
<1>4. before' = before => UNCHANGED Store!vars
  BY DEF Store!vars
<1>5. CASE UNCHANGED <<vars, before, alone>>
  <2>1. job' = job /\ before' = before /\ Tables' = Tables /\ alone' = alone
    BY <1>5 DEF vars, tables, Tables
  <2>2. TablesOK(before)' /\ (alone => Progress)'
    BY <1>1, <2>1 DEF Progress, Resting, Alone, Idle
  <2> QED
    BY <1>1, <1>3, <1>4, <2>1, <2>2 DEF SequentialInv
<1>6. CASE HistoryNext
  <2>1. TablesOK(before')
    <3>1. before' = before \/ before' = Tables'
      BY <1>6 DEF HistoryNext
    <3> QED
      BY <1>1, <1>3, <3>1, NextTablesAreOK
  <2>2. alone' \in BOOLEAN
    BY <1>1, <1>6 DEF HistoryNext
  <2>3. CASE alone'
    <3>1. alone /\ (Rest \/ \E p \in Threads : Exec(p)) /\ LoneNext
      BY <1>6, <2>3 DEF HistoryNext, LoneNext
    <3>2. Progress' /\ StoreStep
      BY <1>1, <1>3, <3>1, LoneStep
    <3> QED
      BY <1>3, <1>4, <2>1, <2>2, <3>2 DEF SequentialInv, StoreStep
  <2>4. CASE ~alone'
    BY <1>3, <2>1, <2>2, <2>4 DEF SequentialInv
  <2> QED
    BY <2>3, <2>4
<1> QED
  BY <1>5, <1>6

\* Up to the first request that begins before another has ended and the first
\* stop of the process in the middle of one, the commits of each handler add up
\* to the one step DocStore has for it: what a client sees between two requests
\* is a behaviour of DocStore, so that what is proved of DocStore holds of the
\* handlers' tables till then.
THEOREM SequentialImplements == HistorySpec => ImplementsDocStore
<1>1. HistoryInit => SequentialInv /\ Store!Init
  BY InitSequential
<1>2. SequentialInv /\ [HistoryNext]_<<vars, before, alone>>
      => SequentialInv' /\ [alone' => Store!Next]_(Store!vars)
  BY NextSequential
<1> QED
  BY <1>1, <1>2, PTL DEF HistorySpec, ImplementsDocStore
=============================================================================
