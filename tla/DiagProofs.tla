----------------------------- MODULE DiagProofs -----------------------------
(***************************************************************************)
(* The diagnostics, for all sets of codes and lists, all bounds and every  *)
(* allocation that may fail: a record owns each of its blocks once, a line *)
(* in the buffer is whole and allowed by the contract, and the buffer      *)
(* itself, for every size of size_t, keeps its bytes inside its block.     *)
(***************************************************************************)
EXTENDS Diag, DiagBuf, FiniteSetTheorems, TLAPS

-----------------------------------------------------------------------------
(* diag.c: who owns the blocks of a record                                 *)

\* What a string and a span take.
LEMMA Taken == /\ \A s : Str(s) \in Nat /\ Span(s) \in Nat
               /\ \A r : FieldBlocks(r) \in Nat
<1>1. \A s : Str(s) \in Nat /\ Span(s) \in Nat
  BY DEF Str, Span
<1>2. ASSUME NEW r PROVE FieldBlocks(r) \in Nat
  BY <1>1 DEF FieldBlocks
<1> QED
  BY <1>1, <1>2

\* One block more, when there is something to own.
LEMMA OneOwned ==
  ASSUME NEW S, IsFiniteSet(S), NEW b, b \notin S, NEW s
  PROVE  /\ IsFiniteSet(S \cup Owned(b, s))
         /\ Cardinality(S \cup Owned(b, s)) = Cardinality(S) + Str(s)
<1>1. Cardinality(S) \in Nat
  BY FS_CardinalityType
<1>2. CASE s = None
  BY <1>1, <1>2 DEF Owned, Str
<1>3. CASE s # None
  BY <1>1, <1>3, FS_AddElement DEF Owned, Str
<1> QED
  BY <1>2, <1>3

\* An entry owns as many blocks as diag.c allocates for it, none of another entry.
LEMMA EntryCounted ==
  ASSUME NEW S, IsFiniteSet(S), NEW l, NEW n, NEW e \in Entries,
         \A part : <<l, n, part>> \notin S
  PROVE  /\ IsFiniteSet(S \cup EntryBlocks(l, n, e))
         /\ Cardinality(S \cup EntryBlocks(l, n, e)) = Cardinality(S) + Entry(e)
<1> DEFINE A == S \cup Owned(<<l, n, "first">>, e.first)
           B == A \cup Owned(<<l, n, "second">>, e.second)
           C == B \cup Owned(<<l, n, "span">>, e.span)
           D == C \cup Owned(<<l, n, "file">>, e.span)
<1>1. IsFiniteSet(A) /\ Cardinality(A) = Cardinality(S) + Str(e.first)
  BY OneOwned
<1>2. <<l, n, "second">> \notin A
  BY DEF Owned
<1>3. IsFiniteSet(B) /\ Cardinality(B) = Cardinality(A) + Str(e.second)
  BY <1>1, <1>2, OneOwned
<1>4. <<l, n, "span">> \notin B
  BY DEF Owned
<1>5. IsFiniteSet(C) /\ Cardinality(C) = Cardinality(B) + Str(e.span)
  BY <1>3, <1>4, OneOwned
<1>6. <<l, n, "file">> \notin C
  BY DEF Owned
<1>7. IsFiniteSet(D) /\ Cardinality(D) = Cardinality(C) + Str(e.span)
  BY <1>5, <1>6, OneOwned
<1>8. D = S \cup EntryBlocks(l, n, e)
  BY DEF EntryBlocks
<1>9. Cardinality(S) \in Nat
  BY FS_CardinalityType
<1> HIDE DEF A, B, C, D
<1> QED
  BY <1>1, <1>3, <1>5, <1>7, <1>8, <1>9 DEF Entry, Span, Str

\* The shape of the record, its lists finite and every block accounted for.
RecInv == BlocksReached /\ (rec.exists => IsFiniteSet(ListBlocks))

\* The parts of a record that the lists rest on.
LEMMA RecordParts ==
  ASSUME rec \in Records
  PROVE  /\ rec.exists /\ rec # NoRecord
         /\ rec.list \in [Lists -> Seq(Entries)] /\ rec.array \in [Lists -> BOOLEAN]
<1>1. rec.exists /\ rec.list \in [Lists -> Seq(Entries)] /\ rec.array \in [Lists -> BOOLEAN]
  BY DEF Records
<1> QED
  BY <1>1 DEF NoRecord

\* A block of a list is its array or belongs to one of its entries.
LEMMA BlockOfList ==
  /\ \A x : x \in ListBlocks <=>
       \/ \E m \in Lists : rec.array[m] /\ x = <<m, 0, "array">>
       \/ \E m \in Lists : \E k \in DOMAIN rec.list[m] : x \in EntryBlocks(m, k, rec.list[m][k])
  /\ \A m, k, e, x : x \in EntryBlocks(m, k, e) => \E part : x = <<m, k, part>>
<1>1. ASSUME NEW x
      PROVE  x \in ListBlocks <=>
               \/ \E m \in Lists : rec.array[m] /\ x = <<m, 0, "array">>
               \/ \E m \in Lists : \E k \in DOMAIN rec.list[m] : x \in EntryBlocks(m, k, rec.list[m][k])
  BY DEF ListBlocks
<1>2. ASSUME NEW m, NEW k, NEW e, NEW x \in EntryBlocks(m, k, e)
      PROVE  \E part : x = <<m, k, part>>
  BY DEF EntryBlocks, Owned
<1> QED
  BY <1>1, <1>2

\* A list that gets an entry owns the entry's blocks, and an array if it had none.
LEMMA ListGrows ==
  ASSUME rec \in Records, IsFiniteSet(ListBlocks), NEW l \in Lists, NEW e \in Entries,
         rec' = [rec EXCEPT !.list[l] = Append(@, e), !.array[l] = TRUE]
  PROVE  /\ rec' \in Records /\ IsFiniteSet(ListBlocks')
         /\ Cardinality(ListBlocks') =
              Cardinality(ListBlocks) + Entry(e) + (IF rec.array[l] THEN 0 ELSE 1)
<1> DEFINE n == Len(rec.list[l]) + 1
           A == ListBlocks \cup {<<l, 0, "array">>}
<1>1. /\ rec.list \in [Lists -> Seq(Entries)] /\ rec.array \in [Lists -> BOOLEAN]
      /\ n \in Nat \ {0} /\ rec.list[l] \in Seq(Entries)
  BY RecordParts
<1>2. /\ rec'.list = [rec.list EXCEPT ![l] = Append(@, e)]
      /\ rec'.array = [rec.array EXCEPT ![l] = TRUE]
      /\ rec' = [rec EXCEPT !.list = rec'.list, !.array = rec'.array]
  BY DEF Records
<1>3. Append(rec.list[l], e) \in Seq(Entries)
  BY <1>1
<1>4. rec' \in Records
  <2>1. rec'.list \in [Lists -> Seq(Entries)] /\ rec'.array \in [Lists -> BOOLEAN]
    BY <1>1, <1>2, <1>3
  <2> QED
    BY <1>2, <2>1, ZenonT(60) DEF Records
<1>5. /\ DOMAIN rec'.list[l] = DOMAIN rec.list[l] \cup {n} /\ rec'.list[l][n] = e
      /\ DOMAIN rec.list[l] = 1 .. n - 1
      /\ \A k \in DOMAIN rec.list[l] : rec'.list[l][k] = rec.list[l][k]
      /\ \A m \in Lists : m # l => rec'.list[m] = rec.list[m] /\ rec'.array[m] = rec.array[m]
      /\ rec'.array[l] = TRUE
  BY <1>1, <1>2
<1> HIDE DEF n
<1>6. ListBlocks' = A \cup EntryBlocks(l, n, e)
  <2>1. ASSUME NEW x PROVE x \in ListBlocks' <=> x \in A \/ x \in EntryBlocks(l, n, e)
    <3>1. (\E m \in Lists : rec'.array[m] /\ x = <<m, 0, "array">>)
            <=> x = <<l, 0, "array">> \/ \E m \in Lists : rec.array[m] /\ x = <<m, 0, "array">>
      BY <1>1, <1>5
    <3>2. (\E m \in Lists : \E k \in DOMAIN rec'.list[m] : x \in EntryBlocks(m, k, rec'.list[m][k]))
            <=> \/ x \in EntryBlocks(l, n, e)
                \/ \E m \in Lists : \E k \in DOMAIN rec.list[m] : x \in EntryBlocks(m, k, rec.list[m][k])
      BY <1>5
    <3>3. x \in ListBlocks' <=>
            \/ \E m \in Lists : rec'.array[m] /\ x = <<m, 0, "array">>
            \/ \E m \in Lists : \E k \in DOMAIN rec'.list[m] : x \in EntryBlocks(m, k, rec'.list[m][k])
      BY DEF ListBlocks
    <3> QED
      BY <3>1, <3>2, <3>3, BlockOfList
  <2> QED
    BY <2>1
<1>7. \A part : <<l, n, part>> \notin A
  <2>1. ASSUME NEW part, <<l, n, part>> \in ListBlocks PROVE FALSE
    <3>1. CASE \E m \in Lists : <<l, n, part>> = <<m, 0, "array">>
      BY <1>1, <3>1
    <3>2. CASE \E m \in Lists : \E k \in DOMAIN rec.list[m] :
                 <<l, n, part>> \in EntryBlocks(m, k, rec.list[m][k])
      <4>1. PICK m \in Lists : \E k \in DOMAIN rec.list[m] : \E p : <<l, n, part>> = <<m, k, p>>
        BY <3>2, BlockOfList
      <4>2. n \in DOMAIN rec.list[l]
        BY <4>1
      <4> QED
        BY <1>1, <1>5, <4>2
    <3> QED
      BY <2>1, <3>1, <3>2, BlockOfList
  <2> QED
    BY <1>1, <2>1
<1>8. /\ IsFiniteSet(A)
      /\ Cardinality(A) = Cardinality(ListBlocks) + (IF rec.array[l] THEN 0 ELSE 1)
  <2>1. <<l, 0, "array">> \in ListBlocks <=> rec.array[l]
    <3>1. ASSUME NEW m \in Lists, NEW k \in DOMAIN rec.list[m]
          PROVE  <<l, 0, "array">> \notin EntryBlocks(m, k, rec.list[m][k])
      <4>1. k # 0
        BY <1>1
      <4> QED
        BY <4>1, BlockOfList
    <3> QED
      BY <3>1, BlockOfList
  <2>2. CASE rec.array[l]
    <3>1. A = ListBlocks
      BY <2>1, <2>2
    <3>2. Cardinality(ListBlocks) \in Nat
      BY FS_CardinalityType
    <3> HIDE DEF A
    <3> QED
      BY <2>2, <3>1, <3>2
  <2>3. CASE ~ rec.array[l]
    BY <2>1, <2>3, FS_AddElement
  <2> QED
    BY <2>2, <2>3
<1> HIDE DEF A
<1>9. IsFiniteSet(ListBlocks') /\ Cardinality(ListBlocks') = Cardinality(A) + Entry(e)
  BY <1>6, <1>7, <1>8, EntryCounted
<1>10. Cardinality(ListBlocks) \in Nat /\ Entry(e) \in Nat
  BY FS_CardinalityType DEF Entry, Str, Span
<1> QED
  BY <1>4, <1>8, <1>9, <1>10

\* What a setter leaves alone.
LEMMA ListsStay ==
  ASSUME rec.exists, rec'.exists, rec'.list = rec.list, rec'.array = rec.array
  PROVE  ListBlocks' = ListBlocks
BY DEF ListBlocks

\* diag_record_new and the record of a trap: the blocks of the fields, no lists.
LEMMA NewOwned ==
  ASSUME RecInv, ~ rec.exists, UNCHANGED <<out, h_lost>>, ret' = TRUE,
         rec' \in Records, rec'.list = [l \in Lists |-> <<>>],
         rec'.array = [l \in Lists |-> FALSE],
         heap' = heap + FieldBlocks(rec')
  PROVE  RecInv'
<1>1. /\ rec'.exists /\ heap = h_lost /\ heap \in Nat /\ h_lost' = h_lost /\ out' = out
  <2>1. rec'.exists
    BY DEF Records
  <2>2. Reached = 0
    BY DEF Reached
  <2> QED
    BY <2>1, <2>2 DEF RecInv, BlocksReached, TypeOK
<1>2. ListBlocks' = {} /\ IsFiniteSet(ListBlocks') /\ Cardinality(ListBlocks') = 0
  <2>1. \A l \in Lists : ~ rec'.array[l] /\ DOMAIN rec'.list[l] = {}
    OBVIOUS
  <2>2. ListBlocks' = {}
    BY <2>1 DEF ListBlocks
  <2> QED
    BY <2>2, FS_EmptySet
<1>3. heap' = Reached' + h_lost' /\ heap' \in Nat
  BY <1>1, <1>2, Taken DEF Reached
<1>4. \A l \in Lists : rec'.list[l] # <<>> => rec'.array[l]
  OBVIOUS
<1> QED
  BY <1>1, <1>2, <1>3, <1>4 DEF RecInv, BlocksReached, TypeOK

\* A setter: the new string or span is counted and the old one is released.
LEMMA StoreOwned ==
  ASSUME RecInv, rec.exists, UNCHANGED <<out, h_lost>>, ret' = TRUE,
         rec' \in Records, rec'.list = rec.list, rec'.array = rec.array,
         heap' = heap + FieldBlocks(rec') - FieldBlocks(rec)
  PROVE  RecInv'
<1>1. rec'.exists
  BY DEF Records
<1>2. /\ out' = out /\ h_lost' = h_lost /\ h_lost \in Nat /\ heap \in Nat
      /\ heap = Reached + h_lost /\ IsFiniteSet(ListBlocks)
      /\ \A l \in Lists : rec.list[l] # <<>> => rec.array[l]
  BY DEF RecInv, BlocksReached, TypeOK
<1>3. ListBlocks' = ListBlocks /\ Cardinality(ListBlocks) \in Nat
  BY <1>1, <1>2, ListsStay, FS_CardinalityType
<1>4. heap' = Reached' + h_lost' /\ heap' \in Nat
  <2>1. /\ Reached = FieldBlocks(rec) + Cardinality(ListBlocks)
        /\ Reached' = FieldBlocks(rec') + Cardinality(ListBlocks)
    BY <1>1, <1>3 DEF Reached
  <2>2. FieldBlocks(rec) \in Nat /\ FieldBlocks(rec') \in Nat
    BY Taken
  <2> QED
    BY <1>2, <1>3, <2>1, <2>2
<1>5. /\ out.lines \in Seq([whole : BOOLEAN]) /\ out.oom \in BOOLEAN
  BY DEF RecInv, BlocksReached, TypeOK
<1>6. TypeOK'
  BY <1>2, <1>4, <1>5 DEF TypeOK
<1> QED
  BY <1>2, <1>3, <1>4, <1>6 DEF RecInv, BlocksReached

\* An entry that is added, and one that is rolled back with its array kept.
LEMMA AddOwned ==
  ASSUME RecInv, NEW l \in Lists, NEW e \in Entries, rec.exists, Adds(l, e)
  PROVE  RecInv'
<1>1. /\ rec \in Records /\ IsFiniteSet(ListBlocks) /\ heap = Reached + h_lost
      /\ out' = out /\ h_lost' = h_lost /\ h_lost \in Nat /\ heap \in Nat
      /\ \A m \in Lists : rec.list[m] # <<>> => rec.array[m]
      /\ rec' = [rec EXCEPT !.list[l] = Append(@, e), !.array[l] = TRUE]
      /\ heap' = heap + Entry(e) + (IF rec.array[l] THEN 0 ELSE 1) /\ ret' = TRUE
  BY DEF RecInv, BlocksReached, TypeOK, Adds, Returns, NoRecord
<1>2. /\ rec' \in Records /\ IsFiniteSet(ListBlocks')
      /\ Cardinality(ListBlocks') =
           Cardinality(ListBlocks) + Entry(e) + (IF rec.array[l] THEN 0 ELSE 1)
  BY <1>1, ListGrows
<1>3. /\ rec.list \in [Lists -> Seq(Entries)] /\ rec.array \in [Lists -> BOOLEAN]
      /\ rec'.list = [rec.list EXCEPT ![l] = Append(@, e)]
      /\ rec'.array = [rec.array EXCEPT ![l] = TRUE]
      /\ rec'.exists /\ rec'.code = rec.code /\ rec'.severity = rec.severity
      /\ rec'.phase = rec.phase /\ rec'.message = rec.message
      /\ rec'.span = rec.span /\ rec'.recovery = rec.recovery
  BY <1>1 DEF Records
<1>4. \A m \in Lists : rec'.list[m] # <<>> => rec'.array[m]
  BY <1>1, <1>3
<1>5. Cardinality(ListBlocks) \in Nat /\ Entry(e) \in Nat /\ Cardinality(ListBlocks') \in Nat
  BY <1>1, <1>2, FS_CardinalityType DEF Entry, Str, Span
<1>6. heap' = Reached' + h_lost' /\ heap' \in Nat
  <2>1. FieldBlocks(rec') = FieldBlocks(rec)
    BY <1>3 DEF FieldBlocks
  <2>2. /\ Reached = FieldBlocks(rec) + Cardinality(ListBlocks)
        /\ Reached' = FieldBlocks(rec) + Cardinality(ListBlocks')
    BY <1>3, <2>1 DEF Reached
  <2>3. FieldBlocks(rec) \in Nat
    BY Taken
  <2>4. PICK more \in {0, 1} : more = IF rec.array[l] THEN 0 ELSE 1
    OBVIOUS
  <2>5. heap' = heap + Entry(e) + more
        /\ Cardinality(ListBlocks') = Cardinality(ListBlocks) + Entry(e) + more
    BY <1>1, <1>2, <2>4
  <2>6. Reached' = Reached + Entry(e) + more /\ Reached \in Nat /\ Reached' \in Nat
    BY <1>5, <2>2, <2>3, <2>5
  <2> QED
    BY SMTT(40), <1>1, <1>5, <2>5, <2>6
<1>7. /\ out.lines \in Seq([whole : BOOLEAN]) /\ out.oom \in BOOLEAN
  BY DEF RecInv, BlocksReached, TypeOK
<1>8. TypeOK'
  BY <1>1, <1>2, <1>4, <1>6, <1>7 DEF TypeOK
<1> QED
  BY <1>2, <1>6, <1>8 DEF RecInv, BlocksReached

\* The array that is kept when an entry is rolled back.
LEMMA RollBackOwned ==
  ASSUME RecInv, NEW l \in Lists, rec.exists, AddRollsBack(l)
  PROVE  RecInv'
<1>1. /\ rec \in Records /\ IsFiniteSet(ListBlocks) /\ heap = Reached + h_lost
      /\ out' = out /\ h_lost' = h_lost /\ h_lost \in Nat /\ heap \in Nat
      /\ \A m \in Lists : rec.list[m] # <<>> => rec.array[m]
      /\ rec' = [rec EXCEPT !.array[l] = TRUE]
      /\ heap' = heap + (IF rec.array[l] THEN 0 ELSE 1) /\ ret' = FALSE
  BY DEF RecInv, BlocksReached, TypeOK, AddRollsBack, Returns, NoRecord
<1>2. /\ rec.list \in [Lists -> Seq(Entries)] /\ rec.array \in [Lists -> BOOLEAN]
      /\ rec'.list = rec.list /\ rec'.array = [rec.array EXCEPT ![l] = TRUE]
      /\ rec'.exists /\ rec'.code = rec.code /\ rec'.severity = rec.severity
      /\ rec'.phase = rec.phase /\ rec'.message = rec.message
      /\ rec'.span = rec.span /\ rec'.recovery = rec.recovery
  BY <1>1 DEF Records
<1>3. rec' \in Records
  <2>1. rec'.array \in [Lists -> BOOLEAN] /\ rec' = [rec EXCEPT !.array = rec'.array]
    BY <1>1, <1>2 DEF Records
  <2> QED
    BY <1>1, <2>1 DEF Records
<1>4. \A m \in Lists : rec'.list[m] # <<>> => rec'.array[m]
  BY <1>1, <1>2
<1>5. PICK more \in {0, 1} : more = IF rec.array[l] THEN 0 ELSE 1
  OBVIOUS
<1>6. /\ IsFiniteSet(ListBlocks') /\ Cardinality(ListBlocks') = Cardinality(ListBlocks) + more
      /\ Cardinality(ListBlocks) \in Nat
  <2>1. ListBlocks' = ListBlocks \cup {<<l, 0, "array">>}
    BY <1>2 DEF ListBlocks
  <2>2. <<l, 0, "array">> \in ListBlocks <=> rec.array[l]
    <3>1. ASSUME NEW m \in Lists, NEW k \in DOMAIN rec.list[m]
          PROVE  <<l, 0, "array">> \notin EntryBlocks(m, k, rec.list[m][k])
      <4>1. k # 0
        BY <1>2
      <4> QED
        BY <4>1, BlockOfList
    <3> QED
      BY <3>1, BlockOfList
  <2>3. Cardinality(ListBlocks) \in Nat
    BY <1>1, FS_CardinalityType
  <2>4. CASE rec.array[l]
    <3>1. ListBlocks' = ListBlocks
      BY <2>1, <2>2, <2>4
    <3> QED
      BY <1>1, <1>5, <2>3, <2>4, <3>1
  <2>5. CASE ~ rec.array[l]
    BY <1>1, <1>5, <2>1, <2>2, <2>3, <2>5, FS_AddElement
  <2> QED
    BY <2>4, <2>5
<1>7. heap' = Reached' + h_lost' /\ heap' \in Nat
  <2>1. FieldBlocks(rec') = FieldBlocks(rec)
    BY <1>2 DEF FieldBlocks
  <2>2. /\ Reached = FieldBlocks(rec) + Cardinality(ListBlocks)
        /\ Reached' = FieldBlocks(rec) + Cardinality(ListBlocks')
    BY <1>2, <2>1 DEF Reached
  <2>3. FieldBlocks(rec) \in Nat /\ heap' = heap + more
    BY <1>1, <1>5, Taken
  <2> QED
    BY <1>1, <1>6, <2>2, <2>3
<1>8. /\ out.lines \in Seq([whole : BOOLEAN]) /\ out.oom \in BOOLEAN
  BY DEF RecInv, BlocksReached, TypeOK
<1>9. TypeOK'
  BY <1>1, <1>2, <1>3, <1>4, <1>7, <1>8 DEF TypeOK
<1> QED
  BY <1>6, <1>7, <1>9 DEF RecInv, BlocksReached

\* diag_record_free releases all it reaches but the recovery string.
LEMMA FreeOwned ==
  ASSUME RecInv, diag_record_free
  PROVE  RecInv'
<1>1. /\ rec.exists /\ rec' = NoRecord /\ heap' = heap - Freed /\ out' = out
      /\ h_lost' = h_lost + Str(rec.recovery) /\ ret' = TRUE
      /\ heap = Reached + h_lost /\ h_lost \in Nat /\ heap \in Nat
      /\ out.lines \in Seq([whole : BOOLEAN]) /\ out.oom \in BOOLEAN
  BY DEF diag_record_free, Returns, RecInv, BlocksReached, TypeOK
<1>2. ~ rec'.exists /\ Reached' = 0
  BY <1>1 DEF NoRecord, Reached
<1>3. Reached \in Nat /\ Str(rec.recovery) \in Nat
  BY <1>1, FS_CardinalityType, Taken DEF Reached, RecInv
<1>4. heap' = h_lost' /\ h_lost' \in Nat
  BY <1>1, <1>3 DEF Freed
<1> QED
  BY <1>1, <1>2, <1>4 DEF RecInv, BlocksReached, TypeOK

\* What the setters of strings and of the span store where.
Setting(field, v, n) ==
  \/ field = "severity" /\ v \in Severities /\ n = 1
  \/ field = "phase" /\ v \in Phases /\ n = 1
  \/ field = "message" /\ v \in {"plain", "control"} /\ n = 1
  \/ field = "span" /\ v \in {"span", None} /\ n = 2
  \/ field = "recovery" /\ v \in Recoveries \cup {None} /\ n = 1

\* A setter swaps what its field owns.
LEMMA SetterOwned ==
  ASSUME RecInv, rec.exists, NEW field, NEW v, NEW n, Setting(field, v, n), Stores(field, v, n)
  PROVE  RecInv'
<1>1. /\ rec \in Records /\ heap \in Nat /\ UNCHANGED <<out, h_lost>> /\ ret' = TRUE
      /\ rec' = [rec EXCEPT ![field] = v] /\ heap' = heap + n * (Str(v) - Str(rec[field]))
  BY DEF RecInv, BlocksReached, TypeOK, Stores, Returns, NoRecord
<1>2. /\ Str(v) \in Nat /\ Str(rec.code) \in Nat /\ Str(rec.severity) \in Nat
      /\ Str(rec.phase) \in Nat /\ Str(rec.message) \in Nat /\ Span(rec.span) \in Nat
      /\ Str(rec.recovery) \in Nat /\ Span(rec.span) = 2 * Str(rec.span) /\ Span(v) = 2 * Str(v)
      /\ Str(rec.span) \in Nat
  BY Taken DEF Span, Str
<1>3. /\ rec' \in Records /\ rec'.list = rec.list /\ rec'.array = rec.array
      /\ heap' = heap + FieldBlocks(rec') - FieldBlocks(rec)
  <2>1. CASE field = "severity" /\ v \in Severities /\ n = 1
    <3>1. rec' \in Records /\ rec'.list = rec.list /\ rec'.array = rec.array
      BY <1>1, <2>1 DEF Records
    <3>2. /\ rec'.code = rec.code /\ rec'.severity = v /\ rec'.phase = rec.phase
          /\ rec'.message = rec.message /\ rec'.span = rec.span /\ rec'.recovery = rec.recovery
      BY <1>1, <2>1 DEF Records
    <3>3. heap' = heap + (Str(v) - Str(rec.severity))
      BY <1>1, <1>2, <2>1
    <3> QED
      BY <1>1, <1>2, <3>1, <3>2, <3>3 DEF FieldBlocks
  <2>2. CASE field = "phase" /\ v \in Phases /\ n = 1
    <3>1. rec' \in Records /\ rec'.list = rec.list /\ rec'.array = rec.array
      BY <1>1, <2>2 DEF Records
    <3>2. /\ rec'.code = rec.code /\ rec'.severity = rec.severity /\ rec'.phase = v
          /\ rec'.message = rec.message /\ rec'.span = rec.span /\ rec'.recovery = rec.recovery
      BY <1>1, <2>2 DEF Records
    <3>3. heap' = heap + (Str(v) - Str(rec.phase))
      BY <1>1, <1>2, <2>2
    <3> QED
      BY <1>1, <1>2, <3>1, <3>2, <3>3 DEF FieldBlocks
  <2>3. CASE field = "message" /\ v \in {"plain", "control"} /\ n = 1
    <3>1. rec' \in Records /\ rec'.list = rec.list /\ rec'.array = rec.array
      BY <1>1, <2>3 DEF Records
    <3>2. /\ rec'.code = rec.code /\ rec'.severity = rec.severity /\ rec'.phase = rec.phase
          /\ rec'.message = v /\ rec'.span = rec.span /\ rec'.recovery = rec.recovery
      BY <1>1, <2>3 DEF Records
    <3>3. heap' = heap + (Str(v) - Str(rec.message))
      BY <1>1, <1>2, <2>3
    <3> QED
      BY <1>1, <1>2, <3>1, <3>2, <3>3 DEF FieldBlocks
  <2>4. CASE field = "span" /\ v \in {"span", None} /\ n = 2
    <3>1. rec' \in Records /\ rec'.list = rec.list /\ rec'.array = rec.array
      BY <1>1, <2>4 DEF Records
    <3>2. /\ rec'.code = rec.code /\ rec'.severity = rec.severity /\ rec'.phase = rec.phase
          /\ rec'.message = rec.message /\ rec'.span = v /\ rec'.recovery = rec.recovery
      BY <1>1, <2>4 DEF Records
    <3>3. heap' = heap + 2 * (Str(v) - Str(rec.span))
      BY <1>1, <1>2, <2>4
    <3> QED
      BY <1>1, <1>2, <3>1, <3>2, <3>3 DEF FieldBlocks
  <2>5. CASE field = "recovery" /\ v \in Recoveries \cup {None} /\ n = 1
    <3>1. rec' \in Records /\ rec'.list = rec.list /\ rec'.array = rec.array
      BY <1>1, <2>5 DEF Records
    <3>2. /\ rec'.code = rec.code /\ rec'.severity = rec.severity /\ rec'.phase = rec.phase
          /\ rec'.message = rec.message /\ rec'.span = rec.span /\ rec'.recovery = v
      BY <1>1, <2>5 DEF Records
    <3>3. heap' = heap + (Str(v) - Str(rec.recovery))
      BY <1>1, <1>2, <2>5
    <3> QED
      BY <1>1, <1>2, <3>1, <3>2, <3>3 DEF FieldBlocks
  <2> QED
    BY <2>1, <2>2, <2>3, <2>4, <2>5 DEF Setting
<1> QED
  BY <1>1, <1>3, StoreOwned

\* diag_record_set_code replaces three strings.
LEMMA CodeOwned ==
  ASSUME RecInv, NEW code, diag_record_set_code(code)
  PROVE  RecInv'
<1>1. /\ rec \in Records /\ rec.exists /\ heap \in Nat /\ UNCHANGED <<out, h_lost>>
      /\ ret' = TRUE /\ code \in Codes
      /\ rec' = [rec EXCEPT !.code = code, !.phase = PhaseOf(code), !.severity = SeverityOf(code)]
      /\ heap' = heap + 3 - Str(rec.code) - Str(rec.phase) - Str(rec.severity)
  BY DEF RecInv, BlocksReached, TypeOK, diag_record_set_code, Returns, NoRecord
<1>2. PhaseOf(code) \in Phases /\ SeverityOf(code) \in Severities
  BY DEF PhaseOf, SeverityOf, Phases, Severities
<1>3. /\ rec'.code = code /\ rec'.phase = PhaseOf(code) /\ rec'.severity = SeverityOf(code)
      /\ rec'.message = rec.message /\ rec'.span = rec.span /\ rec'.recovery = rec.recovery
      /\ rec'.list = rec.list /\ rec'.array = rec.array
  BY <1>1 DEF Records
<1>4. Str(code) = 1 /\ Str(PhaseOf(code)) = 1 /\ Str(SeverityOf(code)) = 1
  BY <1>1, <1>2, DiagAssumption DEF Str, None, Phases, Severities
<1>5. /\ Str(rec.code) \in Nat /\ Str(rec.severity) \in Nat
      /\ Str(rec.phase) \in Nat /\ Str(rec.message) \in Nat /\ Span(rec.span) \in Nat
      /\ Str(rec.recovery) \in Nat
  BY Taken
<1>6. heap' = heap + FieldBlocks(rec') - FieldBlocks(rec)
  BY <1>1, <1>3, <1>4, <1>5 DEF FieldBlocks
<1>7. rec' \in Records
  BY <1>1, <1>2 DEF Records
<1> QED
  BY <1>1, <1>3, <1>6, <1>7, StoreOwned

\* The numbers of a record own nothing.
LEMMA NumberOwned ==
  ASSUME RecInv, NEW v,
         \/ v \in TrapCodes /\ diag_record_set_trap_code(v)
         \/ v \in ExitCodes /\ diag_record_set_exit_code(v)
  PROVE  RecInv'
<1>1. /\ rec \in Records /\ rec.exists /\ heap \in Nat /\ UNCHANGED <<out, h_lost, heap>>
      /\ ret' = TRUE
      /\ \/ v \in 0 .. U32Max /\ rec' = [rec EXCEPT !.trap_code = <<v>>]
         \/ v \in ExitCodes /\ rec' = [rec EXCEPT !.exit_code = <<v>>]
  BY DEF RecInv, BlocksReached, TypeOK, diag_record_set_trap_code, diag_record_set_exit_code,
         Returns, NoRecord
<1>2. /\ rec'.code = rec.code /\ rec'.phase = rec.phase /\ rec'.severity = rec.severity
      /\ rec'.message = rec.message /\ rec'.span = rec.span /\ rec'.recovery = rec.recovery
      /\ rec'.list = rec.list /\ rec'.array = rec.array /\ rec' \in Records
  <2>1. CASE v \in 0 .. U32Max /\ rec' = [rec EXCEPT !.trap_code = <<v>>]
    <3>1. <<v>> \in {Unset} \cup {<<n>> : n \in 0 .. U32Max}
      BY <2>1
    <3> QED
      BY <1>1, <2>1, <3>1 DEF Records
  <2>2. CASE v \in ExitCodes /\ rec' = [rec EXCEPT !.exit_code = <<v>>]
    <3>1. <<v>> \in {Unset} \cup {<<n>> : n \in ExitCodes \cup {DIAG_TRAP_EXIT_CODE}}
      BY <2>2
    <3> QED
      BY <1>1, <2>2, <3>1 DEF Records
  <2> QED
    BY <1>1, <2>1, <2>2
<1>3. FieldBlocks(rec') = FieldBlocks(rec) /\ FieldBlocks(rec) \in Nat
  BY <1>2, Taken DEF FieldBlocks
<1>4. heap' = heap + FieldBlocks(rec') - FieldBlocks(rec)
  BY <1>1, <1>3
<1> QED
  BY <1>1, <1>2, <1>4, StoreOwned

\* diag_record_new, and the record of a trap with all its fields.
LEMMA CreatedOwned ==
  ASSUME RecInv,
         \/ diag_record_new
         \/ \E code \in Codes, m \in {"plain", "control"}, s \in {"span", None}, v \in ExitCodes :
               diag_trap_record_ex(code, m, s, v)
         \/ \E v \in TrapCodes, m \in {"plain", "control"}, s \in {"span", None} :
               diag_user_trap_record(v, m, s)
  PROVE  RecInv'
<1>1. heap \in Nat
  BY DEF RecInv, BlocksReached, TypeOK
<1>2. EmptyRecord \in Records
  BY DEF EmptyRecord, Records
<1>3. CASE diag_record_new
  <2>1. /\ ~ rec.exists /\ rec' = EmptyRecord /\ heap' = heap + 1 /\ ret' = TRUE
        /\ UNCHANGED <<out, h_lost>>
    BY <1>3 DEF diag_record_new, Returns
  <2>2. FieldBlocks(EmptyRecord) = 1
    BY DEF FieldBlocks, EmptyRecord, Str, Span
  <2>3. rec'.list = [l \in Lists |-> <<>>] /\ rec'.array = [l \in Lists |-> FALSE]
    BY <2>1 DEF EmptyRecord
  <2> QED
    BY <1>2, <2>1, <2>2, <2>3, NewOwned
<1>4. ASSUME NEW code \in Codes, NEW m \in {"plain", "control"}, NEW s \in {"span", None},
             NEW v \in ExitCodes \cup {DIAG_TRAP_EXIT_CODE},
             NEW t \in {Unset} \cup {<<n>> : n \in 0 .. U32Max},
             TrapRecord(code, m, s, v, t)
      PROVE  RecInv'
  <2>1. PICK e \in {<<n>> : n \in ExitCodes \cup {DIAG_TRAP_EXIT_CODE}} :
          e = <<IF v <= 0 THEN DIAG_TRAP_EXIT_CODE ELSE v>>
    OBVIOUS
  <2>2. /\ ~ rec.exists /\ heap' = heap + 6 + Span(s) /\ ret' = TRUE /\ UNCHANGED <<out, h_lost>>
        /\ rec' = [EmptyRecord EXCEPT !.code = code, !.phase = "trap", !.severity = "error",
                     !.message = m, !.span = s, !.recovery = "authoritative",
                     !.exit_code = e, !.trap_code = t]
    BY <1>4, <2>1 DEF TrapRecord, Returns
  <2>3. /\ rec'.code = code /\ rec'.phase = "trap" /\ rec'.severity = "error" /\ rec'.message = m
        /\ rec'.span = s /\ rec'.recovery = "authoritative"
        /\ rec'.list = [l \in Lists |-> <<>>] /\ rec'.array = [l \in Lists |-> FALSE]
    BY <2>2 DEF EmptyRecord
  <2>4. rec' \in Records
    BY <1>2, <2>2 DEF Records, Phases, Severities, Recoveries
  <2>5. Str(code) = 1 /\ Str(m) = 1 /\ Span(s) \in Nat
    BY DiagAssumption, Taken DEF Str, None
  <2>6. FieldBlocks(rec') = 6 + Span(s)
    BY <2>3, <2>5 DEF FieldBlocks, Str, None
  <2> QED
    BY <1>1, <2>2, <2>3, <2>4, <2>5, <2>6, NewOwned
<1>5. ASSUME NEW code \in Codes, NEW m \in {"plain", "control"}, NEW s \in {"span", None},
             NEW v \in ExitCodes, diag_trap_record_ex(code, m, s, v)
      PROVE  RecInv'
  BY <1>4, <1>5 DEF diag_trap_record_ex
<1>6. ASSUME NEW m \in {"plain", "control"}, NEW s \in {"span", None},
             NEW v \in TrapCodes, diag_user_trap_record(v, m, s)
      PROVE  RecInv'
  BY <1>4, <1>6 DEF diag_user_trap_record
<1> QED
  BY <1>3, <1>5, <1>6

-----------------------------------------------------------------------------
(* diag_emit.c: the lines of the buffer                                    *)

\* What diag_emit_record does to the buffer: a line it answers true for is whole,
\* and so is every line that leaves the flag down.
LEMMA EmitWhole ==
  ASSUME TypeOK, diag_emit_record
  PROVE  /\ diag_record_validate /\ UNCHANGED <<rec, heap, h_lost>> /\ ret' \in BOOLEAN
         /\ out'.oom \in BOOLEAN /\ (out.oom => out'.oom)
         /\ \/ out'.lines = out.lines
            \/ \E w \in BOOLEAN : /\ out'.lines = Append(out.lines, [whole |-> w])
                                  /\ (~ out'.oom \/ ret' => w)
<1>1. PICK failing \in SUBSET Pieces :
        LET tried   == Tried(failing)
            written == {p \in tried : ~ Refused(p, failing)}
        IN /\ out' = [lines |-> IF written = {} THEN out.lines
                                ELSE Append(out.lines, [whole |-> written = Pieces]),
                      oom |-> out.oom \/ \E p \in tried : Refused(p, failing)]
           /\ Returns(\A p \in Pieces \cap Checked : p \in written)
  BY DEF diag_emit_record
<1> DEFINE tried   == Tried(failing)
           written == {p \in tried : ~ Refused(p, failing)}
<1>2. Pieces \subseteq 1 .. 4 /\ 1 \in Pieces /\ 4 \in Pieces /\ Checked = {1, 4}
  BY DEF Pieces, Checked
<1>3. /\ out'.lines = IF written = {} THEN out.lines
                      ELSE Append(out.lines, [whole |-> written = Pieces])
      /\ out'.oom <=> (out.oom \/ \E p \in tried : Refused(p, failing))
      /\ out'.oom \in BOOLEAN
      /\ ret' <=> \A p \in Pieces \cap Checked : p \in written
      /\ ret' \in BOOLEAN
  BY <1>1 DEF TypeOK, Returns
<1>4. 1 \in tried
  BY <1>2 DEF Tried
<1>5. ASSUME ~ Refused(1, failing) PROVE tried = Pieces
  <2>1. ASSUME NEW p \in Pieces, NEW q \in Pieces \cap Checked, q < p PROVE q = 1
    BY <1>2, <2>1
  <2> QED
    BY <1>5, <2>1 DEF Tried
<1>6. ASSUME ~ out'.oom PROVE written = Pieces
  BY <1>3, <1>4, <1>5, <1>6
<1>7. ASSUME ret' PROVE written = Pieces
  <2>1. ~ Refused(1, failing) /\ ~ Refused(4, failing)
    BY <1>2, <1>3, <1>7
  <2>2. \A p \in Pieces : ~ Refused(p, failing)
    BY <1>2, <2>1 DEF Refused
  <2> QED
    BY <1>5, <2>1, <2>2
<1>8. diag_record_validate /\ UNCHANGED <<rec, heap, h_lost>>
  BY DEF diag_emit_record
<1> QED
  BY <1>3, <1>6, <1>7, <1>8

-----------------------------------------------------------------------------
\* The record and the buffer keep their shape, and a buffer whose flag is down
\* holds whole lines.
LinesKept == ~ out.oom => \A k \in DOMAIN out.lines : out.lines[k].whole

IInv == RecInv /\ LinesKept

\* No record, an empty buffer.
LEMMA InitInv == Init => IInv
<1> SUFFICES ASSUME Init PROVE IInv
  OBVIOUS
<1>1. ~ rec.exists /\ Reached = 0 /\ rec = NoRecord
  BY DEF Init, NoRecord, Reached
<1>2. /\ out.lines = <<>> /\ out.oom = FALSE /\ heap = 0 /\ ret = TRUE /\ h_lost = 0
  BY DEF Init
<1>3. out.lines \in Seq([whole : BOOLEAN]) /\ DOMAIN out.lines = {}
  BY <1>2
<1>4. TypeOK
  BY <1>1, <1>2, <1>3 DEF TypeOK
<1>5. LinesKept
  BY <1>3 DEF LinesKept
<1> QED
  BY <1>1, <1>2, <1>4, <1>5 DEF IInv, RecInv, BlocksReached

\* Calls on the record leave the buffer alone.
LEMMA RecordStep ==
  ASSUME RecInv, Next
  PROVE  RecInv' /\ (out' = out \/ diag_emit_record)
<1>1. RecInv /\ ret' \in BOOLEAN /\ UNCHANGED <<rec, heap, h_lost>>
        /\ out'.lines \in Seq([whole : BOOLEAN]) /\ out'.oom \in BOOLEAN => RecInv'
  <2> SUFFICES ASSUME ret' \in BOOLEAN, UNCHANGED <<rec, heap, h_lost>>,
                      out'.lines \in Seq([whole : BOOLEAN]), out'.oom \in BOOLEAN
               PROVE  RecInv'
    OBVIOUS
  <2>1. ListBlocks' = ListBlocks /\ Reached' = Reached
    BY DEF ListBlocks, Reached
  <2> QED
    BY <2>1 DEF RecInv, BlocksReached, TypeOK
<1>2. CASE SetterFails \/ TrapRecordRefused \/ EmitRefused
  <2>1. ret' = FALSE /\ UNCHANGED <<rec, out, heap, h_lost>>
    BY <1>2 DEF SetterFails, TrapRecordRefused, EmitRefused, Fails, Returns
  <2> QED
    BY <1>1, <2>1 DEF RecInv, BlocksReached, TypeOK
<1>3. CASE diag_emit_record
  <2>1. out.lines \in Seq([whole : BOOLEAN]) /\ TypeOK
    BY DEF RecInv, BlocksReached, TypeOK
  <2>2. out'.lines \in Seq([whole : BOOLEAN])
    <3>1. \A w \in BOOLEAN : [whole |-> w] \in [whole : BOOLEAN]
      OBVIOUS
    <3>2. \A w \in BOOLEAN : Append(out.lines, [whole |-> w]) \in Seq([whole : BOOLEAN])
      BY <2>1, <3>1
    <3> QED
      BY <1>3, <2>1, <3>2, EmitWhole
  <2> QED
    BY <1>1, <1>3, <2>1, <2>2, EmitWhole
<1>4. CASE diag_record_new \/ diag_record_free
  BY <1>4, CreatedOwned, FreeOwned DEF diag_record_new, diag_record_free
<1>5. ASSUME NEW code \in Codes, diag_record_set_code(code) PROVE RecInv' /\ out' = out
  BY <1>5, CodeOwned DEF diag_record_set_code
<1>6. ASSUME NEW field, NEW v, NEW n, rec.exists, Stores(field, v, n), Setting(field, v, n)
      PROVE  RecInv' /\ out' = out
  BY <1>6, SetterOwned DEF Stores
<1>7. ASSUME NEW s \in Severities, diag_record_set_severity(s) PROVE RecInv' /\ out' = out
  BY <1>6, <1>7 DEF diag_record_set_severity, Setting
<1>8. ASSUME NEW p \in Phases, diag_record_set_phase(p) PROVE RecInv' /\ out' = out
  BY <1>6, <1>8 DEF diag_record_set_phase, Setting
<1>9. ASSUME NEW m \in {"plain", "control"}, diag_record_set_message(m) PROVE RecInv' /\ out' = out
  BY <1>6, <1>9 DEF diag_record_set_message, Setting
<1>10. ASSUME NEW s \in {"span", None}, diag_record_set_primary_span(s) PROVE RecInv' /\ out' = out
  BY <1>6, <1>10 DEF diag_record_set_primary_span, Setting
<1>11. ASSUME NEW r \in Recoveries \cup {None}, diag_record_set_recovery(r)
       PROVE  RecInv' /\ out' = out
  BY <1>6, <1>11 DEF diag_record_set_recovery, Setting
<1>12. ASSUME NEW l \in Lists, NEW e \in Entries, rec.exists, Adds(l, e) PROVE RecInv' /\ out' = out
  BY <1>12, AddOwned DEF Adds
<1>13. CASE diag_record_add_secondary_span
  <2>1. [first |-> None, second |-> None, span |-> "span"] \in Entries /\ "secondary" \in Lists
    BY DEF Entries, Lists
  <2> QED
    BY <1>12, <1>13, <2>1 DEF diag_record_add_secondary_span, Room
<1>14. ASSUME NEW l \in KvLists, NEW value \in {"string", None}, rec_add_kv(l, value)
       PROVE  RecInv' /\ out' = out
  <2>1. [first |-> "key", second |-> value, span |-> None] \in Entries /\ l \in Lists
    BY DEF Entries, Lists
  <2> QED
    BY <1>12, <1>14, <2>1 DEF rec_add_kv, Room
<1>15. ASSUME NEW span \in {"span", None},
              diag_record_add_cause(span) \/ diag_record_add_correction(span)
       PROVE  RecInv' /\ out' = out
  <2>1. ASSUME NEW c \in {span, None}
        PROVE  /\ [first |-> "code", second |-> "message", span |-> c] \in Entries
               /\ [first |-> "replacement", second |-> None, span |-> c] \in Entries
    BY DEF Entries
  <2>2. "causes" \in Lists /\ "corrections" \in Lists
    BY DEF Lists
  <2> QED
    BY <1>12, <1>15, <2>1, <2>2 DEF diag_record_add_cause, diag_record_add_correction, Room
<1>16. ASSUME NEW l \in Lists, AddRollsBack(l) PROVE RecInv' /\ out' = out
  BY <1>16, RollBackOwned DEF AddRollsBack, Room
<1>17. ASSUME NEW v, \/ v \in TrapCodes /\ diag_record_set_trap_code(v)
                     \/ v \in ExitCodes /\ diag_record_set_exit_code(v)
       PROVE  RecInv' /\ out' = out
  BY <1>17, NumberOwned DEF diag_record_set_trap_code, diag_record_set_exit_code
<1>18. CASE \/ \E code \in Codes, m \in {"plain", "control"}, s \in {"span", None}, v \in ExitCodes :
                 diag_trap_record_ex(code, m, s, v)
            \/ \E v \in TrapCodes, m \in {"plain", "control"}, s \in {"span", None} :
                 diag_user_trap_record(v, m, s)
  <2>1. out' = out
    BY <1>18 DEF diag_trap_record_ex, diag_user_trap_record, TrapRecord
  <2> QED
    BY SMTT(40), <1>18, <2>1, CreatedOwned
<1> QED
  BY <1>2, <1>3, <1>4, <1>5, <1>7, <1>8, <1>9, <1>10, <1>11, <1>13, <1>14, <1>15, <1>16,
     <1>17, <1>18 DEF Next

\* Every call keeps the account, and the lines whole.
LEMMA NextInv == IInv /\ [Next]_vars => IInv'
<1> SUFFICES ASSUME IInv, [Next]_vars PROVE IInv'
  OBVIOUS
<1>1. CASE UNCHANGED vars
  <2>1. ListBlocks' = ListBlocks /\ Reached' = Reached
    BY <1>1 DEF vars, ListBlocks, Reached
  <2> QED
    BY <1>1, <2>1 DEF vars, IInv, RecInv, LinesKept, BlocksReached, TypeOK
<1>2. CASE Next
  <2>1. RecInv' /\ (out' = out \/ diag_emit_record)
    BY <1>2, RecordStep DEF IInv
  <2>2. LinesKept'
    <3>1. CASE out' = out
      BY <3>1 DEF IInv, LinesKept
    <3>2. CASE diag_emit_record
      <4>1. TypeOK /\ LinesKept /\ out.lines \in Seq([whole : BOOLEAN])
        BY DEF IInv, RecInv, BlocksReached, TypeOK
      <4>2. CASE out'.lines = out.lines
        BY <3>2, <4>1, <4>2, EmitWhole DEF LinesKept
      <4>3. ASSUME NEW w \in BOOLEAN, out'.lines = Append(out.lines, [whole |-> w]),
                   ~ out'.oom => w
            PROVE  LinesKept'
        <5>1. /\ DOMAIN out'.lines = DOMAIN out.lines \cup {Len(out.lines) + 1}
              /\ out'.lines[Len(out.lines) + 1] = [whole |-> w]
              /\ \A k \in DOMAIN out.lines : out'.lines[k] = out.lines[k]
          BY <4>1, <4>3
        <5> QED
          BY <3>2, <4>1, <4>3, <5>1, EmitWhole DEF LinesKept
      <4> QED
        BY <3>2, <4>1, <4>2, <4>3, EmitWhole
    <3> QED
      BY <2>1, <3>1, <3>2
  <2> QED
    BY <2>1, <2>2 DEF IInv
<1> QED
  BY <1>1, <1>2

\* diag.c, diag_emit.c: the inductive invariant: the record has its shape, its
\* lists are finite and every block is accounted for; whole lines only while the
\* buffer's flag is down.
THEOREM Invariance == Spec => []IInv
BY InitInv, NextInv, PTL DEF Spec

\* diag.c: whatever allocations fail, every block in use is reached from the
\* record, but for the recovery strings of freed records; nothing leaks on the way
\* back from a call that failed half way.
THEOREM BlocksReachedHolds == Spec => []BlocksReached
<1>1. IInv => BlocksReached
  BY DEF IInv, RecInv
<1> QED
  BY <1>1, Invariance, PTL

\* diag_emit.c, diag_record_validate: only records the contract allows become
\* lines, and nobody who looks at the flag or at the answer takes a cut line for a
\* whole one.
THEOREM LinesSoundHolds == Spec => LinesSound
<1> DEFINE Valid == out'.lines # out.lines =>
                      /\ rec.exists
                      /\ rec.code \in Codes /\ rec.phase = PhaseOf(rec.code)
                      /\ rec.severity \in Severities
                      /\ rec.recovery = None => rec.severity # "error" /\ rec.phase # "trap"
                      /\ rec.trap_code # Unset => rec.trap_code[1] \in 0 .. U32Max
           Answered == out'.lines # out.lines /\ ret' => out'.lines[Len(out'.lines)].whole
           Kept == ~ out.oom => \A k \in DOMAIN out.lines : out.lines[k].whole
<1>1. IInv => Kept
  BY DEF IInv, LinesKept
<1>2. ASSUME IInv, [Next]_vars PROVE [Valid]_vars /\ [Answered]_vars
  <2>1. CASE out'.lines = out.lines
    BY <2>1
  <2>2. CASE Next /\ out'.lines # out.lines
    <3>1. diag_emit_record /\ TypeOK /\ out.lines \in Seq([whole : BOOLEAN])
      BY <1>2, <2>2, RecordStep DEF IInv, RecInv, BlocksReached, TypeOK
    <3>2. diag_record_validate
      BY <3>1, EmitWhole
    <3>3. rec \in Records
      BY <3>1, <3>2 DEF diag_record_validate, TypeOK, NoRecord
    <3>4. Valid
      <4>1. /\ rec.code \in Codes /\ rec.severity \in Severities
            /\ rec.trap_code \in {Unset} \cup {<<v>> : v \in 0 .. U32Max}
        BY <3>2, <3>3 DEF diag_record_validate, Records
      <4>2. rec.trap_code # Unset => rec.trap_code[1] \in 0 .. U32Max
        BY <4>1
      <4> QED
        BY <3>2, <4>1, <4>2 DEF diag_record_validate
    <3>5. Answered
      <4>1. PICK w \in BOOLEAN : out'.lines = Append(out.lines, [whole |-> w]) /\ (ret' => w)
        BY <2>2, <3>1, EmitWhole
      <4>2. out'.lines[Len(out'.lines)] = [whole |-> w]
        BY <3>1, <4>1
      <4> QED
        BY <4>1, <4>2
    <3> QED
      BY <3>4, <3>5
  <2>3. CASE UNCHANGED vars
    BY <2>3
  <2> QED
    BY <1>2, <2>1, <2>2, <2>3
<1>3. [][Valid]_vars <=> LinesValid
  BY DEF LinesValid
<1>4. []Kept /\ [][Answered]_vars <=> LinesWhole
  BY DEF LinesWhole
<1> QED
  BY <1>1, <1>2, <1>3, <1>4, Invariance, PTL DEF Spec, LinesSound

-----------------------------------------------------------------------------
(* diag_emit.c: the growing buffer                                         *)


\* What the loop relies on: no sum wrapped around, and the block in use is not
\* larger than the one asked for.
Reserving ==
  /\ loop.on => (loop.need = len + loop.extra + 1 /\ loop.extra \in Lengths /\ cap <= loop.cap)
  /\ cap = 0 => len = 0

\* The inductive invariant of the buffer and of the loop of buf_reserve.
BufInv == BufTypeOK /\ TerminatorInside /\ Reserving

\* The guard of buf_reserve is what it is meant to be: with the terminator the
\* sum fits, and it is computed without a wrap.
LEMMA GuardExact ==
  ASSUME BufInv, NEW extra \in Lengths
  PROVE  /\ TooLong(extra) <=> len + extra + 1 > SizeMax
         /\ ~ TooLong(extra) => Need(extra) = len + extra + 1
BY DiagBufAssumption DEF BufInv, BufTypeOK, TerminatorInside, Reserving, Sizes, TooLong, Need, Wrap

\* An empty buffer, and one that was freed.
LEMMA IdleShape ==
  /\ ~ Idle.on
  /\ Idle \in [on : BOOLEAN, extra : Sizes, need : Sizes, cap : Sizes]
<1>1. 0 \in Sizes
  BY DiagBufAssumption DEF Sizes
<1> QED
  BY <1>1, Zenon DEF Idle

\* An empty buffer.
LEMMA BufInitInv == BufInit => BufInv
<1> SUFFICES ASSUME BufInit PROVE BufInv
  OBVIOUS
<1>1. len \in Sizes /\ cap \in Sizes /\ cap = 0 /\ len = 0
  BY DiagBufAssumption DEF BufInit, Sizes
<1>2. oom \in BOOLEAN /\ loop = Idle
  BY DEF BufInit
<1> QED
  BY <1>1, <1>2, IdleShape DEF BufInv, BufTypeOK, TerminatorInside, Reserving

\* buf_append_n where there is room.
LEMMA WriteInv ==
  ASSUME BufInv, NEW extra \in Lengths, Write(extra)
  PROVE  BufInv' /\ len' = len + extra /\ len' < cap'
<1>1. Need(extra) = len + extra + 1
  BY GuardExact DEF Write
<1>2. len' = len + extra /\ cap' = cap /\ oom' = oom /\ loop' = loop /\ len + extra + 1 <= cap
  BY <1>1, DiagBufAssumption
  DEF Write, Roomy, Wrap, BufInv, BufTypeOK, Sizes
<1> QED
  BY <1>2, DiagBufAssumption
  DEF Write, BufInv, BufTypeOK, TerminatorInside, Reserving, Sizes

\* buf_reserve asks for the bytes and the terminator.
LEMMA GrowInv ==
  ASSUME BufInv, NEW extra \in Lengths, Grow(extra)
  PROVE  BufInv' /\ loop'.need = len + loop'.extra + 1
<1>1. Need(extra) = len + extra + 1 /\ len + extra + 1 <= SizeMax
  BY GuardExact, DiagBufAssumption DEF Grow, BufInv, BufTypeOK, Sizes
<1> QED
  BY <1>1, DiagBufAssumption
  DEF Grow, BufInv, BufTypeOK, TerminatorInside, Reserving, Sizes

\* A turn of the loop.
LEMMA DoubleInv == ASSUME BufInv, Double PROVE BufInv' /\ loop'.need = len + loop'.extra + 1
BY DiagBufAssumption
DEF Double, Wrap, BufInv, BufTypeOK, TerminatorInside, Reserving, Sizes

\* The larger block, or the flag.
LEMMA ReallocateInv ==
  ASSUME BufInv, Reallocate
  PROVE  /\ BufInv' /\ ~ loop'.on
         /\ len' # len => len' = len + loop.extra /\ len' < cap' /\ cap <= cap'
<1>1. loop' = Idle /\ oom' \in BOOLEAN
  BY DEF Reallocate, BufInv, BufTypeOK
<1>2. CASE cap' = loop.cap /\ len' = Wrap(len + loop.extra)
  <2>1. /\ len' = len + loop.extra /\ len' < cap' /\ cap <= cap'
        /\ len' \in Sizes /\ cap' \in Sizes /\ cap' # 0
    BY <1>2, DiagBufAssumption
    DEF Reallocate, Wrap, BufInv, BufTypeOK, TerminatorInside, Reserving, Sizes
  <2> QED
    BY <1>1, <2>1, IdleShape DEF BufInv, BufTypeOK, TerminatorInside, Reserving
<1>3. CASE UNCHANGED <<len, cap>>
  BY <1>1, <1>3, IdleShape DEF BufInv, BufTypeOK, TerminatorInside, Reserving
<1> QED
  BY <1>2, <1>3 DEF Reallocate

\* Every step keeps the invariant.
LEMMA BufNextInv == BufInv /\ [BufNext]_bufVars => BufInv'
<1> SUFFICES ASSUME BufInv, [BufNext]_bufVars PROVE BufInv'
  OBVIOUS
<1>1. ASSUME NEW extra \in Lengths, Refuse(extra) PROVE BufInv'
  BY <1>1 DEF Refuse, BufInv, BufTypeOK, TerminatorInside, Reserving
<1>2. ASSUME NEW extra \in Lengths, Write(extra) PROVE BufInv'
  BY <1>2, WriteInv
<1>3. ASSUME NEW extra \in Lengths, Grow(extra) PROVE BufInv'
  BY <1>3, GrowInv
<1>4. CASE Double
  BY <1>4, DoubleInv
<1>5. CASE Reallocate
  BY <1>5, ReallocateInv
<1>6. CASE Free
  <2>1. len' = 0 /\ cap' = 0 /\ 0 \in Sizes
    BY <1>6, DiagBufAssumption DEF Free, Sizes
  <2>2. oom' \in BOOLEAN /\ loop' = loop /\ ~ loop.on
    BY <1>6 DEF Free
  <2> QED
    BY <2>1, <2>2 DEF BufInv, BufTypeOK, TerminatorInside, Reserving
<1>7. CASE UNCHANGED bufVars
  BY <1>7 DEF bufVars, BufInv, BufTypeOK, TerminatorInside, Reserving
<1> QED
  BY <1>1, <1>2, <1>3, <1>4, <1>5, <1>6, <1>7 DEF BufNext

\* diag_emit.c: the inductive invariant: sizes are sizes, the bytes and their
\* terminator lie in the block, and no sum of a running reservation wrapped.
THEOREM BufInvariance == BufSpec => []BufInv
  BY BufInitInv, BufNextInv, PTL DEF BufSpec

\* diag_emit.c: the sizes of a buffer are sizes, and the bytes and their
\* terminator lie in its block.
THEOREM BufferSafe == BufSpec => [](BufTypeOK /\ TerminatorInside)
<1>1. BufInv => BufTypeOK /\ TerminatorInside
  BY DEF BufInv
<1> QED
  BY <1>1, BufInvariance, PTL

\* diag_emit.c: an append adds its bytes, all of them and inside the block, and
\* a reservation asks for the bytes and the terminator.
THEOREM AppendsWholeHolds == BufSpec => AppendsWhole
<1> DEFINE Changes == len' # len /\ len' # 0 =>
                        /\ len' < cap' /\ cap <= cap'
                        /\ \E extra \in Lengths : len' = len + extra
           Asks    == loop'.on => loop'.need = len + loop'.extra + 1
<1>1. BufSpec => []BufInv
  BY BufInvariance
<1>2. ASSUME BufInv, [BufNext]_bufVars PROVE [Changes /\ Asks]_bufVars
  <2>1. ASSUME NEW extra \in Lengths, Refuse(extra) PROVE (Changes /\ Asks) \/ UNCHANGED bufVars
    BY <1>2, <2>1 DEF Refuse, BufInv, Reserving
  <2>2. ASSUME NEW extra \in Lengths, Write(extra) PROVE Changes /\ Asks
    <3>1. len' = len + extra /\ len' < cap' /\ cap' = cap /\ ~ loop'.on
      BY <1>2, <2>2, WriteInv DEF Write
    <3>2. cap <= cap'
      BY <1>2, <3>1, DiagBufAssumption DEF BufInv, BufTypeOK, Sizes
    <3> QED
      BY <3>1, <3>2
  <2>3. ASSUME NEW extra \in Lengths, Grow(extra) PROVE Changes /\ Asks
    BY <1>2, <2>3, GrowInv DEF Grow
  <2>4. CASE Double
    BY <1>2, <2>4, DoubleInv DEF Double
  <2>5. CASE Reallocate
    BY <1>2, <2>5, ReallocateInv DEF BufInv, Reserving, Reallocate
  <2>6. CASE Free
    BY <2>6 DEF Free
  <2> QED
    BY <1>2, <2>1, <2>2, <2>3, <2>4, <2>5, <2>6 DEF BufNext
<1> QED
  BY <1>1, <1>2, PTL DEF BufSpec, AppendsWhole
=============================================================================
