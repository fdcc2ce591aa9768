------------------------ MODULE HistoryListingProofs ------------------------
(***************************************************************************)
(* Proofs about HistoryListing for any number of rows, any requests and    *)
(* any of the changes.                                                     *)
(***************************************************************************)
EXTENDS HistoryListing, SequenceTheorems, FiniteSetTheorems, FunctionTheorems, TLAPS

-----------------------------------------------------------------------------
(* Pages.                                                                   *)

LEMMA SmallerOf ==
    ASSUME NEW a \in Nat, NEW b \in Nat
    PROVE  Min({a, b}) = IF a <= b THEN a ELSE b
  BY DEF Min

LEMMA SliceReads ==
    ASSUME NEW S, NEW s \in Seq(S), NEW offset \in Nat, NEW limit \in Nat
    PROVE  LET t == Slice(s, offset, limit)
           IN /\ t \in Seq(S)
              /\ Len(t) <= limit
              /\ \A i \in 1..Len(t) : offset + i \in 1..Len(s) /\ t[i] = s[offset + i]
              /\ Len(t) < limit => Len(s) <= offset + Len(t)
  <1> DEFINE last == Min({offset + limit, Len(s)})
             t == Slice(s, offset, limit)
  <1>1. Len(s) \in Nat
    OBVIOUS
  <1>2. last = IF offset + limit <= Len(s) THEN offset + limit ELSE Len(s)
    BY <1>1, SmallerOf
  <1>3. last \in Int /\ offset + 1 \in Int /\ \A i \in offset + 1..last : s[i] \in S
    <2>1. last \in Int /\ offset + 1 \in Int
      BY <1>1, <1>2
    <2>2. \A i \in offset + 1..last : i \in 1..Len(s)
      BY <1>1, <1>2
    <2> HIDE DEF last
    <2> QED
      BY <2>1, <2>2, ElementOfSeq
  <1>4. /\ t \in Seq(S)
        /\ Len(t) = IF offset + 1 <= last THEN last - (offset + 1) + 1 ELSE 0
        /\ \A i \in 1..last - (offset + 1) + 1 : t[i] = s[offset + 1 + i - 1]
    <2>1. t = SubSeq(s, offset + 1, last)
      BY DEF Slice
    <2> HIDE DEF last, t
    <2> QED
      BY <1>3, <2>1, SubSeqProperties
  <1>5. Len(t) = IF offset + 1 <= last THEN last - offset ELSE 0
    BY <1>1, <1>2, <1>4
  <1>6. ASSUME NEW i \in 1..Len(t)
        PROVE  offset + i \in 1..Len(s) /\ t[i] = s[offset + i]
    <2>1. i \in 1..last - (offset + 1) + 1 /\ offset + 1 + i - 1 = offset + i
      BY <1>1, <1>2, <1>5
    <2>2. t[i] = s[offset + 1 + i - 1]
      BY <1>4, <2>1
    <2> QED
      BY <1>1, <1>2, <1>5, <2>1, <2>2
  <1>7. Len(t) <= limit /\ (Len(t) < limit => Len(s) <= offset + Len(t))
    BY <1>1, <1>2, <1>5
  <1> HIDE DEF t
  <1> QED
    BY <1>4, <1>6, <1>7 DEF t

\* What a page consists of: up to n rows of the listing s from the offset on.
\* Only a page that was delivered whole says that there are more.
LEMMA PageRead ==
    ASSUME NEW S, NEW s \in Seq(S), NEW offset \in Nat, NEW n \in Nat \ {0},
           NEW rows \in Delivered(Slice(s, offset, n + 1))
    PROVE  LET answer == PageOf(rows, n)
           IN /\ answer.data \in Seq(S)
              /\ Len(answer.data) <= n
              /\ \A i \in 1..Len(answer.data) :
                     offset + i \in 1..Len(s) /\ answer.data[i] = s[offset + i]
              /\ answer.next => /\ rows = Slice(s, offset, n + 1)
                                /\ Len(answer.data) = n
                                /\ offset + n < Len(s)
              /\ ~answer.next /\ rows = Slice(s, offset, n + 1) =>
                     Len(s) <= offset + Len(answer.data)
  <1> DEFINE all == Slice(s, offset, n + 1)
             data == Slice(rows, 0, n)
  <1>1. /\ all \in Seq(S)
        /\ Len(all) <= n + 1
        /\ \A i \in 1..Len(all) : offset + i \in 1..Len(s) /\ all[i] = s[offset + i]
        /\ Len(all) < n + 1 => Len(s) <= offset + Len(all)
    BY SliceReads
  <1>2. /\ rows \in Seq(S)
        /\ Len(rows) <= Len(all)
        /\ \A i \in 1..Len(rows) : rows[i] = all[i]
        /\ rows # all => Len(rows) < Len(all)
    <2>1. CASE rows = all
      BY <1>1, <2>1
    <2>2. CASE rows # all
      <3>1. PICK m \in 0..(Len(all) - 1) : rows = SubSeq(all, 1, m)
        BY <2>2 DEF Delivered
      <3>2. Len(all) \in Nat /\ m \in Nat /\ m < Len(all)
        BY <1>1
      <3>3. \A i \in 1..m : all[i] \in S
        BY <1>1, <3>2, ElementOfSeq
      <3>4. /\ rows \in Seq(S)
            /\ Len(rows) = IF 1 <= m THEN m - 1 + 1 ELSE 0
            /\ \A i \in 1..m - 1 + 1 : rows[i] = all[1 + i - 1]
        <4> HIDE DEF all
        <4> QED
          BY <3>1, <3>2, <3>3, SubSeqProperties
      <3>5. Len(rows) = m /\ \A i \in 1..m : i \in 1..m - 1 + 1 /\ 1 + i - 1 = i
        BY <3>2, <3>4
      <3> HIDE DEF all
      <3> QED
        BY <3>2, <3>4, <3>5
    <2> QED
      BY <2>1, <2>2
  <1>3. /\ data \in Seq(S)
        /\ Len(data) <= n
        /\ \A i \in 1..Len(data) : 0 + i \in 1..Len(rows) /\ data[i] = rows[0 + i]
        /\ Len(data) < n => Len(rows) <= 0 + Len(data)
    BY <1>2, SliceReads
  <1>4. Len(data) \in Nat /\ Len(rows) \in Nat /\ Len(all) \in Nat /\ Len(s) \in Nat
    BY <1>1, <1>2, <1>3
  <1>5. PageOf(rows, n) = [next |-> Len(rows) > n, data |-> data]
    BY DEF PageOf
  <1> HIDE DEF all, data
  <1>6. ASSUME NEW i \in 1..Len(data)
        PROVE  offset + i \in 1..Len(s) /\ data[i] = s[offset + i]
    <2>1. i \in 1..Len(rows) /\ data[i] = rows[i]
      <3>1. 0 + i = i
        OBVIOUS
      <3> QED
        BY <1>3, <3>1
    <2>2. i \in 1..Len(all) /\ rows[i] = all[i]
      BY <1>2, <1>4, <2>1
    <2> QED
      BY <1>1, <2>1, <2>2
  <1>7. ASSUME Len(rows) > n
        PROVE  rows = all /\ Len(data) = n /\ offset + n < Len(s)
    <2>1. Len(all) = n + 1 /\ rows = all /\ Len(data) = n
      BY <1>1, <1>2, <1>3, <1>4, <1>7
    <2>2. offset + (n + 1) \in 1..Len(s)
      BY <1>1, <1>4, <2>1
    <2> QED
      BY <1>4, <2>1, <2>2
  <1>8. ASSUME ~(Len(rows) > n), rows = all
        PROVE  Len(s) <= offset + Len(data)
    <2>1. Len(all) < n + 1 /\ Len(rows) = Len(all)
      BY <1>4, <1>8
    <2>2. Len(rows) <= Len(data)
      <3>1. Len(data) < n => Len(rows) <= Len(data)
        BY <1>3, <1>4
      <3> QED
        BY <1>3, <1>4, <1>8, <3>1
    <2> QED
      BY <1>1, <1>4, <2>1, <2>2
  <1>9. PageOf(rows, n).data = data /\ PageOf(rows, n).next = (Len(rows) > n)
    <2>1. PageOf(rows, n).data = data
      BY <1>5
    <2>2. PageOf(rows, n).next = (Len(rows) > n)
      BY DEF PageOf
    <2> QED
      BY <2>1, <2>2
  <1>10. all = Slice(s, offset, n + 1)
    BY DEF all
  <1> QED
    BY <1>3, <1>6, <1>7, <1>8, <1>9, <1>10

-----------------------------------------------------------------------------
(* Sorted listings of a set S by a key K, equal keys in any order.          *)

Sorted(s, K) == \A i, j \in 1..Len(s) : i < j => K[s[i]] <= K[s[j]]
Below(S, K, r) == {q \in S : K[q] < K[r]}
UpTo(S, K, r) == {q \in S : K[q] <= K[r]}
First(s, n) == {s[i] : i \in 1..n}

LEMMA ListsAll ==
    ASSUME NEW S, IsFiniteSet(S), NEW s \in SetToSeqs(S)
    PROVE  /\ s \in Seq(S) /\ Len(s) = Cardinality(S) /\ Cardinality(S) \in Nat
           /\ \A i, j \in 1..Len(s) : s[i] = s[j] => i = j
           /\ \A r \in S : \E i \in 1..Len(s) : s[i] = r
  <1> DEFINE N == Cardinality(S)
  <1>1. N \in Nat
    BY FS_CardinalityType
  <1>2. s \in [1..N -> S] /\ \A i, j \in 1..N : i # j => s[i] # s[j]
    BY DEF SetToSeqs
  <1>3. s \in Seq(S) /\ Len(s) = N
    <2>1. s \in Seq(S)
      BY <1>1, <1>2, SeqDef
    <2>2. Len(s) \in Nat /\ 1..Len(s) = 1..N
      BY <1>2, <2>1, LenProperties
    <2> QED
      BY <1>1, <2>1, <2>2
  <1>4. s \in Injection(1..N, S)
    BY <1>2, Fun_IsInj
  <1>5. Cardinality(1..N) = N
    BY <1>1, FS_Interval
  <1>6. s \in Surjection(1..N, S)
    BY <1>4, <1>5, FS_Injection
  <1>7. \A r \in S : \E i \in 1..N : s[i] = r
    BY <1>6 DEF Surjection
  <1> QED
    BY <1>1, <1>2, <1>3, <1>7

\* The first n elements of such a listing are n elements.
LEMMA FirstCount ==
    ASSUME NEW S, NEW N \in Nat, NEW s \in [1..N -> S], NEW n \in 0..N,
           \A i, j \in 1..N : s[i] = s[j] => i = j
    PROVE  IsFiniteSet(First(s, n)) /\ Cardinality(First(s, n)) = n
  <1> DEFINE T == {s[i] : i \in 1..n}
             f == [i \in 1..n |-> s[i]]
  <1>1. f \in [1..n -> T] /\ \A i, j \in 1..n : f[i] = f[j] => i = j
    OBVIOUS
  <1>2. \A r \in T : \E i \in 1..n : f[i] = r
    OBVIOUS
  <1>3. f \in Bijection(1..n, T)
    <2> HIDE DEF f, T
    <2> QED
      BY <1>1, <1>2, Fun_IsBij
  <1>4. ExistsBijection(1..n, T)
    BY <1>3 DEF ExistsBijection
  <1>5. IsFiniteSet(1..n) /\ Cardinality(1..n) = n
    BY FS_Interval
  <1> QED
    BY <1>4, <1>5, FS_Bijection DEF First

\* Where an element stands is between the number of those that must stand
\* before it and of those that may.
LEMMA Place ==
    ASSUME NEW S, IsFiniteSet(S), NEW K \in [S -> Int], NEW s \in SetToSeqs(S),
           Sorted(s, K), NEW i \in 1..Len(s)
    PROVE  /\ Cardinality(Below(S, K, s[i])) \in Nat
           /\ Cardinality(Below(S, K, s[i])) <= i - 1
           /\ Cardinality(UpTo(S, K, s[i])) \in Nat
           /\ i <= Cardinality(UpTo(S, K, s[i]))
  <1> DEFINE N == Len(s)
  <1>1. /\ s \in Seq(S) /\ N \in Nat
        /\ \A j, k \in 1..N : s[j] = s[k] => j = k
        /\ \A r \in S : \E j \in 1..N : s[j] = r
    BY ListsAll
  <1>2. s \in [1..N -> S] /\ i \in 0..N /\ i - 1 \in 0..N /\ i \in Nat /\ i - 1 \in Nat
    <2>1. s \in [1..N -> S]
      BY <1>1, LenProperties
    <2> QED
      BY <1>1, <2>1
  <1>3. \A j \in 1..N : K[s[j]] \in Int
    BY <1>2
  <1>4. Below(S, K, s[i]) \subseteq First(s, i - 1)
    <2> SUFFICES ASSUME NEW r \in Below(S, K, s[i]) PROVE r \in First(s, i - 1)
      OBVIOUS
    <2>1. PICK j \in 1..N : s[j] = r
      BY <1>1 DEF Below
    <2>2. K[s[j]] < K[s[i]]
      BY <2>1 DEF Below
    <2>3. ~(i < j) /\ i # j
      BY <1>3, <2>2 DEF Sorted
    <2>4. j \in 1..i - 1
      BY <1>1, <1>2, <2>3
    <2> QED
      BY <2>1, <2>4 DEF First
  <1>5. First(s, i) \subseteq UpTo(S, K, s[i])
    <2> SUFFICES ASSUME NEW j \in 1..i PROVE s[j] \in UpTo(S, K, s[i])
      BY DEF First
    <2>1. j \in 1..N /\ s[j] \in S /\ (j < i \/ j = i)
      BY <1>1, <1>2
    <2>2. K[s[j]] <= K[s[i]]
      BY <1>3, <2>1 DEF Sorted
    <2> QED
      BY <2>1, <2>2 DEF UpTo
  <1>6. /\ IsFiniteSet(First(s, i - 1)) /\ Cardinality(First(s, i - 1)) = i - 1
        /\ IsFiniteSet(First(s, i)) /\ Cardinality(First(s, i)) = i
    <2> HIDE DEF N
    <2>1. IsFiniteSet(First(s, i - 1)) /\ Cardinality(First(s, i - 1)) = i - 1
      <3> DEFINE m == i - 1
      <3>1. m \in 0..N
        BY <1>2
      <3> HIDE DEF m
      <3>2. IsFiniteSet(First(s, m)) /\ Cardinality(First(s, m)) = m
        BY <1>1, <1>2, <3>1, FirstCount
      <3> QED
        BY <3>2 DEF m
    <2>2. IsFiniteSet(First(s, i)) /\ Cardinality(First(s, i)) = i
      BY <1>1, <1>2, FirstCount
    <2> QED
      BY <2>1, <2>2
  <1>7. IsFiniteSet(UpTo(S, K, s[i]))
    <2>1. UpTo(S, K, s[i]) \in SUBSET S
      BY DEF UpTo
    <2> QED
      BY <2>1, FS_Subset
  <1>8. /\ IsFiniteSet(Below(S, K, s[i]))
        /\ Cardinality(Below(S, K, s[i])) <= Cardinality(First(s, i - 1))
    BY <1>4, <1>6, FS_Subset
  <1>9. Cardinality(First(s, i)) <= Cardinality(UpTo(S, K, s[i]))
    BY <1>5, <1>7, FS_Subset
  <1> QED
    BY <1>6, <1>7, <1>8, <1>9, FS_CardinalityType

\* However equal keys are ordered, the same key is at the same place.
LEMMA SameKeys ==
    ASSUME NEW S, IsFiniteSet(S), NEW K \in [S -> Int],
           NEW s \in SetToSeqs(S), Sorted(s, K),
           NEW t \in SetToSeqs(S), Sorted(t, K), NEW i \in 1..Len(s)
    PROVE  K[s[i]] = K[t[i]]
  <1>1. ASSUME NEW u \in SetToSeqs(S), Sorted(u, K), NEW w \in SetToSeqs(S), Sorted(w, K),
               i \in 1..Len(u), i \in 1..Len(w)
        PROVE  ~(K[u[i]] < K[w[i]])
    <2> SUFFICES ASSUME K[u[i]] < K[w[i]] PROVE FALSE
      OBVIOUS
    <2>1. u[i] \in S /\ w[i] \in S
      BY <1>1, ListsAll, ElementOfSeq
    <2>2. UpTo(S, K, u[i]) \subseteq Below(S, K, w[i])
      BY <2>1 DEF UpTo, Below
    <2>3. Below(S, K, w[i]) \in SUBSET S /\ IsFiniteSet(Below(S, K, w[i]))
      <3>1. Below(S, K, w[i]) \in SUBSET S
        BY DEF Below
      <3> QED
        BY <3>1, FS_Subset
    <2>4. Cardinality(UpTo(S, K, u[i])) <= Cardinality(Below(S, K, w[i]))
      BY <2>2, <2>3, FS_Subset
    <2>5. /\ Cardinality(UpTo(S, K, u[i])) \in Nat /\ i <= Cardinality(UpTo(S, K, u[i]))
          /\ Cardinality(Below(S, K, w[i])) \in Nat /\ Cardinality(Below(S, K, w[i])) <= i - 1
      BY <1>1, Place
    <2> QED
      BY <2>4, <2>5
  <1>2. Len(s) = Len(t) /\ s[i] \in S /\ t[i] \in S
    BY ListsAll, ElementOfSeq
  <1>3. ~(K[s[i]] < K[t[i]]) /\ ~(K[t[i]] < K[s[i]])
    BY <1>1, <1>2
  <1> QED
    BY <1>2, <1>3

\* Where no other key is equal, there is one place for an element.
LEMMA OnePlace ==
    ASSUME NEW S, IsFiniteSet(S), NEW K \in [S -> Int], NEW s \in SetToSeqs(S),
           Sorted(s, K), NEW i \in 1..Len(s), \A q \in S : K[q] = K[s[i]] => q = s[i]
    PROVE  Cardinality(Below(S, K, s[i])) = i - 1
  <1>1. s[i] \in S
    BY ListsAll, ElementOfSeq
  <1>2. UpTo(S, K, s[i]) = Below(S, K, s[i]) \cup {s[i]}
    BY <1>1 DEF UpTo, Below
  <1>3. s[i] \notin Below(S, K, s[i])
    BY <1>1 DEF Below
  <1>4. Below(S, K, s[i]) \in SUBSET S
    BY DEF Below
  <1>5. Cardinality(UpTo(S, K, s[i])) = Cardinality(Below(S, K, s[i])) + 1
    BY <1>2, <1>3, <1>4, FS_Subset, FS_AddElement
  <1>6. /\ Cardinality(Below(S, K, s[i])) \in Nat
        /\ Cardinality(Below(S, K, s[i])) <= i - 1
        /\ i <= Cardinality(UpTo(S, K, s[i]))
    BY Place
  <1> QED
    BY <1>5, <1>6

-----------------------------------------------------------------------------
(* Type correctness.                                                        *)

Live == [uploaded_at : Times, updated_at : Times,
         status : {Pending, Processing, Done, Failed}, file_id : Files,
         updated_by : BOOLEAN]

LEMMA TimesAreInt == Times \subseteq Int
  BY MaxTimeAssumption DEF Times

LEMMA RowsLive ==
    ASSUME TypeOK
    PROVE  /\ Present \subseteq Rows /\ Visible \subseteq Present
           /\ \A r \in Present : table[r] \in Live
           /\ IsFiniteSet(Visible)
  <1>1. Present \subseteq Rows /\ Visible \subseteq Present
    BY DEF Present, Visible
  <1>2. ASSUME NEW r \in Present PROVE table[r] \in Live
    <2>1. table[r] \in {Absent, Deleted} \cup Live
      BY <1>1 DEF TypeOK, Live
    <2>2. table[r].status > 0
      BY DEF Present
    <2>3. ~(Absent.status > 0) /\ ~(Deleted.status > 0)
      BY DEF Absent, Deleted
    <2> QED
      BY <2>1, <2>2, <2>3
  <1>3. IsFiniteSet(Visible)
    <2>1. Visible \in SUBSET Rows
      BY <1>1
    <2> QED
      BY <2>1, RowsAssumption, FS_Subset
  <1> QED
    BY <1>1, <1>2, <1>3

\* What a client asks for.
LEMMA AskedType ==
    ASSUME TypeOK
    PROVE  /\ AskedSize(request.size) \in Nat \ {0}
           /\ AskedPage(page) \in Nat \ {0}
           /\ ParseSort(request.sort) \in [column : {"uploaded_at", "updated_at", "status"},
                                           descending : BOOLEAN]
  <1>1. /\ request.size \in Int /\ page \in Nat
        /\ request.sort \in [sign : {"", "+", "-"},
                             column : {"", "created_at", "updated_at", "status"}]
    BY RequestsAssumption DEF TypeOK
  <1>2. ParseSort(request.sort) \in [column : {"uploaded_at", "updated_at", "status"},
                                     descending : BOOLEAN]
    <2> DEFINE sort == request.sort
               C == {"uploaded_at", "updated_at", "status"}
    <2>1. DefaultOrder \in [column : C, descending : BOOLEAN]
      BY DEF DefaultOrder
    <2>2. \A c \in {"created_at", "updated_at", "status"} : Columns[c] \in C
      BY DEF Columns
    <2>3. DOMAIN Columns = {"created_at", "updated_at", "status"}
      BY DEF Columns
    <2>4. (sort.sign = "-") \in BOOLEAN
      OBVIOUS
    <2>5. sort.column \in DOMAIN Columns =>
              [column |-> Columns[sort.column], descending |-> sort.sign = "-"]
                  \in [column : C, descending : BOOLEAN]
      BY <2>2, <2>3, <2>4
    <2> HIDE DEF sort, C
    <2>6. ParseSort(sort) = DefaultOrder
          \/ (sort.column \in DOMAIN Columns /\
               ParseSort(sort) = [column |-> Columns[sort.column], descending |-> sort.sign = "-"])
      BY DEF ParseSort
    <2> QED
      BY <2>1, <2>5, <2>6 DEF sort, C
  <1>3. AskedSize(request.size) \in Nat \ {0}
    <2> DEFINE k == request.size
    <2>1. k \in Int
      BY <1>1
    <2> HIDE DEF k
    <2>2. AskedSize(k) \in Nat \ {0}
      BY <2>1 DEF AskedSize
    <2> QED
      BY <2>2 DEF k
  <1>4. AskedPage(page) \in Nat \ {0}
    <2>1. page \in Nat
      BY DEF TypeOK
    <2> QED
      BY <2>1 DEF AskedPage
  <1> QED
    BY <1>2, <1>3, <1>4

LEMMA TypeInit == Init => TypeOK
  <1> SUFFICES ASSUME Init PROVE TypeOK
    OBVIOUS
  <1>1. ASSUME NEW old \in Old
        PROVE  Row(old[1], old[2], old[3], "live", TRUE) \in Live
    <2>1. old[1] \in Times /\ old[2] \in Times /\ old[3] \in {Processing, Done, Failed}
      BY OldAssumption
    <2> QED
      BY <2>1 DEF Row, Live, Files
  <1>3. table \in [Rows -> {Absent, Deleted} \cup Live]
    <2> DEFINE R == {Row(old[1], old[2], old[3], "live", TRUE) : old \in Old}
    <2>1. R \subseteq Live
      BY <1>1
    <2>2. table \in [Rows -> {Absent} \cup R]
      BY DEF Init
    <2> HIDE DEF R
    <2> QED
      BY <2>1, <2>2
  <1>4. request \in Requests /\ page \in Nat
    <2>1. request \in Requests /\ request.page \in {0, 1}
      <3>1. request \in Requests
        BY DEF Init
      <3> QED
        BY <3>1, RequestsAssumption
    <2> QED
      BY <2>1 DEF Init
  <1>5. start \subseteq Rows
    BY DEF Init, Visible, Present
  <1> QED
    BY <1>3, <1>4, <1>5, EmptySeq DEF Init, TypeOK, Live

\* Where the page that is asked for begins.
Offset == (AskedPage(page) - 1) * AskedSize(request.size)

\* What the order compares, the greater the later in the listing.
SortKey ==
    [r \in Visible |-> IF ParseSort(request.sort).descending
                       THEN 0 - Key(r, ParseSort(request.sort))
                       ELSE Key(r, ParseSort(request.sort))]

\* The page with that data from the listing s: delivered whole, and with more
\* to follow.
PageSent(s, data, whole, more) ==
    /\ s \in SetToSeqs(Visible) /\ Sorted(s, SortKey)
    /\ data \in Seq(Visible)
    /\ Len(data) <= AskedSize(request.size)
    /\ \A i \in 1..Len(data) : Offset + i \in 1..Len(s) /\ data[i] = s[Offset + i]
    /\ more => /\ whole
               /\ Len(data) = AskedSize(request.size)
               /\ Offset + AskedSize(request.size) < Len(s)
    /\ whole /\ ~more => Len(s) <= Offset + Len(data)

LEMMA OffsetType ==
    ASSUME TypeOK
    PROVE  /\ Offset \in Nat
           /\ page = 0 => Offset = 0
           /\ page = 1 => Offset = 0
  <1> DEFINE n == AskedSize(request.size)
             p == AskedPage(page) - 1
  <1>1. n \in Nat /\ p \in Nat /\ (page \in {0, 1} => p = 0)
    BY AskedType DEF TypeOK, AskedPage
  <1>2. Offset = p * n
    BY DEF Offset
  <1> HIDE DEF n, p
  <1> QED
    BY <1>1, <1>2

LEMMA KeyType ==
    ASSUME TypeOK, NEW r \in Visible
    PROVE  Key(r, ParseSort(request.sort)) \in Int
  <1> DEFINE o == ParseSort(request.sort)
  <1>1. o.column \in {"uploaded_at", "updated_at", "status"}
    BY AskedType
  <1>2. table[r].uploaded_at \in Int /\ table[r].updated_at \in Int
    BY RowsLive, TimesAreInt DEF Live
  <1>3. table[r].status \in Int
    BY RowsLive DEF Live, Pending, Processing, Done, Failed
  <1>4. Key(r, o) = table[r][o.column]
    BY DEF Key
  <1> HIDE DEF o
  <1>5. Key(r, o) \in Int
    BY <1>1, <1>2, <1>3, <1>4
  <1> QED
    BY <1>5 DEF o

LEMMA SortKeyType ==
    ASSUME TypeOK
    PROVE  SortKey \in [Visible -> Int]
  BY KeyType DEF SortKey

LEMMA OrderIsSorted ==
    ASSUME TypeOK, NEW s \in Orders(Visible, ParseSort(request.sort))
    PROVE  /\ s \in SetToSeqs(Visible) /\ Sorted(s, SortKey)
           /\ s \in Seq(Visible) /\ Len(s) = Cardinality(Visible)
  <1> DEFINE o == ParseSort(request.sort)
  <1>1. s \in SetToSeqs(Visible) /\ Ordered(s, o)
    BY DEF Orders
  <1>2. s \in Seq(Visible) /\ Len(s) = Cardinality(Visible)
    BY <1>1, RowsLive, ListsAll
  <1>3. ASSUME NEW i \in 1..Len(s)
        PROVE  /\ Key(s[i], o) \in Int
               /\ SortKey[s[i]] = IF o.descending THEN 0 - Key(s[i], o) ELSE Key(s[i], o)
    <2>1. s[i] \in Visible
      BY <1>2, ElementOfSeq
    <2> QED
      BY <2>1, KeyType DEF SortKey
  <1>4. o.descending \in BOOLEAN
    BY AskedType
  <1>5. Sorted(s, SortKey)
    <2> SUFFICES ASSUME NEW i \in 1..Len(s), NEW j \in 1..Len(s), i < j
                 PROVE  SortKey[s[i]] <= SortKey[s[j]]
      BY DEF Sorted
    <2>1. IF o.descending THEN Key(s[i], o) >= Key(s[j], o)
                          ELSE Key(s[i], o) <= Key(s[j], o)
      BY <1>1 DEF Ordered
    <2> HIDE DEF o
    <2> QED
      BY <1>3, <1>4, <2>1
  <1> QED
    BY <1>1, <1>2, <1>5

\* What List does.
LEMMA Listed ==
    ASSUME TypeOK, List
    PROVE  \/ walk' = "failed" /\ UNCHANGED <<page, got, tied, events>>
           \/ \E s \in Orders(Visible, ParseSort(request.sort)) :
                  \E data \in Seq(Visible), whole \in BOOLEAN, more \in BOOLEAN :
                      /\ PageSent(s, data, whole, more)
                      /\ walk' = IF more THEN "reading" ELSE "done"
                      /\ got' = got \o data
                      /\ page' = page + 1
                      /\ tied' = tied \cup Sharing(ParseSort(request.sort))
                      /\ events' = events \cup (IF whole THEN {} ELSE {"broken"})
  <1> DEFINE n == AskedSize(request.size)
             o == ParseSort(request.sort)
  <1>1. PICK s \in Orders(Visible, o) :
            LET all == Window(s, AskedPage(page), n)
            IN \E rows \in Delivered(all) :
                   LET answer == PageOf(rows, n)
                   IN \/ /\ ~Scans(rows)
                         /\ walk' = "failed"
                         /\ UNCHANGED <<page, got, tied, events>>
                      \/ /\ Scans(rows)
                         /\ walk' = IF answer.next THEN "reading" ELSE "done"
                         /\ got' = got \o answer.data
                         /\ page' = page + 1
                         /\ tied' = tied \cup Sharing(o)
                         /\ events' = events \cup (IF rows = all THEN {} ELSE {"broken"})
    BY DEF List
  <1> DEFINE all == Slice(s, Offset, n + 1)
  <1>2. Window(s, AskedPage(page), n) = all
    BY DEF Window, Offset
  <1>3. PICK rows \in Delivered(all) :
            \/ /\ ~Scans(rows)
               /\ walk' = "failed"
               /\ UNCHANGED <<page, got, tied, events>>
            \/ /\ Scans(rows)
               /\ walk' = IF PageOf(rows, n).next THEN "reading" ELSE "done"
               /\ got' = got \o PageOf(rows, n).data
               /\ page' = page + 1
               /\ tied' = tied \cup Sharing(o)
               /\ events' = events \cup (IF rows = all THEN {} ELSE {"broken"})
    BY <1>1, <1>2
  <1>4. /\ s \in SetToSeqs(Visible) /\ Sorted(s, SortKey) /\ s \in Seq(Visible)
        /\ Offset \in Nat /\ n \in Nat \ {0}
    BY OrderIsSorted, OffsetType, AskedType
  <1> DEFINE data == PageOf(rows, n).data
             whole == (rows = all)
             more == PageOf(rows, n).next
  <1>5. /\ data \in Seq(Visible)
        /\ Len(data) <= n
        /\ \A i \in 1..Len(data) : Offset + i \in 1..Len(s) /\ data[i] = s[Offset + i]
        /\ more => rows = all /\ Len(data) = n /\ Offset + n < Len(s)
        /\ ~more /\ rows = all => Len(s) <= Offset + Len(data)
    <2> HIDE DEF n
    <2> QED
      BY <1>4, PageRead
  <1>6. more \in BOOLEAN /\ whole \in BOOLEAN
    BY DEF PageOf
  <1>7. PageSent(s, data, whole, more)
    <2> HIDE DEF data, more, all
    <2> QED
      BY <1>4, <1>5 DEF PageSent
  <1>8. CASE Scans(rows)
    <2>1. /\ walk' = IF more THEN "reading" ELSE "done"
          /\ got' = got \o data
          /\ page' = page + 1
          /\ tied' = tied \cup Sharing(o)
          /\ events' = events \cup (IF whole THEN {} ELSE {"broken"})
      BY <1>3, <1>8
    <2> HIDE DEF data, more, whole, all
    <2> QED
      BY <1>5, <1>6, <1>7, <2>1
  <1>9. CASE ~Scans(rows)
    BY <1>3, <1>9
  <1> QED
    BY <1>8, <1>9

\* What the other actions do to the row r: a new one, or one that is there
\* already with another updated_at, or one that goes.
Inserted(r) ==
    /\ table[r] = Absent
    /\ \E now \in Times, file \in {"none", "live"} :
           table' = [table EXCEPT ![r] = Row(now, now, Pending, file, FALSE)]

Updated(r) ==
    /\ r \in Present
    /\ \E now \in Times, status \in {Processing, Done, Failed}, file \in Files :
           /\ file \in {"live", table[r].file_id}
           /\ now < table[r].updated_at => "setBack" \in events'
           /\ table' = [table EXCEPT ![r] =
                           Row(table[r].uploaded_at, now, status, file, TRUE)]

Gone(r) ==
    /\ r \in Present
    /\ \E value \in {Deleted, [table[r] EXCEPT !.file_id = "removed"]} :
           table' = [table EXCEPT ![r] = value]

LEMMA Others ==
    ASSUME TypeOK, NEW r \in Rows,
           \/ InsertPdfExportHistory(r) \/ UpdatePdfExportStatus(r)
           \/ DeletePdfExportRecord(r) \/ RemoveFile(r)
    PROVE  /\ walk # "done" /\ changes' = changes + 1
           /\ UNCHANGED <<request, page, got, walk, start, tied>>
           /\ \/ /\ Inserted(r) \/ Updated(r)
                 /\ touched' = touched \cup {r}
                 /\ events' \in {events, events \cup {"setBack"}}
              \/ Gone(r) /\ events' = events \cup {"gone"} /\ UNCHANGED touched
  <1>1. CASE InsertPdfExportHistory(r)
    BY <1>1 DEF InsertPdfExportHistory, Changed, Inserted
  <1>2. CASE UpdatePdfExportStatus(r)
    <2>1. PICK now \in Times, to \in {Processing, Done, Failed} : UpdateAt(r, now, to)
      BY <1>2 DEF UpdatePdfExportStatus
    <2> DEFINE file == IF to = Done THEN "live" ELSE table[r].file_id
    <2>2. /\ r \in Present
          /\ table' = [table EXCEPT ![r] =
                          Row(table[r].uploaded_at, now, to, file, TRUE)]
          /\ walk # "done" /\ changes' = changes + 1
          /\ UNCHANGED <<request, page, got, walk, start, tied>>
          /\ touched' = touched \cup {r}
          /\ events' = events \cup (IF now < table[r].updated_at THEN {"setBack"} ELSE {})
      BY <1>2, <2>1 DEF UpdatePdfExportStatus, UpdateAt, Update, Changed
    <2>3. file \in Files /\ file \in {"live", table[r].file_id}
      BY <2>2, RowsLive DEF Live, Files
    <2> HIDE DEF file
    <2> QED
      BY <2>2, <2>3 DEF Updated
  <1>3. CASE DeletePdfExportRecord(r)
    BY <1>3 DEF DeletePdfExportRecord, Changed, Gone
  <1>4. CASE RemoveFile(r)
    BY <1>4 DEF RemoveFile, Changed, Gone
  <1> QED
    BY <1>1, <1>2, <1>3, <1>4

LEMMA TypeNext == TypeOK /\ [Next]_vars => TypeOK'
  <1> SUFFICES ASSUME TypeOK, [Next]_vars PROVE TypeOK'
    OBVIOUS
  <1>1. CASE UNCHANGED vars
    BY <1>1 DEF vars, TypeOK
  <1>2. CASE List
    <2>1. UNCHANGED <<table, request, start, touched, changes>>
      BY <1>2 DEF List
    <2>2. CASE walk' = "failed" /\ UNCHANGED <<page, got, tied, events>>
      BY <2>1, <2>2 DEF TypeOK
    <2>3. ASSUME NEW s, NEW data \in Seq(Visible), NEW whole \in BOOLEAN, NEW more \in BOOLEAN,
                 walk' = (IF more THEN "reading" ELSE "done"), got' = got \o data,
                 page' = page + 1,
                 tied' = tied \cup Sharing(ParseSort(request.sort)),
                 events' = events \cup (IF whole THEN {} ELSE {"broken"})
          PROVE  TypeOK'
      <3>1. data \in Seq(Rows)
        BY RowsLive, SeqMonotonic
      <3>2. got' \in Seq(Rows)
        BY <2>3, <3>1, ConcatProperties DEF TypeOK
      <3>3. walk' \in {"reading", "done", "failed"} /\ page' \in Nat
        BY <2>3 DEF TypeOK
      <3>4. tied' \subseteq Rows /\ events' \subseteq Events
        BY <2>3, RowsLive DEF TypeOK, Events, Sharing
      <3> QED
        BY <2>1, <3>2, <3>3, <3>4 DEF TypeOK
    <2> QED
      BY <1>2, <2>2, <2>3, Listed
  <1>3. ASSUME NEW r \in Rows,
               \/ InsertPdfExportHistory(r) \/ UpdatePdfExportStatus(r)
               \/ DeletePdfExportRecord(r) \/ RemoveFile(r)
        PROVE  TypeOK'
    <2>1. /\ UNCHANGED <<request, page, got, walk, start, tied>>
          /\ changes' = changes + 1
          /\ \/ /\ Inserted(r) \/ Updated(r)
                /\ touched' = touched \cup {r}
                /\ events' \in {events, events \cup {"setBack"}}
             \/ Gone(r) /\ events' = events \cup {"gone"} /\ UNCHANGED touched
      BY <1>3, Others
    <2>3. \A q \in Present : table[q] \in Live
      BY RowsLive
    <2>4. ASSUME NEW value \in {Absent, Deleted} \cup Live, table' = [table EXCEPT ![r] = value]
          PROVE  table' \in [Rows -> {Absent, Deleted} \cup Live]
      BY <2>4 DEF TypeOK, Live
    <2>5. table' \in [Rows -> {Absent, Deleted} \cup Live]
      <3>1. CASE Inserted(r)
        <4>1. PICK now \in Times, file \in {"none", "live"} :
                  table' = [table EXCEPT ![r] = Row(now, now, Pending, file, FALSE)]
          BY <3>1 DEF Inserted
        <4>2. Row(now, now, Pending, file, FALSE) \in Live
          BY DEF Row, Live, Files
        <4> QED
          BY <2>4, <4>1, <4>2
      <3>2. CASE Updated(r)
        <4>1. PICK now \in Times, status \in {Processing, Done, Failed}, file \in Files :
                  table' = [table EXCEPT ![r] =
                               Row(table[r].uploaded_at, now, status, file, TRUE)]
          BY <3>2 DEF Updated
        <4>2. table[r].uploaded_at \in Times
          BY <2>3, <3>2 DEF Updated, Live
        <4>3. Row(table[r].uploaded_at, now, status, file, TRUE) \in Live
          BY <4>2 DEF Row, Live
        <4> QED
          BY <2>4, <4>1, <4>3
      <3>3. CASE Gone(r)
        <4>1. [table[r] EXCEPT !.file_id = "removed"] \in Live
          BY <2>3, <3>3 DEF Gone, Live, Files
        <4> QED
          BY <2>4, <3>3, <4>1 DEF Gone
      <3> QED
        BY <2>1, <3>1, <3>2, <3>3
    <2>6. touched' \subseteq Rows /\ changes' \in Nat
      BY <2>1 DEF TypeOK
    <2>7. events' \subseteq Events
      <3>1. events \subseteq Events /\ "setBack" \in Events /\ "gone" \in Events
        BY DEF TypeOK, Events
      <3> QED
        BY <2>1, <3>1
    <2> QED
      BY <2>1, <2>5, <2>6, <2>7 DEF TypeOK, Live
  <1> QED
    BY <1>1, <1>2, <1>3 DEF Next

LEMMA TypeAlways == Spec => []TypeOK
  BY TypeInit, TypeNext, PTL DEF Spec

\* Rows keep to the columns of the table whatever is done to them, and a page
\* is asked for whatever the request left out.
THEOREM ListingTypeCorrect == Spec => []TypeOK
  BY TypeAlways

-----------------------------------------------------------------------------
(* The rows after a change.                                                 *)

\* After an insert or an update of r.
LEMMA RowsAfterWrite ==
    ASSUME TypeOK, NEW r \in Rows, Inserted(r) \/ Updated(r)
    PROVE  /\ \A q \in Rows \ {r} : table'[q] = table[q]
           /\ r \in Present =>
                  /\ table'[r].uploaded_at = table[r].uploaded_at
                  /\ "setBack" \notin events' =>
                         ~(table'[r].updated_at < table[r].updated_at)
           /\ Visible \subseteq Visible'
  <1>1. CASE Inserted(r)
    <2>1. PICK now \in Times, file \in {"none", "live"} :
              table' = [table EXCEPT ![r] = Row(now, now, Pending, file, FALSE)]
      BY <1>1 DEF Inserted
    <2>2. table'[r] = Row(now, now, Pending, file, FALSE)
          /\ \A q \in Rows \ {r} : table'[q] = table[q]
      BY <2>1 DEF TypeOK
    <2>3. r \notin Present
      BY <1>1 DEF Inserted, Present, Absent
    <2> QED
      BY <2>2, <2>3 DEF Visible, Row, Present
  <1>2. CASE Updated(r)
    <2>1. PICK now \in Times, status \in {Processing, Done, Failed}, file \in Files :
              /\ file \in {"live", table[r].file_id}
              /\ now < table[r].updated_at => "setBack" \in events'
              /\ table' = [table EXCEPT ![r] =
                              Row(table[r].uploaded_at, now, status, file, TRUE)]
      BY <1>2 DEF Updated
    <2>2. table'[r] = Row(table[r].uploaded_at, now, status, file, TRUE)
          /\ \A q \in Rows \ {r} : table'[q] = table[q]
      BY <2>1 DEF TypeOK
    <2>3. table'[r].uploaded_at = table[r].uploaded_at /\ table'[r].updated_at = now
      BY <2>2 DEF Row
    <2>4. table'[r].status > 0
      BY <2>2 DEF Row, Processing, Done, Failed
    <2>5. table[r].file_id # "removed" => table'[r].file_id # "removed"
      BY <2>1, <2>2 DEF Row
    <2>6. Visible \subseteq Visible'
      BY <2>2, <2>4, <2>5 DEF Visible, Present
    <2> QED
      BY <2>1, <2>2, <2>3, <2>6
  <1> QED
    BY <1>1, <1>2

\* After r was deleted or its file removed.
LEMMA RowsAfterGone ==
    ASSUME TypeOK, NEW r \in Rows, Gone(r)
    PROVE  /\ Present' \subseteq Present
           /\ Visible' \subseteq Visible
           /\ \A q \in Present' : /\ table'[q].uploaded_at = table[q].uploaded_at
                                  /\ table'[q].updated_at = table[q].updated_at
                                  /\ table'[q].status = table[q].status
  <1>1. PICK value \in {Deleted, [table[r] EXCEPT !.file_id = "removed"]} :
            table' = [table EXCEPT ![r] = value]
    BY DEF Gone
  <1>2. r \in Present /\ table[r] \in Live
    BY RowsLive DEF Gone
  <1>3. table'[r] = value /\ \A q \in Rows \ {r} : table'[q] = table[q]
    BY <1>1 DEF TypeOK
  <1>4. CASE value = Deleted
    <2>1. r \notin Present'
      BY <1>3, <1>4 DEF Present, Deleted
    <2> QED
      BY <1>3, <2>1 DEF Present, Visible
  <1>5. CASE value = [table[r] EXCEPT !.file_id = "removed"]
    <2>1. /\ value.uploaded_at = table[r].uploaded_at
          /\ value.updated_at = table[r].updated_at
          /\ value.status = table[r].status
          /\ value.file_id = "removed"
      BY <1>2, <1>5 DEF Live
    <2> QED
      BY <1>2, <1>3, <2>1 DEF Present, Visible
  <1> QED
    BY <1>1, <1>4, <1>5

-----------------------------------------------------------------------------
(* How far a row is from the top.                                           *)

Rank(r) == Cardinality(Below(Visible, SortKey, r))

LEMMA RankType ==
    ASSUME TypeOK, NEW r
    PROVE  Rank(r) \in Nat /\ IsFiniteSet(Below(Visible, SortKey, r))
  <1>1. Below(Visible, SortKey, r) \in SUBSET Visible
    BY DEF Below
  <1> QED
    BY <1>1, RowsLive, FS_Subset, FS_CardinalityType DEF Rank

\* A row that shares its key with no other stands where its rank says.
LEMMA RankIsPlace ==
    ASSUME TypeOK, NEW s \in SetToSeqs(Visible), Sorted(s, SortKey), NEW i \in 1..Len(s),
           s[i] \notin Sharing(ParseSort(request.sort))
    PROVE  s[i] \in Visible /\ Rank(s[i]) = i - 1
  <1> DEFINE o == ParseSort(request.sort)
  <1>1. IsFiniteSet(Visible) /\ SortKey \in [Visible -> Int]
    BY RowsLive, SortKeyType
  <1>2. s[i] \in Visible
    BY <1>1, ListsAll, ElementOfSeq
  <1>3. ASSUME NEW q \in Visible, SortKey[q] = SortKey[s[i]] PROVE q = s[i]
    <2> DEFINE a == Key(q, o)
               b == Key(s[i], o)
    <2>1. a \in Int /\ b \in Int /\ o.descending \in BOOLEAN
      BY <1>2, KeyType, AskedType
    <2>2. /\ SortKey[q] = IF o.descending THEN 0 - a ELSE a
          /\ SortKey[s[i]] = IF o.descending THEN 0 - b ELSE b
      BY <1>2 DEF SortKey
    <2>3. a = b
      <3> HIDE DEF a, b, o
      <3>1. CASE o.descending
        <4>1. 0 - a = 0 - b
          BY <1>3, <2>2, <3>1
        <4> QED
          BY <2>1, <4>1
      <3>2. CASE ~o.descending
        BY <1>3, <2>1, <2>2, <3>2
      <3> QED
        BY <3>1, <3>2
    <2> QED
      BY <1>2, <2>3 DEF Sharing
  <1>4. Cardinality(Below(Visible, SortKey, s[i])) = i - 1
    BY <1>1, <1>3, OnePlace
  <1> QED
    BY <1>2, <1>4 DEF Rank

\* Rows that go let others move up, never down.
LEMMA RankAfterGone ==
    ASSUME TypeOK, TypeOK', NEW r \in Rows, Gone(r), UNCHANGED request, NEW q \in Visible'
    PROVE  Rank(q)' <= Rank(q)
  <1>1. /\ Visible' \subseteq Visible /\ Visible' \subseteq Present'
        /\ \A p \in Present' : /\ table'[p].uploaded_at = table[p].uploaded_at
                               /\ table'[p].updated_at = table[p].updated_at
                               /\ table'[p].status = table[p].status
    BY RowsAfterGone DEF Visible
  <1>2. \A p \in Visible' : SortKey'[p] = SortKey[p]
    <2> TAKE p \in Visible'
    <2> DEFINE o == ParseSort(request.sort)
    <2>1. o' = o /\ o.column \in {"uploaded_at", "updated_at", "status"}
      BY AskedType
    <2>2. table'[p][o.column] = table[p][o.column]
      BY <1>1, <2>1
    <2>3. SortKey'[p] = IF o'.descending THEN 0 - table'[p][o'.column] ELSE table'[p][o'.column]
      BY DEF SortKey, Key
    <2>4. SortKey[p] = IF o.descending THEN 0 - table[p][o.column] ELSE table[p][o.column]
      BY <1>1 DEF SortKey, Key
    <2> HIDE DEF o
    <2> QED
      BY <2>1, <2>2, <2>3, <2>4
  <1>3. Below(Visible', SortKey', q) \subseteq Below(Visible, SortKey, q)
    BY <1>1, <1>2 DEF Below
  <1>4. Rank(q)' = Cardinality(Below(Visible', SortKey', q))
    BY DEF Rank
  <1> QED
    BY <1>3, <1>4, RankType, FS_Subset DEF Rank

\* A page of the walk: no row twice, and each that shares its key with no other
\* has a rank that belongs to this page.
LEMMA PageRanks ==
    ASSUME TypeOK, NEW s, NEW data, NEW whole, NEW more, PageSent(s, data, whole, more)
    PROVE  /\ Len(data) \in Nat
           /\ \A i, j \in 1..Len(data) : data[i] = data[j] => i = j
           /\ \A i \in 1..Len(data) : data[i] \notin Sharing(ParseSort(request.sort)) =>
                  data[i] \in Visible /\ Rank(data[i]) = Offset + i - 1
  <1>1. /\ s \in SetToSeqs(Visible) /\ Sorted(s, SortKey) /\ data \in Seq(Visible)
        /\ \A i \in 1..Len(data) : Offset + i \in 1..Len(s) /\ data[i] = s[Offset + i]
    BY DEF PageSent
  <1>2. Offset \in Nat /\ Len(data) \in Nat
    BY <1>1, OffsetType
  <1>3. ASSUME NEW i \in 1..Len(data), data[i] \notin Sharing(ParseSort(request.sort))
        PROVE  data[i] \in Visible /\ Rank(data[i]) = Offset + i - 1
    <2> DEFINE k == Offset + i
    <2>1. k \in 1..Len(s) /\ data[i] = s[k]
      BY <1>1
    <2>2. k - 1 = Offset + i - 1
      BY <1>2
    <2> HIDE DEF k
    <2>3. s[k] \in Visible /\ Rank(s[k]) = k - 1
      BY <1>1, <1>3, <2>1, RankIsPlace
    <2> QED
      BY <2>1, <2>2, <2>3
  <1>4. ASSUME NEW i \in 1..Len(data), NEW j \in 1..Len(data), data[i] = data[j]
        PROVE  i = j
    <2>1. \A k, l \in 1..Len(s) : s[k] = s[l] => k = l
      BY <1>1, RowsLive, ListsAll
    <2>2. Offset + i = Offset + j
      BY <1>1, <1>4, <2>1
    <2> QED
      BY <1>2, <2>2
  <1> QED
    BY <1>2, <1>3, <1>4

\* The next page begins where this one ends.
LEMMA OffsetNext ==
    ASSUME TypeOK, page' = page + 1, UNCHANGED request
    PROVE  /\ page # 0 => Offset' = Offset + AskedSize(request.size)
           /\ page = 0 => Offset' = 0 /\ Offset = 0
           /\ Offset' \in Nat
           /\ Offset' <= Offset + AskedSize(request.size)
  <1> DEFINE n == AskedSize(request.size)
  <1>1. n \in Nat \ {0} /\ page \in Nat
    BY AskedType DEF TypeOK
  <1>2. Offset = (AskedPage(page) - 1) * n /\ Offset' = (AskedPage(page + 1) - 1) * n
    BY DEF Offset
  <1>3. CASE page = 0
    <2>1. AskedPage(page) - 1 = 0 /\ AskedPage(page + 1) - 1 = 0
      BY <1>3 DEF AskedPage
    <2> HIDE DEF n
    <2>2. Offset = 0 /\ Offset' = 0
      BY <1>1, <1>2, <2>1
    <2> QED
      BY <1>1, <1>3, <2>2 DEF n
  <1>4. CASE page # 0
    <2>1. AskedPage(page) - 1 = page - 1 /\ AskedPage(page + 1) - 1 = page
      BY <1>1, <1>4 DEF AskedPage
    <2> HIDE DEF n
    <2>2. Offset = (page - 1) * n /\ Offset' = page * n
      BY <1>2, <2>1
    <2>3. page * n = (page - 1) * n + n
      BY <1>1
    <2>4. (page - 1) * n \in Nat /\ page * n \in Nat
      BY <1>1, <1>4
    <2> QED
      BY <1>1, <1>4, <2>2, <2>3, <2>4 DEF n
  <1> QED
    BY <1>3, <1>4

\* As long as nothing is inserted or updated, what was sent ranks before the
\* page to come, but for rows whose place the order leaves open.
SentOnce ==
    /\ page # 0
    /\ \A i, j \in 1..Len(got) : got[i] = got[j] /\ got[i] \notin tied => i = j
    /\ \A i \in 1..Len(got) : got[i] \in Visible \ tied => Rank(got[i]) < Offset

SentBefore == touched = {} /\ request.page = 1 => SentOnce

LEMMA SentAfterPage ==
    ASSUME TypeOK, SentOnce, List,
           NEW s, NEW data, NEW whole, NEW more, PageSent(s, data, whole, more),
           got' = got \o data, page' = page + 1,
           tied' = tied \cup Sharing(ParseSort(request.sort))
    PROVE  SentOnce'
  <1> DEFINE open == Sharing(ParseSort(request.sort))
  <1>1. /\ page # 0 /\ page \in Nat /\ got \in Seq(Rows)
        /\ \A i, j \in 1..Len(got) : got[i] = got[j] /\ got[i] \notin tied => i = j
        /\ \A i \in 1..Len(got) : got[i] \in Visible \ tied => Rank(got[i]) < Offset
    BY DEF SentOnce, TypeOK
  <1>2. /\ data \in Seq(Rows) /\ Len(data) \in Nat /\ Len(data) <= AskedSize(request.size)
        /\ \A i, j \in 1..Len(data) : data[i] = data[j] => i = j
        /\ \A i \in 1..Len(data) :
               data[i] \notin open => data[i] \in Visible /\ Rank(data[i]) = Offset + i - 1
    <2>1. data \in Seq(Rows)
      BY RowsLive, SeqMonotonic DEF PageSent
    <2> QED
      BY <2>1, PageRanks DEF PageSent
  <1>3. UNCHANGED <<table, request>>
    BY DEF List
  <1>4. /\ Offset \in Nat /\ AskedSize(request.size) \in Nat
        /\ Offset' = Offset + AskedSize(request.size)
    BY <1>1, <1>3, OffsetNext, OffsetType, AskedType
  <1>5. Visible' = Visible /\ \A q : Rank(q)' = Rank(q)
    <2>1. SortKey' = SortKey /\ Visible' = Visible
      BY <1>3 DEF SortKey, Key, Visible, Present
    <2> QED
      BY <2>1 DEF Rank, Below
  <1>6. /\ got' \in Seq(Rows) /\ Len(got) \in Nat
        /\ Len(got') = Len(got) + Len(data)
        /\ \A i \in 1..Len(got) + Len(data) :
               got'[i] = IF i <= Len(got) THEN got[i] ELSE data[i - Len(got)]
    BY <1>1, <1>2, ConcatProperties
  <1>7. ASSUME NEW i \in 1..Len(got')
        PROVE  \/ i \in 1..Len(got) /\ got'[i] = got[i]
               \/ i - Len(got) \in 1..Len(data) /\ got'[i] = data[i - Len(got)]
    BY <1>2, <1>6
  <1> HIDE DEF open
  <1>8. tied' = tied \cup open
    BY DEF open
  <1>9. ASSUME NEW i \in 1..Len(got'), got'[i] \in Visible \ tied'
        PROVE  Rank(got'[i]) < Offset'
    <2>1. CASE i \in 1..Len(got) /\ got'[i] = got[i]
      <3>1. Rank(got'[i]) < Offset /\ Rank(got'[i]) \in Nat
        BY <1>1, <1>8, <1>9, <2>1, RankType
      <3> QED
        BY <1>4, <3>1
    <2>2. CASE i - Len(got) \in 1..Len(data) /\ got'[i] = data[i - Len(got)]
      <3> DEFINE j == i - Len(got)
      <3>1. j \in 1..Len(data)
        BY <2>2
      <3> HIDE DEF j
      <3>2. Rank(data[j]) = Offset + j - 1
        BY <1>2, <1>8, <1>9, <2>2, <3>1 DEF j
      <3>3. Offset + j - 1 < Offset'
        BY <1>2, <1>4, <3>1
      <3> QED
        BY <2>2, <3>2, <3>3 DEF j
    <2> QED
      BY <1>7, <2>1, <2>2
  <1>10. ASSUME NEW i \in 1..Len(got'), NEW j \in 1..Len(got'), got'[i] = got'[j],
                got'[i] \notin tied', i < j
         PROVE  FALSE
    <2>1. CASE j \in 1..Len(got)
      <3>1. i \in 1..Len(got) /\ got[i] = got[j] /\ got[i] \notin tied
        BY <1>6, <1>8, <1>10, <2>1
      <3>2. i = j
        BY <1>1, <2>1, <3>1
      <3> QED
        BY <1>6, <1>10, <2>1, <3>2
    <2>2. CASE i \in 1..Len(got) /\ j \notin 1..Len(got)
      <3> DEFINE k == j - Len(got)
      <3>1. k \in 1..Len(data) /\ got'[j] = data[k] /\ got'[i] = got[i]
        BY <1>7, <1>6, <2>2
      <3> HIDE DEF k
      <3>2. data[k] \in Visible /\ Rank(data[k]) = Offset + k - 1
        BY <1>2, <1>8, <1>10, <3>1
      <3>3. got[i] = data[k] /\ got[i] \in Visible \ tied
        BY <1>8, <1>10, <3>1, <3>2
      <3>4. Rank(got[i]) < Offset
        BY <1>1, <2>2, <3>3
      <3>5. Offset + k - 1 >= Offset
        BY <1>4, <3>1
      <3> QED
        BY <1>4, <3>1, <3>2, <3>3, <3>4, <3>5
    <2>3. CASE i \notin 1..Len(got)
      <3> DEFINE k == i - Len(got)
                 l == j - Len(got)
      <3>1. k \in 1..Len(data) /\ got'[i] = data[k]
        BY <1>7, <2>3
      <3>2. l \in 1..Len(data) /\ got'[j] = data[l]
        BY <1>6, <1>7, <1>10, <2>3
      <3>3. k # l
        BY <1>6, <1>10
      <3> HIDE DEF k, l
      <3> QED
        BY <1>2, <1>10, <3>1, <3>2, <3>3
    <2> QED
      BY <2>1, <2>2, <2>3
  <1>11. \A i, j \in 1..Len(got') : got'[i] = got'[j] /\ got'[i] \notin tied' => i = j
    <2> SUFFICES ASSUME NEW i \in 1..Len(got'), NEW j \in 1..Len(got'),
                        got'[i] = got'[j], got'[i] \notin tied', i # j
                 PROVE  FALSE
      OBVIOUS
    <2>1. Len(got') \in Nat
      BY <1>6, <1>2
    <2>2. i < j \/ j < i
      BY <2>1
    <2> QED
      BY <1>10, <2>2
  <1> QED
    BY <1>1, <1>5, <1>9, <1>11 DEF SentOnce

LEMMA SentAfterGone ==
    ASSUME TypeOK, TypeOK', SentOnce, NEW r \in Rows, Gone(r),
           UNCHANGED <<request, page, got, tied>>
    PROVE  SentOnce'
  <1>1. Offset' = Offset /\ Visible' \subseteq Visible
    BY RowsAfterGone DEF Offset
  <1>2. ASSUME NEW i \in 1..Len(got), got[i] \in Visible' \ tied
        PROVE  Rank(got[i])' < Offset
    <2> DEFINE q == got[i]
    <2>1. q \in Visible /\ Rank(q) < Offset
      BY <1>1, <1>2 DEF SentOnce
    <2>2. \A p \in Visible' : Rank(p)' <= Rank(p)
      BY RankAfterGone
    <2>3. Rank(got[i])' = Cardinality(Below(Visible', SortKey', q))
      BY DEF Rank
    <2>4. Rank(got[i])' <= Rank(q)
      <3>1. \A p : Rank(p)' = Cardinality(Below(Visible', SortKey', p))
        BY DEF Rank
      <3> QED
        BY <1>2, <2>2, <2>3, <3>1
    <2>5. Rank(got[i])' \in Nat
      <3>1. IsFiniteSet(Visible')
        BY RowsLive, <1>1, FS_Subset
      <3>2. \A p : Below(Visible', SortKey', p) \in SUBSET Visible'
        BY DEF Below
      <3>3. \A p : Cardinality(Below(Visible', SortKey', p)) \in Nat
        BY <3>1, <3>2, FS_Subset, FS_CardinalityType
      <3> QED
        BY <2>3, <3>3
    <2>6. Rank(q) \in Nat /\ Offset \in Nat
      BY RankType, OffsetType
    <2> QED
      BY <2>1, <2>4, <2>5, <2>6
  <1> QED
    BY <1>1, <1>2 DEF SentOnce

LEMMA SentNext ==
    ASSUME TypeOK, TypeOK', SentBefore, [Next]_vars
    PROVE  SentBefore'
  <1> SUFFICES ASSUME touched' = {}, request'.page = 1 PROVE SentOnce'
    BY DEF SentBefore
  <1>1. UNCHANGED request
    BY DEF Next, List, InsertPdfExportHistory, UpdatePdfExportStatus, DeletePdfExportRecord,
           RemoveFile, Changed, UpdateAt, vars
  <1>2. CASE UNCHANGED vars \/ (List /\ UNCHANGED <<page, got, tied>>)
    <2>1. /\ UNCHANGED <<table, request, page, got, tied, touched>>
          /\ Visible' = Visible /\ Offset' = Offset
      BY <1>2 DEF vars, List, Visible, Present, Offset
    <2>2. \A q : Rank(q)' = Rank(q)
      <3>1. SortKey' = SortKey
        BY <2>1 DEF SortKey, Key
      <3> QED
        BY <2>1, <3>1 DEF Rank, Below
    <2>3. SentOnce
      BY <2>1 DEF SentBefore
    <2> QED
      BY <2>1, <2>2, <2>3 DEF SentOnce
  <1>3. CASE List
    <2>1. SentOnce
      BY <1>1, <1>3 DEF SentBefore, List
    <2>2. ASSUME NEW s, NEW data, NEW whole, NEW more, PageSent(s, data, whole, more),
                 got' = got \o data, page' = page + 1,
                 tied' = tied \cup Sharing(ParseSort(request.sort))
          PROVE  SentOnce'
      BY <1>3, <2>1, <2>2, SentAfterPage
    <2> QED
      BY <1>2, <1>3, <2>2, Listed
  <1>4. ASSUME NEW r \in Rows,
               \/ InsertPdfExportHistory(r) \/ UpdatePdfExportStatus(r)
               \/ DeletePdfExportRecord(r) \/ RemoveFile(r)
        PROVE  SentOnce'
    <2>1. Gone(r) /\ UNCHANGED <<page, got, tied, touched>>
      BY <1>4, Others
    <2>2. SentOnce
      BY <1>1, <2>1 DEF SentBefore
    <2> QED
      BY <1>1, <2>1, <2>2, SentAfterGone
  <1> QED
    BY <1>2, <1>3, <1>4 DEF Next

\* Rows that go, connections that break and pages that fail do not make a
\* client see a row twice whose place the order settled on every page it read:
\* such a row ranks before the next page for as long as nothing is inserted or
\* updated.
THEOREM NoRowTwice == Spec => []NothingTwice
  <1>1. Init => SentBefore
    <2> SUFFICES ASSUME Init, request.page = 1 PROVE SentOnce
      BY DEF SentBefore
    <2>1. got = <<>> /\ page = 1
      BY DEF Init
    <2>2. Len(got) = 0
      BY <2>1, EmptySeq
    <2> QED
      BY <2>1, <2>2 DEF SentOnce
  <1>2. TypeOK /\ TypeOK' /\ SentBefore /\ [Next]_vars => SentBefore'
    BY SentNext
  <1>3. SentBefore => NothingTwice
    BY DEF SentBefore, SentOnce, NothingTwice
  <1> QED
    BY <1>1, <1>2, <1>3, TypeAlways, PTL DEF Spec

-----------------------------------------------------------------------------
(* What is left alone is seen.                                              *)

\* The two kinds of order that MovesNoneUp names.
LEMMA SteadyOrders ==
    ASSUME TypeOK, MovesNoneUp
    PROVE  LET o == ParseSort(request.sort)
           IN /\ o.descending \in BOOLEAN
              /\ \/ o.column = "uploaded_at"
                 \/ o.column = "updated_at" /\ o.descending /\ "setBack" \notin events
  <1> DEFINE sort == request.sort
             o == ParseSort(sort)
  <1>1. /\ o.column \in {"uploaded_at", "updated_at", "status"} /\ o.descending \in BOOLEAN
        /\ sort \in [sign : {"", "+", "-"},
                     column : {"", "created_at", "updated_at", "status"}]
    BY AskedType, RequestsAssumption DEF TypeOK
  <1>2. CASE sort \in [sign : {"+", "-"}, column : {"created_at"}]
    <2>1. sort.sign \in {"+", "-"} /\ sort.column = "created_at"
      BY <1>2
    <2>2. o = [column |-> Columns["created_at"], descending |-> sort.sign = "-"]
      BY <2>1 DEF ParseSort, Columns
    <2>3. o.column = "uploaded_at"
      BY <2>2 DEF Columns
    <2> QED
      BY <1>1, <2>3
  <1>3. CASE /\ o.column # "status" /\ "setBack" \notin events
             /\ sort # [sign |-> "+", column |-> "updated_at"]
    <2>1. ~(sort.sign = "+" /\ sort.column = "updated_at")
      BY <1>1, <1>3
    <2>2. o.column = "updated_at" => o.descending
      <3>1. CASE sort.sign \in {"+", "-"} /\ sort.column \in DOMAIN Columns
        <4>1. o = [column |-> Columns[sort.column], descending |-> sort.sign = "-"]
          BY <3>1 DEF ParseSort
        <4>2. o.column = Columns[sort.column]
          BY <4>1
        <4>3. o.descending = (sort.sign = "-")
          BY <3>1 DEF ParseSort
        <4>4. Columns[sort.column] = "updated_at" => sort.column = "updated_at"
          BY <3>1 DEF Columns
        <4> HIDE DEF o, sort
        <4> QED
          BY <2>1, <3>1, <4>2, <4>3, <4>4
      <3>2. CASE ~(sort.sign \in {"+", "-"} /\ sort.column \in DOMAIN Columns)
        BY <3>2 DEF ParseSort, DefaultOrder
      <3> QED
        BY <3>1, <3>2
    <2> QED
      BY <1>1, <1>3, <2>2
  <1> QED
    BY <1>2, <1>3 DEF MovesNoneUp

\* Rows that are written do not let others move up.
LEMMA RankAfterWrite ==
    ASSUME TypeOK, TypeOK', NEW r \in Rows, Inserted(r) \/ Updated(r), UNCHANGED request,
           events \subseteq events', MovesNoneUp', NEW q \in Visible \ {r}
    PROVE  q \in Visible' /\ Rank(q) <= Rank(q)'
  <1> DEFINE o == ParseSort(request.sort)
  <1>1. /\ \A p \in Rows \ {r} : table'[p] = table[p]
        /\ r \in Present =>
               /\ table'[r].uploaded_at = table[r].uploaded_at
               /\ "setBack" \notin events' => ~(table'[r].updated_at < table[r].updated_at)
        /\ Visible \subseteq Visible' /\ q \in Visible' /\ Visible \subseteq Rows
    BY RowsAfterWrite, RowsLive
  <1>2. o' = o
    OBVIOUS
  <1>3. /\ o.descending \in BOOLEAN
        /\ \/ o.column = "uploaded_at"
           \/ o.column = "updated_at" /\ o.descending /\ "setBack" \notin events'
    <2>1. \/ request'.sort \in [sign : {"+", "-"}, column : {"created_at"}]
          \/ "setBack" \notin events'
      BY DEF MovesNoneUp
    <2>2. MovesNoneUp
      BY DEF MovesNoneUp
    <2>3. request.sort \in [sign : {"+", "-"}, column : {"created_at"}]
              => o.column = "uploaded_at"
      BY DEF ParseSort, Columns
    <2> QED
      BY <2>1, <2>2, <2>3, SteadyOrders
  <1>4. /\ \A p \in Visible : SortKey[p] = IF o.descending THEN 0 - table[p][o.column]
                                                           ELSE table[p][o.column]
        /\ \A p \in Visible' : SortKey'[p] = IF o.descending THEN 0 - table'[p][o.column]
                                                             ELSE table'[p][o.column]
    BY <1>2 DEF SortKey, Key
  <1>5. SortKey'[q] = SortKey[q]
    BY <1>1, <1>4
  <1>6. ASSUME NEW p \in Below(Visible, SortKey, q) PROVE p \in Below(Visible', SortKey', q)
    <2>1. p \in Visible /\ p \in Visible' /\ SortKey[p] < SortKey[q]
      BY <1>1 DEF Below
    <2>2. SortKey'[p] \in Int /\ SortKey'[p] <= SortKey[p]
      <3>1. SortKey[p] \in Int
        BY <2>1, SortKeyType
      <3>2. CASE p # r
        BY <1>1, <1>4, <2>1, <3>1, <3>2
      <3>3. CASE p = r /\ o.column = "uploaded_at"
        <4>1. table'[p].uploaded_at = table[p].uploaded_at
          BY <1>1, <2>1, <3>3 DEF Visible
        <4> QED
          BY <1>4, <2>1, <3>1, <3>3, <4>1
      <3>4. CASE p = r /\ o.column = "updated_at" /\ o.descending /\ "setBack" \notin events'
        <4> DEFINE before == table[p].updated_at
                   after == table'[p].updated_at
        <4>1. ~(after < before)
          BY <1>1, <2>1, <3>4 DEF Visible
        <4>2. before \in Int /\ after \in Int
          <5>1. p \in Present /\ table[p] \in Live
            BY <2>1, RowsLive
          <5>2. p \in Present' /\ p \in Rows
            BY <1>1, <2>1 DEF Visible
          <5>3. table'[p] \in {Absent, Deleted} \cup Live /\ table'[p].status > 0
            BY <5>2 DEF TypeOK, Live, Present
          <5>4. table'[p] \in Live
            <6>1. ~(Absent.status > 0) /\ ~(Deleted.status > 0)
              BY DEF Absent, Deleted
            <6> QED
              BY <5>3, <6>1
          <5> QED
            BY <5>1, <5>4, TimesAreInt DEF Live
        <4>3. SortKey[p] = 0 - before /\ SortKey'[p] = 0 - after
          BY <1>4, <2>1, <3>4
        <4> HIDE DEF before, after
        <4> QED
          BY <4>1, <4>2, <4>3
      <3> QED
        BY <1>3, <3>2, <3>3, <3>4
    <2>3. SortKey[p] \in Int /\ SortKey[q] \in Int
      BY <2>1, SortKeyType
    <2> QED
      BY <1>5, <2>1, <2>2, <2>3 DEF Below
  <1>7. IsFiniteSet(Below(Visible', SortKey', q))
    <2>1. Visible' \in SUBSET Rows
      BY DEF Visible, Present
    <2>2. Below(Visible', SortKey', q) \in SUBSET Visible'
      BY DEF Below
    <2> QED
      BY <2>1, <2>2, RowsAssumption, FS_Subset
  <1>8. Rank(q)' = Cardinality(Below(Visible', SortKey', q))
    BY DEF Rank
  <1>9. Cardinality(Below(Visible, SortKey, q)) <= Cardinality(Below(Visible', SortKey', q))
    BY <1>6, <1>7, FS_Subset
  <1> QED
    BY <1>1, <1>8, <1>9 DEF Rank

\* Until a read breaks off or a row disappears, each row that was left alone
\* and shared its key with no other is sent, or is on a page to come.
SeenOrAhead ==
    events \cap {"broken", "gone"} = {} /\ MovesNoneUp =>
        \A r \in start \ touched :
            /\ r \in Visible
            /\ \/ r \in Range(got) \cup tied
               \/ walk # "done" /\ Rank(r) >= Offset

LEMMA AheadInit == Init => SeenOrAhead
  <1> SUFFICES ASSUME Init PROVE SeenOrAhead
    OBVIOUS
  <1>1. TypeOK
    BY TypeInit
  <1>2. page = request.page /\ request.page \in {0, 1}
    <2>1. request \in Requests
      BY DEF Init
    <2> QED
      BY <2>1, RequestsAssumption DEF Init
  <1>3. Offset = 0
    BY <1>1, <1>2, OffsetType
  <1>4. \A r : Rank(r) \in Nat
    BY <1>1, RankType
  <1> QED
    BY <1>3, <1>4 DEF Init, SeenOrAhead

LEMMA AheadAfterPage ==
    ASSUME TypeOK, SeenOrAhead, List, events' \cap {"broken", "gone"} = {}, MovesNoneUp,
           NEW s, NEW data, NEW whole \in BOOLEAN, NEW more \in BOOLEAN,
           PageSent(s, data, whole, more),
           walk' = IF more THEN "reading" ELSE "done",
           got' = got \o data, page' = page + 1,
           tied' = tied \cup Sharing(ParseSort(request.sort)),
           events' = events \cup (IF whole THEN {} ELSE {"broken"}),
           NEW r \in start \ touched
    PROVE  /\ r \in Visible
           /\ r \in Range(got') \cup tied' \/ (walk' # "done" /\ Rank(r) >= Offset')
  <1>1. whole /\ events \cap {"broken", "gone"} = {} /\ UNCHANGED request
    BY DEF List
  <1>2. r \in Visible /\ (r \in Range(got) \cup tied \/ Rank(r) >= Offset)
    BY <1>1 DEF SeenOrAhead
  <1>3. /\ data \in Seq(Rows) /\ Len(data) \in Nat
        /\ s \in SetToSeqs(Visible) /\ Sorted(s, SortKey)
        /\ \A i \in 1..Len(data) : Offset + i \in 1..Len(s) /\ data[i] = s[Offset + i]
        /\ more => Len(data) = AskedSize(request.size)
        /\ ~more => Len(s) <= Offset + Len(data)
    <2>1. data \in Seq(Visible)
      BY DEF PageSent
    <2>2. data \in Seq(Rows)
      BY <2>1, RowsLive, SeqMonotonic
    <2> QED
      BY <1>1, <2>1, <2>2 DEF PageSent
  <1>4. PICK i \in 1..Len(s) : s[i] = r
    BY <1>2, <1>3, RowsLive, ListsAll
  <1>5. Len(s) \in Nat /\ (r \notin tied' => Rank(r) = i - 1)
    BY <1>3, <1>4, RankIsPlace, RowsLive, ListsAll
  <1>6. /\ Offset \in Nat /\ Offset' \in Nat /\ AskedSize(request.size) \in Nat
        /\ Offset' <= Offset + AskedSize(request.size)
    BY <1>1, OffsetType, OffsetNext, AskedType
  <1>7. /\ got \in Seq(Rows) /\ got' \in Seq(Rows)
        /\ Len(got) \in Nat /\ Len(got') = Len(got) + Len(data)
        /\ \A j \in 1..Len(got) + Len(data) :
               got'[j] = IF j <= Len(got) THEN got[j] ELSE data[j - Len(got)]
    BY <1>3, ConcatProperties DEF TypeOK
  <1>8. DOMAIN got = 1..Len(got) /\ DOMAIN got' = 1..Len(got')
    BY <1>7, LenProperties
  <1>9. CASE r \in Range(got)
    <2>1. PICK j \in 1..Len(got) : got[j] = r
      BY <1>8, <1>9 DEF Range
    <2>2. j \in 1..Len(got') /\ got'[j] = r
      BY <1>7, <2>1
    <2> QED
      BY <1>2, <1>8, <2>2 DEF Range
  <1>10. CASE r \notin tied' /\ Rank(r) >= Offset /\ i <= Offset + Len(data)
    <2> DEFINE k == i - Offset
               j == Len(got) + k
    <2>1. k \in 1..Len(data) /\ Offset + k = i
      BY <1>3, <1>5, <1>6, <1>10
    <2>2. j \in 1..Len(got') /\ ~(j <= Len(got)) /\ j - Len(got) = k
      BY <1>3, <1>7, <2>1
    <2>3. data[k] = r
      <3> HIDE DEF k
      <3>1. data[k] = s[Offset + k]
        BY <1>3, <2>1
      <3> QED
        BY <1>4, <2>1, <3>1
    <2>4. got'[j] = data[j - Len(got)]
      <3> HIDE DEF j
      <3> QED
        BY <1>7, <2>2
    <2>5. got'[j] = r
      <3> HIDE DEF j, k
      <3> QED
        BY <2>2, <2>3, <2>4
    <2> HIDE DEF j
    <2> QED
      BY <1>2, <1>8, <2>2, <2>5 DEF Range
  <1>11. CASE r \notin tied' /\ Rank(r) >= Offset /\ ~(i <= Offset + Len(data))
    <2>1. more
      BY <1>3, <1>5, <1>6, <1>11
    <2>2. Rank(r) >= Offset'
      BY <1>3, <1>5, <1>6, <1>11, <2>1
    <2> QED
      BY <1>2, <2>1, <2>2
  <1> QED
    BY <1>2, <1>9, <1>10, <1>11

LEMMA AheadNext ==
    ASSUME TypeOK, TypeOK', SeenOrAhead, [Next]_vars
    PROVE  SeenOrAhead'
  <1> SUFFICES ASSUME events' \cap {"broken", "gone"} = {}, MovesNoneUp',
                      NEW r \in start' \ touched'
               PROVE  /\ r \in Visible'
                      /\ r \in Range(got') \cup tied' \/ (walk' # "done" /\ Rank(r)' >= Offset')
    BY DEF SeenOrAhead
  <1>1. /\ UNCHANGED <<request, start>> /\ events \subseteq events'
        /\ events \cap {"broken", "gone"} = {} /\ MovesNoneUp
    <2>1. UNCHANGED <<request, start>> /\ events \subseteq events'
      BY DEF Next, List, InsertPdfExportHistory, UpdatePdfExportStatus, DeletePdfExportRecord,
             RemoveFile, Changed, UpdateAt, vars
    <2> QED
      BY <2>1 DEF MovesNoneUp
  <1>2. CASE UNCHANGED vars \/ List
    <2>1. Visible' = Visible
      BY <1>2 DEF List, vars, Visible, Present
    <2>2. SortKey' = SortKey
      BY <1>2, <2>1 DEF List, vars, SortKey, Key
    <2>3. \A q : Rank(q)' = Rank(q)
      BY <2>1, <2>2 DEF Rank, Below
    <2>4. CASE UNCHANGED vars
      BY <1>1, <2>1, <2>3, <2>4 DEF vars, SeenOrAhead, Offset
    <2>5. CASE List
      <3>1. r \in start \ touched
        BY <1>1, <2>5 DEF List
      <3>2. CASE walk' = "failed" /\ UNCHANGED <<page, got, tied, events>>
        <4>1. Offset' = Offset /\ walk # "done"
          BY <1>1, <2>5, <3>2 DEF Offset, List
        <4> QED
          BY <1>1, <2>1, <2>3, <3>1, <3>2, <4>1 DEF SeenOrAhead
      <3>3. ASSUME NEW s, NEW data, NEW whole \in BOOLEAN, NEW more \in BOOLEAN,
                   PageSent(s, data, whole, more),
                   walk' = (IF more THEN "reading" ELSE "done"), got' = got \o data,
                   page' = page + 1,
                   tied' = tied \cup Sharing(ParseSort(request.sort)),
                   events' = events \cup (IF whole THEN {} ELSE {"broken"})
            PROVE  /\ r \in Visible'
                   /\ r \in Range(got') \cup tied' \/ (walk' # "done" /\ Rank(r)' >= Offset')
        <4>1. r \in Visible /\ (r \in Range(got') \cup tied' \/ (walk' # "done" /\ Rank(r) >= Offset'))
          BY <1>1, <2>5, <3>1, <3>3, AheadAfterPage
        <4> QED
          BY <2>1, <2>3, <4>1
      <3> QED
        BY <2>5, <3>2, <3>3, Listed
    <2> QED
      BY <1>2, <2>4, <2>5
  <1>3. ASSUME NEW q \in Rows,
               \/ InsertPdfExportHistory(q) \/ UpdatePdfExportStatus(q)
               \/ DeletePdfExportRecord(q) \/ RemoveFile(q)
        PROVE  /\ r \in Visible'
               /\ r \in Range(got') \cup tied' \/ (walk' # "done" /\ Rank(r)' >= Offset')
    <2>1. /\ Inserted(q) \/ Updated(q)
          /\ touched' = touched \cup {q}
          /\ UNCHANGED <<request, page, got, walk, start, tied>>
      BY <1>3, Others
    <2>2. r \in start \ touched /\ r # q
      BY <2>1
    <2>3. r \in Visible /\ (r \in Range(got) \cup tied \/ (walk # "done" /\ Rank(r) >= Offset))
      BY <1>1, <2>1, <2>2 DEF SeenOrAhead
    <2>4. r \in Visible' /\ Rank(r) <= Rank(r)'
      BY <1>1, <2>1, <2>2, <2>3, RankAfterWrite
    <2>5. Offset' = Offset
      BY <2>1 DEF Offset
    <2>6. Rank(r) \in Nat /\ Rank(r)' \in Nat /\ Offset \in Nat
      <3>1. Rank(r)' = Cardinality(Below(Visible', SortKey', r))
        BY DEF Rank
      <3>2. Visible' \in SUBSET Rows /\ Below(Visible', SortKey', r) \in SUBSET Visible'
        BY DEF Visible, Present, Below
      <3>3. Rank(r)' \in Nat
        BY <3>1, <3>2, RowsAssumption, FS_Subset, FS_CardinalityType
      <3> QED
        BY <3>3, RankType, OffsetType
    <2>7. Rank(r) >= Offset => Rank(r)' >= Offset
      BY <2>4, <2>6
    <2> QED
      BY <2>1, <2>3, <2>4, <2>5, <2>7
  <1> QED
    BY <1>2, <1>3 DEF Next

\* A client that reads to the end has seen every row that was there when it
\* began, was left alone and never shared its time with another, whatever was
\* inserted and updated meanwhile and whatever the clocks said: in an order by
\* creation always, by updates as long as none gave a row an earlier time.
THEOREM UntouchedRowsSeen == Spec => []UntouchedSeen
  <1>1. TypeOK /\ TypeOK' /\ SeenOrAhead /\ [Next]_vars => SeenOrAhead'
    BY AheadNext
  <1>2. SeenOrAhead => UntouchedSeen
    BY DEF SeenOrAhead, UntouchedSeen
  <1> QED
    BY <1>1, <1>2, AheadInit, TypeAlways, PTL DEF Spec

-----------------------------------------------------------------------------
(* The order of the pages put together.                                     *)

\* Nothing has happened to the table: what was sent has, place by place, the
\* keys of any listing, and the next page begins where it ends.
StillSent ==
    touched = {} /\ "gone" \notin events /\ request.page = 1 =>
        /\ page # 0
        /\ got \in Seq(Visible)
        /\ Sorted(got, SortKey)
        /\ Len(got) <= Cardinality(Visible)
        /\ walk # "done" => "broken" \notin events /\ Len(got) = Offset
        /\ walk = "done" /\ "broken" \notin events => Len(got) = Cardinality(Visible)
        /\ \A s \in SetToSeqs(Visible) : Sorted(s, SortKey) =>
               \A i \in 1..Len(got) : SortKey[got[i]] = SortKey[s[i]]

LEMMA SortedIsOrdered ==
    ASSUME TypeOK, NEW s \in Seq(Visible), Sorted(s, SortKey)
    PROVE  Ordered(s, ParseSort(request.sort))
  <1> DEFINE o == ParseSort(request.sort)
  <1>1. ASSUME NEW i \in 1..Len(s)
        PROVE  /\ Key(s[i], o) \in Int
               /\ SortKey[s[i]] = IF o.descending THEN 0 - Key(s[i], o) ELSE Key(s[i], o)
    <2>1. s[i] \in Visible
      BY ElementOfSeq
    <2> QED
      BY <2>1, KeyType DEF SortKey
  <1>2. o.descending \in BOOLEAN
    BY AskedType
  <1> SUFFICES ASSUME NEW i \in 1..Len(s), NEW j \in 1..Len(s), i < j
               PROVE  IF o.descending THEN Key(s[i], o) >= Key(s[j], o)
                                      ELSE Key(s[i], o) <= Key(s[j], o)
    BY DEF Ordered
  <1>3. SortKey[s[i]] <= SortKey[s[j]]
    BY DEF Sorted
  <1> HIDE DEF o
  <1> QED
    BY <1>1, <1>2, <1>3

LEMMA ListingsAgree ==
    ASSUME TypeOK, NEW s \in SetToSeqs(Visible), Sorted(s, SortKey),
           NEW t \in SetToSeqs(Visible), Sorted(t, SortKey)
    PROVE  \A i \in 1..Len(s) : SortKey[s[i]] = SortKey[t[i]]
  <1> TAKE i \in 1..Len(s)
  <1>1. IsFiniteSet(Visible) /\ SortKey \in [Visible -> Int]
    BY RowsLive, SortKeyType
  <1> QED
    BY <1>1, SameKeys

LEMMA StillAfterPage ==
    ASSUME TypeOK, StillSent, List, touched = {}, "gone" \notin events, request.page = 1,
           NEW s, NEW data, NEW whole \in BOOLEAN, NEW more \in BOOLEAN,
           PageSent(s, data, whole, more),
           walk' = IF more THEN "reading" ELSE "done",
           got' = got \o data, page' = page + 1,
           tied' = tied \cup Sharing(ParseSort(request.sort)),
           events' = events \cup (IF whole THEN {} ELSE {"broken"})
    PROVE  /\ page' # 0
           /\ got' \in Seq(Visible)
           /\ Sorted(got', SortKey)
           /\ Len(got') <= Cardinality(Visible)
           /\ walk' # "done" => "broken" \notin events' /\ Len(got') = Offset'
           /\ walk' = "done" /\ "broken" \notin events' => Len(got') = Cardinality(Visible)
           /\ \A t \in SetToSeqs(Visible) : Sorted(t, SortKey) =>
                  \A i \in 1..Len(got') : SortKey[got'[i]] = SortKey[t[i]]
  <1>1. /\ page # 0 /\ page \in Nat /\ got \in Seq(Visible) /\ "broken" \notin events
        /\ Len(got) = Offset /\ Offset <= Cardinality(Visible)
        /\ \A t \in SetToSeqs(Visible) : Sorted(t, SortKey) =>
               \A i \in 1..Len(got) : SortKey[got[i]] = SortKey[t[i]]
    BY DEF StillSent, List, TypeOK
  <1>2. /\ data \in Seq(Visible) /\ Len(data) \in Nat
        /\ s \in SetToSeqs(Visible) /\ Sorted(s, SortKey)
        /\ \A i \in 1..Len(data) : Offset + i \in 1..Len(s) /\ data[i] = s[Offset + i]
        /\ more => whole /\ Len(data) = AskedSize(request.size)
        /\ whole /\ ~more => Len(s) <= Offset + Len(data)
    BY DEF PageSent
  <1>3. /\ Len(s) = Cardinality(Visible) /\ Len(s) \in Nat /\ s \in Seq(Visible)
        /\ IsFiniteSet(Visible) /\ SortKey \in [Visible -> Int]
    BY <1>2, RowsLive, ListsAll, SortKeyType
  <1>4. /\ Offset \in Nat /\ Offset' = Offset + AskedSize(request.size)
        /\ AskedSize(request.size) \in Nat
    BY <1>1, OffsetType, OffsetNext, AskedType DEF List
  <1>5. /\ got' \in Seq(Visible) /\ Len(got') \in Nat
        /\ Len(got') = Offset + Len(data)
        /\ \A j \in 1..Offset + Len(data) :
               got'[j] = IF j <= Offset THEN got[j] ELSE data[j - Offset]
    <2>1. /\ got' \in Seq(Visible)
          /\ Len(got') = Len(got) + Len(data)
          /\ \A j \in 1..Len(got) + Len(data) :
                 got'[j] = IF j <= Len(got) THEN got[j] ELSE data[j - Len(got)]
      BY <1>1, <1>2, ConcatProperties
    <2> QED
      BY <1>1, <1>2, <1>4, <2>1
  <1>6. ASSUME NEW i \in 1..Len(got')
        PROVE  i \in 1..Len(s) /\ SortKey[got'[i]] = SortKey[s[i]]
    <2>1. CASE i <= Offset
      <3>1. i \in 1..Len(got) /\ i \in 1..Len(s) /\ got'[i] = got[i]
        BY <1>1, <1>3, <1>4, <1>5, <2>1
      <3> QED
        BY <1>1, <1>2, <3>1
    <2>2. CASE ~(i <= Offset)
      <3> DEFINE k == i - Offset
      <3>1. k \in 1..Len(data) /\ Offset + k = i /\ got'[i] = data[k]
        <4>1. i \in 1..Offset + Len(data) /\ i \in Nat
          BY <1>5
        <4>2. k \in 1..Len(data) /\ Offset + k = i
          BY <1>2, <1>4, <2>2, <4>1
        <4>3. got'[i] = data[i - Offset]
          BY <1>5, <2>2, <4>1
        <4> QED
          BY <4>2, <4>3
      <3> HIDE DEF k
      <3>2. Offset + k \in 1..Len(s) /\ data[k] = s[Offset + k]
        BY <1>2, <3>1
      <3> QED
        BY <3>1, <3>2
    <2> QED
      BY <2>1, <2>2
  <1>7. Sorted(got', SortKey)
    <2> SUFFICES ASSUME NEW i \in 1..Len(got'), NEW j \in 1..Len(got'), i < j
                 PROVE  SortKey[got'[i]] <= SortKey[got'[j]]
      BY DEF Sorted
    <2>1. SortKey[s[i]] <= SortKey[s[j]]
      BY <1>2, <1>6 DEF Sorted
    <2> QED
      BY <1>6, <2>1
  <1>8. Len(got') <= Cardinality(Visible)
    <2>1. CASE Len(got') = 0
      BY <1>3, <2>1
    <2>2. CASE Len(got') # 0
      <3>1. Len(got') \in 1..Len(got')
        BY <1>5, <2>2
      <3>2. Len(got') \in 1..Len(s)
        BY <1>6, <3>1
      <3> QED
        BY <1>3, <3>2
    <2> QED
      BY <2>1, <2>2
  <1>9. \A t \in SetToSeqs(Visible) : Sorted(t, SortKey) =>
            \A i \in 1..Len(got') : SortKey[got'[i]] = SortKey[t[i]]
    <2> SUFFICES ASSUME NEW t \in SetToSeqs(Visible), Sorted(t, SortKey),
                        NEW i \in 1..Len(got')
                 PROVE  SortKey[got'[i]] = SortKey[t[i]]
      OBVIOUS
    <2>1. i \in 1..Len(s) /\ SortKey[got'[i]] = SortKey[s[i]]
      BY <1>6
    <2>2. s \in SetToSeqs(Visible) /\ Sorted(s, SortKey)
      BY <1>2
    <2>3. SortKey[s[i]] = SortKey[t[i]]
      BY <2>1, <2>2, ListingsAgree
    <2> QED
      BY <2>1, <2>3
  <1>10. walk' # "done" => "broken" \notin events' /\ Len(got') = Offset'
    BY <1>1, <1>2, <1>4, <1>5
  <1>11. walk' = "done" /\ "broken" \notin events' => Len(got') = Cardinality(Visible)
    <2> SUFFICES ASSUME walk' = "done", "broken" \notin events'
                 PROVE  Len(got') = Cardinality(Visible)
      OBVIOUS
    <2>1. whole /\ ~more
      OBVIOUS
    <2>2. Len(s) <= Len(got')
      BY <1>2, <1>5, <2>1
    <2> QED
      BY <1>3, <1>5, <1>8, <2>2
  <1> QED
    BY <1>1, <1>5, <1>7, <1>8, <1>9, <1>10, <1>11

LEMMA StillNext ==
    ASSUME TypeOK, StillSent, [Next]_vars
    PROVE  StillSent'
  <1> SUFFICES ASSUME touched' = {}, "gone" \notin events', request'.page = 1
               PROVE  StillSent'
    BY DEF StillSent
  <1>1. CASE UNCHANGED vars
    <2>1. /\ UNCHANGED <<request, page, got, walk, touched, events>>
          /\ Visible' = Visible /\ SortKey' = SortKey /\ Offset' = Offset
      BY <1>1 DEF vars, Offset, SortKey, Key, Visible, Present
    <2> QED
      BY <2>1 DEF StillSent
  <1>2. CASE List
    <2>1. /\ touched = {} /\ "gone" \notin events /\ request.page = 1 /\ walk # "done"
          /\ Visible' = Visible /\ SortKey' = SortKey /\ UNCHANGED request
      BY <1>2 DEF List, SortKey, Key, Visible, Present
    <2>2. CASE walk' = "failed" /\ UNCHANGED <<page, got, tied, events>>
      BY <2>1, <2>2 DEF StillSent, Offset
    <2>3. ASSUME NEW s, NEW data, NEW whole \in BOOLEAN, NEW more \in BOOLEAN,
                 PageSent(s, data, whole, more),
                 walk' = (IF more THEN "reading" ELSE "done"), got' = got \o data,
                 page' = page + 1,
                 tied' = tied \cup Sharing(ParseSort(request.sort)),
                 events' = events \cup (IF whole THEN {} ELSE {"broken"})
          PROVE  StillSent'
      <3>1. /\ page' # 0
            /\ got' \in Seq(Visible)
            /\ Sorted(got', SortKey)
            /\ Len(got') <= Cardinality(Visible)
            /\ walk' # "done" => "broken" \notin events' /\ Len(got') = Offset'
            /\ walk' = "done" /\ "broken" \notin events' => Len(got') = Cardinality(Visible)
            /\ \A t \in SetToSeqs(Visible) : Sorted(t, SortKey) =>
                   \A i \in 1..Len(got') : SortKey[got'[i]] = SortKey[t[i]]
        BY <1>2, <2>1, <2>3, StillAfterPage
      <3> QED
        BY <2>1, <3>1 DEF StillSent
    <2> QED
      BY <1>2, <2>2, <2>3, Listed
  <1>3. ASSUME NEW r \in Rows,
               \/ InsertPdfExportHistory(r) \/ UpdatePdfExportStatus(r)
               \/ DeletePdfExportRecord(r) \/ RemoveFile(r)
        PROVE  FALSE
    BY <1>3, Others
  <1> QED
    BY <1>1, <1>2, <1>3 DEF Next

\* Pages of a table that nothing happens to fit together: in the order that was
\* asked for, and as many rows as there are, although rows with equal keys may
\* come in another order for each page.
THEOREM StillTableIsRead == Spec => []StillTableInOrder
  <1>1. Init => StillSent
    <2> SUFFICES ASSUME Init, request.page = 1 PROVE StillSent
      BY DEF StillSent
    <2>1. TypeOK /\ got = <<>> /\ page = 1 /\ walk = "reading" /\ "broken" \notin events
      BY TypeInit DEF Init
    <2>2. Offset = 0 /\ Cardinality(Visible) \in Nat
      BY <2>1, OffsetType, RowsLive, FS_CardinalityType
    <2>3. got \in Seq(Visible) /\ Len(got) = 0 /\ Sorted(got, SortKey)
      BY <2>1, EmptySeq DEF Sorted
    <2> QED
      BY <2>1, <2>2, <2>3 DEF StillSent
  <1>2. TypeOK /\ StillSent /\ [Next]_vars => StillSent'
    BY StillNext
  <1>3. TypeOK /\ StillSent => StillTableInOrder
    BY SortedIsOrdered DEF StillSent, StillTableInOrder
  <1> QED
    BY <1>1, <1>2, <1>3, TypeAlways, PTL DEF Spec

=============================================================================
