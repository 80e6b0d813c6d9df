---------------------------- MODULE FeedListProofs ----------------------------
(***************************************************************************)
(* Proofs about the listing pages, for every set of documents, of creation *)
(* times and of public memories: the list keeps its order, every row is    *)
(* accounted for, a document the listener told of keeps its row, and the   *)
(* table asks for a missing row only in the one window the race of the two *)
(* callbacks leaves open.                                                  *)
(***************************************************************************)
EXTENDS FeedList, TLAPS, FiniteSetTheorems, FunctionTheorems

(***************************************************************************)
(* Counting rows                                                           *)
(***************************************************************************)

(* Where a document has its rows. *)
Places(s, d) == {i \in DOMAIN s : s[i] = d}

(* The rows of a document are counted by a natural number, which is zero   *)
(* when the document has no row and only then.                             *)
LEMMA CountRows ==
    ASSUME NEW S, NEW s \in Seq(S), NEW d
    PROVE  /\ IsFiniteSet(Places(s, d))
           /\ Count(s, d) = Cardinality(Places(s, d))
           /\ Count(s, d) \in Nat
           /\ Count(s, d) = 0 <=> d \notin Rows(s)
<1>1. Len(s) \in Nat /\ DOMAIN s = 1 .. Len(s)
  OBVIOUS
<1>2. IsFiniteSet(DOMAIN s)
  BY <1>1, FS_Interval
<1>3. Places(s, d) \in SUBSET DOMAIN s
  BY DEF Places
<1>4. IsFiniteSet(Places(s, d))
  BY <1>2, <1>3, FS_Subset
<1>5. Count(s, d) = Cardinality(Places(s, d))
  BY DEF Count, Places
<1>6. Cardinality(Places(s, d)) \in Nat
  BY <1>4, FS_CardinalityType
<1>7. Cardinality(Places(s, d)) = 0 <=> Places(s, d) = {}
  BY <1>4, FS_EmptySet
<1>8. Places(s, d) = {} <=> d \notin Rows(s)
  BY DEF Places, Rows
<1> QED
  BY <1>4, <1>5, <1>6, <1>7, <1>8

(* A document appended to a list has the rows it had in both parts.        *)
LEMMA CountAppended ==
    ASSUME NEW S, NEW s \in Seq(S), NEW t \in Seq(S), NEW d
    PROVE  Count(s \o t, d) = Count(s, d) + Count(t, d)
<1> DEFINE n == Len(s)
           m == Len(t)
           P == Places(s, d)
           Q == Places(t, d)
           R == {i \in (n + 1) .. (n + m) : (s \o t)[i] = d}
           f == [i \in Q |-> n + i]
<1>1. n \in Nat /\ m \in Nat /\ DOMAIN s = 1 .. n /\ DOMAIN t = 1 .. m
  OBVIOUS
<1>2. s \o t \in Seq(S) /\ Len(s \o t) = n + m /\ DOMAIN (s \o t) = 1 .. (n + m)
  OBVIOUS
<1>3. \A i \in 1 .. n : (s \o t)[i] = s[i]
  OBVIOUS
<1>4. \A i \in 1 .. m : (s \o t)[n + i] = t[i]
  OBVIOUS
<1>5. Places(s \o t, d) = P \cup R
  <2>1. \A i : i \in 1 .. (n + m) <=> (i \in 1 .. n \/ i \in (n + 1) .. (n + m))
    BY <1>1
  <2>2. P = {i \in 1 .. n : (s \o t)[i] = d}
    BY <1>1, <1>3 DEF Places
  <2> HIDE DEF n, m
  <2> QED
    BY <2>1, <2>2, <1>2, Zenon DEF Places
<1>6. P \cap R = {}
  <2>1. \A i \in (n + 1) .. (n + m) : i \notin 1 .. n
    BY <1>1
  <2> QED
    BY <2>1, <1>1 DEF Places
<1>7. ExistsBijection(Q, R)
  <2>1. \A i \in Q : i \in 1 .. m /\ t[i] = d
    BY <1>1 DEF Places
  <2>2. \A i \in Q : n + i \in R
    BY <2>1, <1>1, <1>4
  <2>3. f \in [Q -> R]
    BY <2>2
  <2>4. \A i, j \in Q : f[i] = f[j] => i = j
    BY <2>1, <1>1
  <2>5. \A k \in R : \E i \in Q : f[i] = k
    <3> SUFFICES ASSUME NEW k \in R PROVE \E i \in Q : f[i] = k
      OBVIOUS
    <3>1. k \in Int /\ n + 1 <= k /\ k <= n + m /\ (s \o t)[k] = d
      BY <1>1
    <3>2. PICK i : i = k - n
      OBVIOUS
    <3>3. i \in 1 .. m /\ n + i = k
      BY ONLY <3>1, <3>2, <1>1
    <3>4. t[i] = d
      BY ONLY <3>3, <3>1, <1>4
    <3>5. i \in Q
      BY ONLY <3>3, <3>4, <1>1 DEF Places
    <3>6. f[i] = k
      BY <3>5, <3>3
    <3> QED
      BY <3>5, <3>6
  <2> HIDE DEF f, Q, R
  <2>6. f \in Bijection(Q, R)
    BY <2>3, <2>4, <2>5, Fun_IsBij
  <2> QED
    BY <2>6 DEF ExistsBijection
<1> HIDE DEF n, m, R, f
<1>8. IsFiniteSet(P) /\ IsFiniteSet(Q)
  BY CountRows
<1>9. IsFiniteSet(R) /\ Cardinality(R) = Cardinality(Q)
  BY <1>7, <1>8, FS_Bijection
<1>10. Cardinality(P \cup R) = Cardinality(P) + Cardinality(R) - Cardinality(P \cap R)
  BY <1>8, <1>9, FS_Union
<1>11. Cardinality(P \cap R) = 0
  BY <1>6, FS_EmptySet
<1>12. Cardinality(P) \in Nat /\ Cardinality(Q) \in Nat
  BY <1>8, FS_CardinalityType
<1>13. Cardinality(Places(s \o t, d)) = Cardinality(P) + Cardinality(Q)
  <2> HIDE DEF P, Q
  <2> QED
    BY ONLY <1>5, <1>9, <1>10, <1>11, <1>12
<1> QED
  BY <1>13 DEF Count, Places

(* The documents in any order have one row each, as many rows as there are *)
(* documents.                                                              *)
LEMMA OrdersRows ==
    ASSUME NEW D, IsFiniteSet(D), NEW s \in Orders(D)
    PROVE  /\ s \in Seq(D)
           /\ Len(s) = Cardinality(D)
           /\ \A d : Count(s, d) = IF d \in D THEN 1 ELSE 0
<1>1. Cardinality(D) \in Nat
  BY FS_CardinalityType
<1>2. s \in [1 .. Cardinality(D) -> D] /\ \A d \in D : Count(s, d) = 1
  BY DEF Orders
<1>3. s \in Seq(D) /\ Len(s) = Cardinality(D)
  BY <1>1, <1>2
<1>4. ASSUME NEW d, d \notin D PROVE Count(s, d) = 0
  <2>1. d \notin Rows(s)
    BY <1>2, <1>4 DEF Rows
  <2> QED
    BY <2>1, <1>3, CountRows
<1> QED
  BY <1>2, <1>3, <1>4

(* Sorting keeps the rows: as many of each document as before, in order.   *)
LEMMA SortingsRows ==
    ASSUME NEW S, NEW s \in Seq(S), NEW r \in Sortings(s)
    PROVE  /\ r \in Seq(S)
           /\ Len(r) = Len(s)
           /\ Sorted(r)
           /\ \A d : Count(r, d) = Count(s, d)
<1>1. Len(s) \in Nat /\ DOMAIN s = 1 .. Len(s) /\ \A i \in DOMAIN s : s[i] \in S
  OBVIOUS
<1>2. /\ r \in [DOMAIN s -> Rows(s)]
      /\ Sorted(r)
      /\ \A i \in DOMAIN s : Count(r, s[i]) = Count(s, s[i])
  BY DEF Sortings, Rows
<1>3. Rows(s) \subseteq S
  BY <1>1 DEF Rows
<1>4. r \in [1 .. Len(s) -> S]
  BY <1>1, <1>2, <1>3
<1>5. r \in Seq(S) /\ Len(r) = Len(s)
  BY <1>1, <1>4
<1>6. ASSUME NEW d PROVE Count(r, d) = Count(s, d)
  <2>1. CASE d \in Rows(s)
    BY <2>1, <1>2 DEF Rows
  <2>2. CASE d \notin Rows(s)
    <3>1. d \notin Rows(r)
      BY <2>2, <1>2 DEF Rows
    <3>2. Count(s, d) = 0
      BY <2>2, CountRows
    <3>3. Count(r, d) = 0
      BY <3>1, <1>5, CountRows
    <3> QED
      BY <3>2, <3>3
  <2> QED
    BY <2>1, <2>2
<1> QED
  BY <1>2, <1>5, <1>6

(***************************************************************************)
(* The inductive invariant                                                 *)
(***************************************************************************)

(* Until the callback of the fetch replaces it, the list is as long as the *)
(* listener told of documents, and the table counted no more rows.         *)
LengthKept ==
    fetch # "done" => Len(list) = Cardinality(heard) /\ rows <= Len(list)

ListInv == /\ TypeOK
           /\ ListSorted
           /\ RowsAccounted
           /\ HeardHasRow
           /\ LengthKept
           /\ RowsInRange

(* The documents the page knows are finitely many.                         *)
LEMMA FinitelyMany ==
    ASSUME TypeOK, NEW D \in SUBSET Docs
    PROVE  /\ IsFiniteSet(D) /\ Cardinality(D) \in Nat
           /\ IsFiniteSet(heard) /\ Cardinality(heard) \in Nat
           /\ IsFiniteSet(answer) /\ Cardinality(answer) \in Nat
<1>1. heard \in SUBSET Docs /\ answer \in SUBSET Docs
  BY DEF TypeOK
<1>2. IsFiniteSet(D) /\ IsFiniteSet(heard) /\ IsFiniteSet(answer)
  BY <1>1, FS_Subset, FeedListAssumption
<1> QED
  BY <1>2, FS_CardinalityType

(* What the callback of the listener does to the list: one more row for    *)
(* each of the documents D, none less for any other, and in order.         *)
LEMMA HearRows ==
    ASSUME TypeOK, NEW D \in SUBSET Docs, Hear(D)
    PROVE  /\ list' \in Seq(stored)
           /\ Sorted(list')
           /\ Len(list') = Len(list) + Cardinality(D)
           /\ \A d : Count(list', d) = Count(list, d) + IF d \in D THEN 1 ELSE 0
           /\ Cardinality(heard') = Cardinality(heard) + Cardinality(D)
<1>1. D \subseteq stored /\ D \cap heard = {} /\ heard' = heard \cup D
  BY DEF Hear
<1>2. PICK new \in Orders(D) : list' \in Sortings(list \o new)
  BY DEF Hear
<1>3. /\ IsFiniteSet(D) /\ Cardinality(D) \in Nat
      /\ IsFiniteSet(heard) /\ Cardinality(heard) \in Nat
  BY FinitelyMany
<1>4. /\ new \in Seq(D)
      /\ Len(new) = Cardinality(D)
      /\ \A d : Count(new, d) = IF d \in D THEN 1 ELSE 0
  BY <1>2, <1>3, OrdersRows
<1>5. list \in Seq(stored) /\ new \in Seq(stored)
  BY <1>1, <1>4 DEF TypeOK
<1>6. list \o new \in Seq(stored) /\ Len(list \o new) = Len(list) + Len(new)
  BY <1>5
<1>7. \A d : Count(list \o new, d) = Count(list, d) + Count(new, d)
  BY <1>5, CountAppended
<1>8. /\ list' \in Seq(stored)
      /\ Len(list') = Len(list \o new)
      /\ Sorted(list')
      /\ \A d : Count(list', d) = Count(list \o new, d)
  BY <1>2, <1>6, SortingsRows
<1>9. Cardinality(heard') = Cardinality(heard) + Cardinality(D)
  <2>1. Cardinality(heard \cup D)
        = Cardinality(heard) + Cardinality(D) - Cardinality(heard \cap D)
    BY <1>3, FS_Union
  <2>2. Cardinality(heard \cap D) = 0
    BY <1>1, FS_EmptySet
  <2> QED
    BY <1>1, <1>3, <2>1, <2>2
<1>10. Len(list') = Len(list) + Cardinality(D)
  BY <1>4, <1>6, <1>8
<1>11. \A d : Count(list', d) = Count(list, d) + IF d \in D THEN 1 ELSE 0
  BY <1>4, <1>7, <1>8
<1> QED
  BY <1>8, <1>9, <1>10, <1>11

(* What the callback of the fetch does to the list: a row for each of the  *)
(* documents of the answer and no other, and in order.                     *)
LEMMA FetchRows ==
    ASSUME TypeOK, FetchCallback
    PROVE  /\ list' \in Seq(stored)
           /\ Sorted(list')
           /\ Len(list') = Cardinality(answer)
           /\ \A d : Count(list', d) = IF d \in answer THEN 1 ELSE 0
<1>1. list' \in Orders(answer) /\ Sorted(list')
  BY DEF FetchCallback
<1>2. IsFiniteSet(answer)
  BY FinitelyMany
<1>3. /\ list' \in Seq(answer)
      /\ Len(list') = Cardinality(answer)
      /\ \A d : Count(list', d) = IF d \in answer THEN 1 ELSE 0
  BY <1>1, <1>2, OrdersRows
<1>4. answer \subseteq stored
  BY DEF TypeOK
<1> QED
  BY <1>1, <1>3, <1>4

(* The page starts well: nothing is listed.                                *)
LEMMA ListInvInit == Init => ListInv
<1> SUFFICES ASSUME Init PROVE ListInv
  OBVIOUS
<1>1. /\ page \in Pages /\ stored \subseteq Docs
      /\ fetch \in {"none", "asked"}
      /\ answer = {} /\ listening = TRUE /\ heard = {}
      /\ list = <<>> /\ rows = 0 /\ reloading = FALSE /\ overtaken = {}
  BY DEF Init
<1>2. TypeOK
  <2>1. <<>> \in Seq(stored) /\ 0 \in Nat
    OBVIOUS
  <2> QED
    BY <1>1, <2>1, Zenon DEF TypeOK
<1>3. Len(list) = 0 /\ DOMAIN list = {}
  BY ONLY <1>1
<1>4. ListSorted
  BY <1>3 DEF ListSorted, Sorted
<1>5. \A d : Count(list, d) = 0
  <2>1. \A d : {i \in DOMAIN list : list[i] = d} = {}
    BY <1>3
  <2> QED
    BY <2>1, FS_EmptySet DEF Count
<1>6. RowsAccounted
  BY <1>1, <1>5 DEF RowsAccounted
<1>7. HeardHasRow
  BY <1>1 DEF HeardHasRow
<1>8. LengthKept
  BY <1>1, <1>3, FS_EmptySet DEF LengthKept
<1>9. RowsInRange
  BY <1>1, <1>3 DEF RowsInRange
<1> QED
  BY <1>2, <1>4, <1>6, <1>7, <1>8, <1>9 DEF ListInv

(* A step that leaves the list and what was told or answered about alone   *)
(* keeps the list in order and its rows accounted for.                     *)
LEMMA ListUnchanged ==
    ASSUME ListSorted, RowsAccounted, HeardHasRow,
           page' = page, list' = list, heard' = heard, overtaken' = overtaken,
           fetch = "done" <=> fetch' = "done",
           fetch = "done" => answer' = answer
    PROVE  ListSorted' /\ RowsAccounted' /\ HeardHasRow'
<1>1. ListSorted'
  BY DEF ListSorted, Sorted, Before
<1>2. RowsAccounted'
  BY DEF RowsAccounted, Count
<1>3. HeardHasRow'
  BY DEF HeardHasRow, Rows
<1> QED
  BY <1>1, <1>2, <1>3

(* A step keeps the types: the list holds stored documents.                *)
LEMMA TypeOKStep ==
    ASSUME TypeOK, [Next]_vars
    PROVE  TypeOK'
<1>1. ASSUME NEW d \in Docs, Store(d) PROVE TypeOK'
  <2>1. list \in Seq(stored \cup {d})
    <3>1. list \in Seq(stored)
      BY DEF TypeOK
    <3> QED
      BY <3>1
  <2> QED
    BY <1>1, <2>1 DEF TypeOK, Store
<1>2. CASE Answer
  BY <1>2 DEF TypeOK, Answer
<1>3. CASE FetchFails
  BY <1>3 DEF TypeOK, FetchFails
<1>4. CASE FetchCallback
  <2>1. list' \in Seq(stored)
    BY <1>4, FetchRows
  <2> QED
    BY <1>4, <2>1 DEF TypeOK, FetchCallback
<1>5. ASSUME NEW D \in SUBSET Docs, Hear(D) PROVE TypeOK'
  <2>1. list' \in Seq(stored)
    BY <1>5, HearRows
  <2>2. heard' \subseteq stored
    BY <1>5 DEF TypeOK, Hear
  <2> QED
    BY <1>5, <2>1, <2>2 DEF TypeOK, Hear
<1>6. CASE ListenerFails
  BY <1>6 DEF TypeOK, ListenerFails
<1>7. CASE Reload
  <2>1. Len(list) \in Nat
    BY DEF TypeOK
  <2> QED
    BY <1>7, <2>1 DEF TypeOK, Reload
<1>8. CASE UNCHANGED vars
  BY <1>8 DEF TypeOK, vars
<1> QED
  BY <1>1, <1>2, <1>3, <1>4, <1>5, <1>6, <1>7, <1>8 DEF Next

(* The callback of the fetch keeps the invariant: the rows of documents    *)
(* told of earlier are gone only if the answer does not hold them, and the *)
(* list can only be shorter than the table believes in that case.          *)
LEMMA FetchCallbackKeeps ==
    ASSUME ListInv, FetchCallback
    PROVE  ListSorted' /\ RowsAccounted' /\ HeardHasRow' /\ LengthKept' /\ RowsInRange'
<1>1. /\ fetch = "answered" /\ fetch' = "done"
      /\ page' = page /\ heard' = heard /\ answer' = answer /\ rows' = rows
      /\ reloading' = TRUE /\ overtaken' = heard \ answer
  BY DEF FetchCallback
<1>2. TypeOK
  BY DEF ListInv
<1>3. /\ list' \in Seq(stored)
      /\ Sorted(list')
      /\ Len(list') = Cardinality(answer)
      /\ \A d : Count(list', d) = IF d \in answer THEN 1 ELSE 0
  BY <1>2, FetchRows
<1>4. ListSorted'
  BY <1>1, <1>3 DEF ListSorted, Sorted, Before
<1>5. RowsAccounted'
  <2> SUFFICES ASSUME NEW d \in Docs
               PROVE  Count(list', d) <= (IF d \in answer THEN 1 ELSE 0)
                                         + (IF d \in heard THEN 1 ELSE 0)
    BY <1>1 DEF RowsAccounted, Count
  <2> QED
    BY <1>3
<1>6. HeardHasRow'
  <2> SUFFICES ASSUME NEW d \in heard
               PROVE  d \in Rows(list') <=> d \in answer
    BY <1>1 DEF HeardHasRow, Rows
  <2> QED
    BY <1>3, CountRows
<1>7. LengthKept'
  BY <1>1 DEF LengthKept
<1>8. ASSUME heard \subseteq answer PROVE rows <= Len(list')
  <2>1. IsFiniteSet(answer) /\ Cardinality(answer) \in Nat /\ Cardinality(heard) \in Nat
    BY <1>2, FinitelyMany
  <2>2. Cardinality(heard) <= Cardinality(answer)
    BY <1>8, <2>1, FS_Subset
  <2>3. rows <= Cardinality(heard) /\ rows \in Nat
    BY <1>1 DEF ListInv, LengthKept, TypeOK
  <2> QED
    BY <2>1, <2>2, <2>3, <1>3
<1>9. ASSUME NEW d \in heard, d \notin answer PROVE RowsInRange'
  BY <1>1, <1>9 DEF RowsInRange
<1>10. ASSUME heard \subseteq answer PROVE RowsInRange'
  <2>1. rows \in Nat /\ Len(list') \in Nat
    BY <1>2, <1>3 DEF TypeOK
  <2>2. ~ (rows > Len(list'))
    BY <1>8, <1>10, <2>1
  <2> QED
    BY <1>1, <2>2 DEF RowsInRange
<1> QED
  BY <1>4, <1>5, <1>6, <1>7, <1>9, <1>10

(* The callback of the listener keeps the invariant: it adds a row for     *)
(* documents it never told of before and takes none away.                  *)
LEMMA HearKeeps ==
    ASSUME ListInv, NEW D \in SUBSET Docs, Hear(D)
    PROVE  ListSorted' /\ RowsAccounted' /\ HeardHasRow' /\ LengthKept' /\ RowsInRange'
<1>1. /\ fetch' = fetch /\ page' = page /\ answer' = answer /\ rows' = rows
      /\ heard' = heard \cup D /\ reloading' = TRUE /\ overtaken' = overtaken
      /\ D \cap heard = {}
  BY DEF Hear
<1>2. TypeOK
  BY DEF ListInv
<1>3. /\ list' \in Seq(stored)
      /\ Sorted(list')
      /\ Len(list') = Len(list) + Cardinality(D)
      /\ \A d : Count(list', d) = Count(list, d) + IF d \in D THEN 1 ELSE 0
      /\ Cardinality(heard') = Cardinality(heard) + Cardinality(D)
  BY <1>2, HearRows
<1>4. list \in Seq(stored) /\ Len(list) \in Nat /\ rows \in Nat
  BY <1>2 DEF TypeOK
<1>5. \A d : Count(list, d) \in Nat
  BY <1>4, CountRows
<1>6. Cardinality(D) \in Nat /\ Cardinality(heard) \in Nat
  BY <1>2, FinitelyMany
<1>7. ListSorted'
  BY <1>1, <1>3 DEF ListSorted, Sorted, Before
<1>8. RowsAccounted'
  <2> SUFFICES ASSUME NEW d \in Docs
               PROVE  /\ Count(list', d) <= (IF fetch = "done" /\ d \in answer THEN 1 ELSE 0)
                                            + (IF d \in heard \cup D THEN 1 ELSE 0)
                      /\ fetch # "done" =>
                           Count(list', d) = IF d \in heard \cup D THEN 1 ELSE 0
    BY <1>1 DEF RowsAccounted, Count
  <2>1. /\ Count(list, d) <= (IF fetch = "done" /\ d \in answer THEN 1 ELSE 0)
                             + (IF d \in heard THEN 1 ELSE 0)
        /\ fetch # "done" => Count(list, d) = IF d \in heard THEN 1 ELSE 0
    BY DEF ListInv, RowsAccounted
  <2>2. CASE d \in D
    BY <2>1, <2>2, <1>1, <1>3, <1>5
  <2>3. CASE d \notin D
    BY <2>1, <2>3, <1>1, <1>3, <1>5
  <2> QED
    BY <2>2, <2>3
<1>9. HeardHasRow'
  <2> SUFFICES ASSUME NEW d \in heard \cup D
               PROVE  d \in Rows(list') <=> d \notin overtaken
    BY <1>1 DEF HeardHasRow, Rows
  <2>1. /\ Count(list', d) # 0 <=> d \in Rows(list')
        /\ Count(list, d) # 0 <=> d \in Rows(list)
    BY <1>3, <1>4, CountRows
  <2>2. CASE d \in D
    <3>1. d \notin overtaken
      BY <1>1, <1>2, <2>2 DEF TypeOK
    <3> QED
      BY <2>1, <2>2, <3>1, <1>3, <1>5
  <2>3. CASE d \in heard
    <3>1. d \in Rows(list) <=> d \notin overtaken
      BY <2>3 DEF ListInv, HeardHasRow
    <3>2. Count(list', d) = Count(list, d)
      BY <1>1, <1>3, <1>5, <2>3
    <3> QED
      BY <2>1, <3>1, <3>2
  <2> QED
    BY <2>2, <2>3
<1>10. Len(list') >= Len(list) /\ Len(list') \in Nat
  BY <1>3, <1>4, <1>6
<1>11. LengthKept'
  BY <1>1, <1>3, <1>4, <1>6, <1>10 DEF ListInv, LengthKept
<1>12. RowsInRange'
  <2>1. rows > Len(list') => rows > Len(list)
    BY <1>4, <1>10
  <2>2. rows > Len(list) => overtaken # {}
    BY DEF ListInv, RowsInRange
  <2> QED
    BY <2>1, <2>2, <1>1 DEF RowsInRange
<1> QED
  BY <1>7, <1>8, <1>9, <1>11, <1>12

(* A step that touches neither the list nor what the listener told of nor  *)
(* the table keeps the invariant.                                          *)
LEMMA QuietStepKeeps ==
    ASSUME ListInv,
           page' = page, list' = list, heard' = heard, rows' = rows,
           reloading' = reloading, overtaken' = overtaken,
           fetch = "done" <=> fetch' = "done",
           fetch = "done" => answer' = answer
    PROVE  ListSorted' /\ RowsAccounted' /\ HeardHasRow' /\ LengthKept' /\ RowsInRange'
<1>1. ListSorted' /\ RowsAccounted' /\ HeardHasRow'
  BY ListUnchanged DEF ListInv
<1>2. LengthKept'
  BY DEF ListInv, LengthKept
<1>3. RowsInRange'
  BY DEF ListInv, RowsInRange
<1> QED
  BY <1>1, <1>2, <1>3

(* Every step keeps the invariant.                                         *)
LEMMA ListInvStep == ListInv /\ [Next]_vars => ListInv'
<1> SUFFICES ASSUME ListInv, [Next]_vars PROVE ListInv'
  OBVIOUS
<1> DEFINE Rest == /\ ListSorted' /\ RowsAccounted' /\ HeardHasRow'
                   /\ LengthKept' /\ RowsInRange'
<1>0. TypeOK'
  BY TypeOKStep DEF ListInv
<1>1. ASSUME NEW d \in Docs, Store(d) PROVE Rest
  BY <1>1, QuietStepKeeps DEF Store
<1>2. ASSUME Answer PROVE Rest
  BY <1>2, QuietStepKeeps DEF Answer
<1>3. ASSUME FetchFails PROVE Rest
  BY <1>3, QuietStepKeeps DEF FetchFails
<1>4. ASSUME FetchCallback PROVE Rest
  BY <1>4, FetchCallbackKeeps
<1>5. ASSUME NEW D \in SUBSET Docs, Hear(D) PROVE Rest
  BY <1>5, HearKeeps
<1>6. ASSUME ListenerFails PROVE Rest
  BY <1>6, QuietStepKeeps DEF ListenerFails
<1>7. ASSUME Reload PROVE Rest
  <2>1. /\ page' = page /\ list' = list /\ heard' = heard /\ fetch' = fetch
        /\ answer' = answer /\ rows' = Len(list) /\ overtaken' = overtaken
    BY <1>7 DEF Reload
  <2>2. Len(list) \in Nat
    BY DEF ListInv, TypeOK
  <2>3. ListSorted' /\ RowsAccounted' /\ HeardHasRow'
    BY <2>1, ListUnchanged DEF ListInv
  <2>4. LengthKept'
    BY <2>1, <2>2 DEF ListInv, LengthKept
  <2>5. RowsInRange'
    BY <2>1, <2>2 DEF RowsInRange
  <2> QED
    BY <2>3, <2>4, <2>5
<1>8. ASSUME UNCHANGED vars PROVE Rest
  BY <1>8, QuietStepKeeps DEF vars
<1> HIDE DEF Rest
<1>9. Rest
  BY <1>1, <1>2, <1>3, <1>4, <1>5, <1>6, <1>7, <1>8 DEF Next
<1> QED
  BY <1>0, <1>9 DEF ListInv, Rest

(* The invariant of the page holds in every state it reaches.              *)
LEMMA ListInvAlways == Spec => []ListInv
BY ListInvInit, ListInvStep, PTL DEF Spec

(***************************************************************************)
(* The theorems                                                            *)
(***************************************************************************)

(* Whatever the order in which Firestore answers the fetch and the         *)
(* listener, the list of a page holds stored documents in the page's order *)
(* (groups.sort, publicMemory.sort, articleComments.sort).                 *)
THEOREM ListStaysSound == Spec => []ListSound
<1>1. ListInv => ListSound
  BY DEF ListInv, ListSound
<1> QED
  BY <1>1, ListInvAlways, PTL

(* No document has more rows than the fetch and the listener brought, and  *)
(* before the fetch has answered exactly those the listener told of have   *)
(* one: append never repeats a document by itself.                         *)
THEOREM RowsStayAccounted == Spec => []RowsAccounted
<1>1. ListInv => RowsAccounted
  BY DEF ListInv
<1> QED
  BY <1>1, ListInvAlways, PTL

(* A document the listener told of keeps its row for good, but for those   *)
(* told of before the callback of a fetch that was evaluated without them  *)
(* replaced the list; these have none from then on.                        *)
THEOREM HeardKeepsRow == Spec => []HeardHasRow
<1>1. ListInv => HeardHasRow
  BY DEF ListInv
<1> QED
  BY <1>1, ListInvAlways, PTL

(* numberOfRowsInSection never promised more rows than cellForRowAt finds, *)
(* but between the callback of an overtaken fetch and its reload.          *)
THEOREM RowsStayInRange == Spec => []RowsInRange
<1>1. ListInv => RowsInRange
  BY DEF ListInv
<1> QED
  BY <1>1, ListInvAlways, PTL
=============================================================================
