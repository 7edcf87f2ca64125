---------------------------- MODULE ListingProofs ----------------------------
(***************************************************************************)
(* Proofs, for any number of rows, page size and number of changes, of     *)
(* what a walk through the pages of a listing returns.                     *)
(*                                                                         *)
(* The argument is about ranks.  A page, cut out of rows without ties, is  *)
(* the rows whose rank is at the offset or up to a page size behind it.    *)
(* So reading one moves the boundary of the walk and counts just the rows  *)
(* that it passes: no row is missed or repeated by that.  A row that       *)
(* arrives, leaves or moves changes the rank of the others by one at most, *)
(* so at most one of them crosses the boundary each way.                   *)
(***************************************************************************)
EXTENDS Listing, FiniteSetTheorems, FunctionTheorems, TLAPS

(* The inductive invariant. *)

PageSize == NormalizePageSize(client.size)

\* How many rows are behind the walk: the offset of the next page.
Boundary == Offset(NormalizePage(client.page), PageSize)

\* The order of the rows, in a listing without second sort column as well.
Precedes(r, s) ==
  \/ table[r] < table[s]
  \/ table[r] = table[s] /\ r < s

Ahead(r) == {s \in Present : Precedes(s, r)}
Rank(r) == Cardinality(Ahead(r))

Passed == {r \in Present : Rank(r) < Boundary}

\* Rows that the walk has missed, being past them.
Missed == {r \in Stable \cap Passed : seen[r] = 0}

\* The repetitions there have been, and those that the rest of the walk will
\* add if nothing changes any more.
Repeated ==
  {x \in Rows \X Nat :
     /\ x[1] \in Stable /\ 2 <= x[2]
     /\ x[2] <= seen[x[1]] + (IF x[1] \in Passed THEN 0 ELSE 1)}

RowCount == Cardinality(Present)

Asking == client.pc \in {"ask", "more"}

\* A walk starts on the first page, and its changes are counted from there.
WalkStarts ==
  /\ client.pc = "ask" =>
       /\ client.page <= 1
       /\ seen = [r \in Rows |-> 0]
       /\ changed = Unchanged
  /\ client.pc # "ask" => client.page >= 2

\* There are rows behind the page that was announced, unless some have left.
MoreIsThere ==
  client.pc = "more" /\ changed.left = 0 => Boundary < RowCount

\* How often rows have gone from where they were, and come to where they are.
Gone == changed.left + changed.moved
Come == changed.arrived + changed.moved

\* Each change makes the walk miss or repeat at most one of the other rows.
OneRowPerChange ==
  Asking /\ ~ambiguous =>
    /\ Cardinality(Missed) <= Gone
    /\ IsFiniteSet(Repeated)
    /\ Cardinality(Repeated) <= Come

IInv ==
  /\ TypeOK
  /\ IsFiniteSet(Returned)
  /\ WalkStarts
  /\ MoreIsThere
  /\ OneRowPerChange
  /\ WalkIsExactUpToChanges
  /\ AnnouncedPageIsThere

USE RowsAssumption, SizesAssumption, ListingsAssumption
-----------------------------------------------------------------------------
(* queries.go *)

\* Normalised parameters are in range, and the handler's second normalisation
\* leaves them alone.
LEMMA Normalised ==
  ASSUME NEW page \in Int, NEW size \in Int
  PROVE  /\ NormalizePage(page) \in Nat \ {0}
         /\ NormalizePageSize(size) \in 1 .. MaxPageSize
         /\ NormalizePage(NormalizePage(page)) = NormalizePage(page)
         /\ NormalizePageSize(NormalizePageSize(size)) = NormalizePageSize(size)
<1>1. /\ DefaultPageSize \in Int /\ 0 < DefaultPageSize
      /\ MaxPageSize \in Int /\ DefaultPageSize <= MaxPageSize
  OBVIOUS
<1> QED BY <1>1 DEF NormalizePage, NormalizePageSize, DefaultPage

\* What the walk is past, and how it grows.
LEMMA Boundaries ==
  ASSUME NEW page \in Nat \ {0}, NEW size \in Nat
  PROVE  /\ Offset(page, size) \in Nat
         /\ Offset(page + 1, size) = Offset(page, size) + size
         /\ Offset(1, size) = 0
<1>1. PICK p \in Nat : page = p + 1
  <2>1. page - 1 \in Nat /\ page = (page - 1) + 1
    OBVIOUS
  <2> QED BY <2>1
<1>2. (p + 1) * size = p * size + size /\ p * size \in Nat /\ 0 * size = 0
  OBVIOUS
<1>3. Offset(page, size) = p * size
  BY <1>1 DEF Offset
<1>4. Offset(page + 1, size) = (p + 1) * size
  BY <1>1 DEF Offset
<1>5. Offset(1, size) = 0 * size
  BY DEF Offset
<1> QED BY <1>2, <1>3, <1>4, <1>5
-----------------------------------------------------------------------------
(* One page. *)

\* Which rows a page has, whether there are more, and whether there are any.
LEMMA PageRows ==
  ASSUME NEW S, NEW rows \in Seq(S), NEW page, NEW size \in Nat \ {0},
         NEW k \in Nat, Offset(page, size) = k
  PROVE  LET found == Select(rows, page, size)
         IN  /\ found = <<>> <=> Len(rows) <= k
             /\ HasMore(found, size) <=> k + size < Len(rows)
             /\ \A r : Contains(PageOf(found, size), r) <=>
                  \E i \in 1 .. Len(rows) : k < i /\ i <= k + size /\ rows[i] = r
<1> DEFINE n == Len(rows)
           to == IF k + size + 1 < n THEN k + size + 1 ELSE n
           found == SubSeq(rows, k + 1, to)
           page1 == PageOf(found, size)
<1>1. n \in Nat /\ to \in Nat /\ to <= n
  OBVIOUS
<1>2. Select(rows, page, size) = found
  BY DEF Select
<1>3. /\ found \in Seq(S)
      /\ Len(found) = IF k + 1 <= to THEN to - k ELSE 0
      /\ \A i \in 1 .. Len(found) : found[i] = rows[k + i]
  BY <1>1
<1>4. found = <<>> <=> Len(found) = 0
  <2> HIDE DEF found
  <2> QED BY <1>3
<1>5. Len(found) \in Nat
  BY <1>3
<1> HIDE DEF found
<1>6. found = <<>> <=> n <= k
  BY <1>1, <1>3, <1>4
<1>7. HasMore(found, size) <=> k + size < n
  BY <1>1, <1>3 DEF HasMore
<1>8. /\ Len(page1) = IF k + size < n THEN size ELSE Len(found)
      /\ \A i \in 1 .. Len(page1) : page1[i] = found[i]
  <2>1. CASE k + size < n
    <3>1. Len(found) = size + 1
      BY <1>1, <1>3, <2>1
    <3>2. page1 = SubSeq(found, 1, size)
      BY <1>7, <2>1 DEF PageOf
    <3>3. /\ Len(SubSeq(found, 1, size)) = size
          /\ \A i \in 1 .. size : SubSeq(found, 1, size)[i] = found[i]
      BY <1>3, <3>1
    <3> QED BY <2>1, <3>2, <3>3
  <2>2. CASE ~ (k + size < n)
    BY <1>7, <2>2 DEF PageOf
  <2> QED BY <2>1, <2>2
<1>9. \A i \in 1 .. Len(page1) : i \in 1 .. Len(found) /\ page1[i] = rows[k + i]
  BY <1>1, <1>3, <1>8
<1>10. \A i \in Nat : i \in 1 .. Len(page1) <=> i >= 1 /\ k + i <= n /\ i <= size
  BY <1>1, <1>3, <1>8
<1> HIDE DEF page1, n, to
<1>11. ASSUME NEW r
       PROVE  Contains(page1, r) <=>
                \E i \in 1 .. n : k < i /\ i <= k + size /\ rows[i] = r
  <2>1. ASSUME NEW i \in 1 .. Len(page1), page1[i] = r
        PROVE  \E j \in 1 .. n : k < j /\ j <= k + size /\ rows[j] = r
    <3>1. i \in Nat /\ i >= 1 /\ k + i <= n /\ i <= size /\ rows[k + i] = r
      <4>1. i \in Nat
        BY <1>9, <1>5
      <4> QED BY <4>1, <2>1, <1>9, <1>10
    <3>2. k + i \in 1 .. n /\ k < k + i /\ k + i <= k + size
      BY <1>1, <3>1
    <3> QED BY <3>1, <3>2
  <2>2. ASSUME NEW j \in 1 .. n, k < j, j <= k + size, rows[j] = r
        PROVE  \E i \in 1 .. Len(page1) : page1[i] = r
    <3>1. /\ j - k \in Nat /\ j - k >= 1 /\ k + (j - k) = j
          /\ k + (j - k) <= n /\ j - k <= size
      BY <1>1, <2>2
    <3>2. j - k \in 1 .. Len(page1)
      BY <3>1, <1>10
    <3>3. page1[j - k] = rows[k + (j - k)]
      BY <3>2, <1>9
    <3> QED BY <2>2, <3>1, <3>2, <3>3
  <2> QED BY <2>1, <2>2 DEF Contains
<1> QED BY <1>2, <1>6, <1>7, <1>11 DEF page1, n

\* A query returns every row that is present once.
LEMMA AllRows ==
  ASSUME table \in [Rows -> SortKeys \cup {0}], NEW rows \in Orders
  PROVE  /\ rows \in Seq(Rows)
         /\ IsFiniteSet(Present) /\ Cardinality(Present) \in Nat
         /\ Len(rows) = Cardinality(Present)
         /\ \A i \in 1 .. Len(rows) : rows[i] \in Present
         /\ \A i, j \in 1 .. Len(rows) : rows[i] = rows[j] => i = j
         /\ \A r \in Present : \E i \in 1 .. Len(rows) : rows[i] = r
         /\ \A i, j \in 1 .. Len(rows) : i < j => Before(rows[i], rows[j])
<1> DEFINE n == Cardinality(Present)
           D == 1 .. n
<1>1. Present \subseteq Rows
  BY DEF Present
<1>2. IsFiniteSet(Present) /\ n \in Nat
  BY <1>1, FS_Subset, FS_CardinalityType
<1>3. /\ rows \in [D -> Present]
      /\ \A i, j \in D : i # j => rows[i] # rows[j]
      /\ \A i, j \in DOMAIN rows : i < j => Before(rows[i], rows[j])
  BY DEF Orders, SetToSeqs
<1> HIDE DEF n
<1>4. rows \in Seq(Rows) /\ Len(rows) = n
  <2>1. rows \in [1 .. n -> Rows]
    BY <1>1, <1>3
  <2> QED BY <2>1, <1>2
<1>5. rows \in Surjection(D, Present)
  <2>1. rows \in Injection(D, Present)
    BY <1>3, Fun_IsInj
  <2>2. IsFiniteSet(D) /\ Cardinality(D) = n
    <3>1. 1 \in Int /\ n \in Int
      BY <1>2
    <3>2. IsFiniteSet(D) /\ Cardinality(D) = IF 1 > n THEN 0 ELSE n - 1 + 1
      BY <3>1, FS_Interval
    <3> QED BY <3>2, <1>2
  <2> QED BY <1>2, <2>1, <2>2, FS_Injection DEF n
<1>6. \A r \in Present : \E i \in D : rows[i] = r
  <2> HIDE DEF D
  <2> QED BY <1>5, Fun_SurjectionProperties
<1> QED BY <1>2, <1>3, <1>4, <1>6 DEF n

-----------------------------------------------------------------------------
(* Ranks. *)

\* Primary keys and sort keys are numbers.
LEMMA Keys ==
  ASSUME table \in [Rows -> SortKeys \cup {0}]
  PROVE  \A r \in Rows : r \in Int /\ table[r] \in Int
<1> DEFINE K == SortKeys \cup {0}
<1>1. K \subseteq Int /\ Rows \subseteq Int
  OBVIOUS
<1> HIDE DEF K
<1>2. \A r \in Rows : table[r] \in K
  BY DEF K
<1> QED BY <1>1, <1>2

\* Precedes is a strict total order of the rows.
LEMMA TotalOrder ==
  ASSUME table \in [Rows -> SortKeys \cup {0}]
  PROVE  /\ \A r \in Rows : ~ Precedes(r, r)
         /\ \A r, s \in Rows : r # s => Precedes(r, s) \/ Precedes(s, r)
         /\ \A r, s, t \in Rows : Precedes(r, s) /\ Precedes(s, t) => Precedes(r, t)
<1>1. \A r \in Rows : r \in Int /\ table[r] \in Int
  BY Keys
<1> QED BY <1>1 DEF Precedes

\* A rank is a natural number, smaller the earlier the row.
LEMMA RankGrows ==
  ASSUME table \in [Rows -> SortKeys \cup {0}], NEW r \in Present, NEW s \in Present
  PROVE  /\ IsFiniteSet(Ahead(r)) /\ Rank(r) \in Nat
         /\ Precedes(r, s) => Rank(r) < Rank(s)
         /\ Rank(r) = Rank(s) => r = s
<1>1. Present \subseteq Rows
  BY DEF Present
<1>2. ASSUME NEW x \in Present
      PROVE  IsFiniteSet(Ahead(x)) /\ Rank(x) \in Nat
  <2>1. Ahead(x) \in SUBSET Rows
    BY <1>1 DEF Ahead
  <2>2. IsFiniteSet(Ahead(x))
    BY <2>1, FS_Subset
  <2> QED BY <2>2, FS_CardinalityType DEF Rank
<1>3. ASSUME NEW x \in Present, NEW y \in Present, Precedes(x, y)
      PROVE  Rank(x) < Rank(y)
  <2>1. Ahead(x) \subseteq Ahead(y)
    BY <1>1, <1>3, TotalOrder DEF Ahead
  <2>2. x \in Ahead(y) /\ x \notin Ahead(x)
    BY <1>1, <1>3, TotalOrder DEF Ahead
  <2>3. /\ Cardinality(Ahead(x)) <= Cardinality(Ahead(y))
        /\ Cardinality(Ahead(x)) # Cardinality(Ahead(y))
    BY <2>1, <2>2, <1>2, FS_Subset
  <2> QED BY <2>3, <1>2 DEF Rank
<1>4. Rank(r) = Rank(s) => r = s
  <2>1. Rank(r) \in Nat /\ Rank(s) \in Nat
    BY <1>2
  <2>2. r # s => Rank(r) < Rank(s) \/ Rank(s) < Rank(r)
    BY <1>1, <1>3, TotalOrder
  <2> QED BY <2>1, <2>2
<1> QED BY <1>2, <1>3, <1>4

\* There are fewer rows before a row than rows.
LEMMA RankBelow ==
  ASSUME table \in [Rows -> SortKeys \cup {0}], NEW r \in Present
  PROVE  Rank(r) \in Nat /\ Rank(r) < RowCount
<1>1. Present \in SUBSET Rows /\ IsFiniteSet(Present) /\ RowCount \in Nat
  BY FS_Subset, FS_CardinalityType DEF Present, RowCount
<1>2. Ahead(r) \subseteq Present /\ r \in Rows /\ r \notin Ahead(r)
  <2>1. r \in Rows
    BY <1>1
  <2>2. ~ Precedes(r, r)
    BY <2>1, TotalOrder
  <2> QED BY <2>1, <2>2 DEF Ahead
<1>3. /\ Cardinality(Ahead(r)) <= Cardinality(Present)
      /\ Cardinality(Ahead(r)) # Cardinality(Present)
  BY <1>1, <1>2, FS_Subset
<1>4. Rank(r) \in Nat
  BY RankGrows
<1> QED BY <1>1, <1>3, <1>4 DEF Rank, RowCount

\* Where ORDER BY leaves nothing tied, the row at position i has rank i - 1.
LEMMA RankOfRow ==
  ASSUME table \in [Rows -> SortKeys \cup {0}], NEW rows \in Orders,
         listing.tiebreak \/ ~ HasTies,
         NEW i \in 1 .. Len(rows)
  PROVE  Rank(rows[i]) = i - 1
<1> DEFINE n == Len(rows)
           D == 1 .. i - 1
           A == Ahead(rows[i])
<1>1. /\ n \in Nat
      /\ \A j \in 1 .. n : rows[j] \in Present
      /\ \A j, k \in 1 .. n : rows[j] = rows[k] => j = k
      /\ \A r \in Present : \E j \in 1 .. n : rows[j] = r
      /\ \A j, k \in 1 .. n : j < k => Before(rows[j], rows[k])
  BY AllRows
<1>2. Present \subseteq Rows /\ \A r \in Rows : r \in Int /\ table[r] \in Int
  BY Keys DEF Present
<1> HIDE DEF n
<1>3. ASSUME NEW j \in 1 .. n, NEW k \in 1 .. n, j < k
      PROVE  Precedes(rows[j], rows[k])
  <2>1. /\ rows[j] \in Present /\ rows[k] \in Present /\ rows[j] # rows[k]
        /\ Before(rows[j], rows[k])
    BY <1>1, <1>3
  <2>2. CASE listing.tiebreak
    BY <2>1, <2>2, <1>2 DEF Before, Precedes
  <2>3. CASE ~ HasTies
    BY <2>1, <2>3, <1>2 DEF Before, Precedes, HasTies
  <2> QED BY <2>2, <2>3
<1>4. i \in 1 .. n /\ i \in Nat
  BY <1>1 DEF n
<1>5. ASSUME NEW j \in 1 .. n
      PROVE  rows[j] \in A <=> j < i
  <2>1. CASE j < i
    BY <2>1, <1>1, <1>3, <1>4 DEF Ahead
  <2>2. CASE j = i
    <3>1. rows[i] \in Rows
      BY <1>1, <1>2, <1>4
    <3>2. ~ Precedes(rows[i], rows[i])
      BY <3>1, TotalOrder
    <3>3. rows[i] \notin A
      BY <3>2 DEF Ahead
    <3> QED BY <3>3, <2>2, <1>4
  <2>3. CASE i < j
    <3>1. rows[i] \in Rows /\ rows[j] \in Rows /\ Precedes(rows[i], rows[j])
      BY <2>3, <1>1, <1>2, <1>3, <1>4
    <3>2. ~ Precedes(rows[j], rows[i])
      BY <3>1, TotalOrder
    <3> QED BY <3>2, <2>3, <1>4 DEF Ahead
  <2> QED BY <2>1, <2>2, <2>3, <1>4
<1> DEFINE f == [j \in D |-> rows[j]]
<1>6. f \in Bijection(D, A)
  <2>1. \A j \in D : j \in 1 .. n /\ j < i
    BY <1>1, <1>4
  <2>2. A \subseteq Present
    BY DEF Ahead
  <2> HIDE DEF A
  <2>3. f \in [D -> A]
    BY <2>1, <1>5
  <2>4. \A j, k \in D : f[j] = f[k] => j = k
    BY <2>1, <1>1
  <2>5. \A r \in A : \E j \in D : f[j] = r
    <3> SUFFICES ASSUME NEW r \in A PROVE \E j \in D : f[j] = r
      OBVIOUS
    <3>1. PICK j \in 1 .. n : rows[j] = r
      BY <2>2, <1>1
    <3>2. j \in D
      BY <3>1, <1>5, <1>4
    <3> QED BY <3>1, <3>2
  <2> HIDE DEF f, D
  <2> QED BY <2>3, <2>4, <2>5, Fun_IsBij
<1>7. IsFiniteSet(D) /\ Cardinality(D) = i - 1
  <2>1. 1 \in Int /\ i - 1 \in Int
    BY <1>4
  <2>2. IsFiniteSet(D) /\ Cardinality(D) = IF 1 > i - 1 THEN 0 ELSE i - 1 - 1 + 1
    BY <2>1, FS_Interval
  <2> QED BY <2>2, <1>4
<1> HIDE DEF f, D, A
<1>8. ExistsBijection(D, A)
  BY <1>6, Fun_ExistsBij
<1>9. Cardinality(A) = i - 1
  BY <1>7, <1>8, FS_Bijection
<1> QED BY <1>9 DEF Rank, A

-----------------------------------------------------------------------------
(* The initial states. *)

\* The pairs of a row and a number up to its count.
LEMMA PairsUpTo ==
  ASSUME NEW g \in [Rows -> Nat]
  PROVE  UNION {{r} \X (1 .. g[r]) : r \in Rows} =
           {x \in Rows \X Nat : 1 <= x[2] /\ x[2] <= g[x[1]]}
<1> DEFINE L == UNION {{r} \X (1 .. g[r]) : r \in Rows}
           R == {x \in Rows \X Nat : 1 <= x[2] /\ x[2] <= g[x[1]]}
<1>1. ASSUME NEW x \in L PROVE x \in R
  <2>1. PICK r \in Rows : x \in {r} \X (1 .. g[r])
    BY <1>1
  <2>2. PICK n \in 1 .. g[r] : x = <<r, n>>
    BY <2>1
  <2>3. g[r] \in Nat
    OBVIOUS
  <2>4. n \in Nat /\ 1 <= n /\ n <= g[r]
    BY <2>3
  <2> QED BY <2>2, <2>4
<1>2. ASSUME NEW x \in R PROVE x \in L
  <2> DEFINE r == x[1]
             n == x[2]
  <2>1. x = <<r, n>> /\ r \in Rows /\ n \in Nat /\ 1 <= n /\ n <= g[r]
    OBVIOUS
  <2> HIDE DEF r, n
  <2>2. g[r] \in Nat /\ n \in 1 .. g[r]
    BY <2>1
  <2>3. x \in {r} \X (1 .. g[r])
    BY <2>1, <2>2
  <2> QED BY <2>1, <2>3
<1> QED BY <1>1, <1>2

\* That is what the walk has returned.
LEMMA ReturnedIs ==
  ASSUME seen \in [Rows -> Nat]
  PROVE  Returned = {x \in Rows \X Nat : 1 <= x[2] /\ x[2] <= seen[x[1]]}
BY PairsUpTo DEF Returned

\* Before the walk nothing has been returned, missed or repeated.
LEMMA InitInvariant == Init => IInv
<1> SUFFICES ASSUME Init PROVE IInv
  OBVIOUS
<1>1. /\ listing \in Listings
      /\ table \in [Rows -> SortKeys \cup {0}]
      /\ client \in [pc : {"ask"}, page : AskedPages, size : AskedSizes]
      /\ client.pc = "ask" /\ client.page \in AskedPages /\ client.page \in Int
      /\ seen = [r \in Rows |-> 0] /\ changed = Unchanged /\ ambiguous = FALSE
  BY DEF Init
<1>2. seen \in [Rows -> Nat]
  BY <1>1
<1>3. Returned = {}
  BY <1>1, <1>2, ReturnedIs
<1>4. /\ IsFiniteSet({}) /\ Cardinality({}) = 0
  BY FS_EmptySet
<1>5. TypeOK
  BY <1>1, <1>2 DEF TypeOK, Unchanged
<1>6. WalkStarts /\ MoreIsThere /\ AnnouncedPageIsThere
  BY <1>1 DEF WalkStarts, MoreIsThere, AnnouncedPageIsThere, Unchanged
<1>7. changed.left = 0 /\ changed.arrived = 0 /\ changed.moved = 0
  BY <1>1 DEF Unchanged
<1>8. Boundary = 0
  <2>1. NormalizePage(client.page) = 1
    BY <1>1 DEF NormalizePage, DefaultPage
  <2>2. PageSize \in Nat
    <3>1. client.size \in Int
      BY <1>1
    <3>2. PageSize \in 1 .. MaxPageSize
      BY <3>1, <1>1, Normalised DEF PageSize
    <3> QED BY <3>2
  <2> QED BY <2>1, <2>2, Boundaries DEF Boundary
<1>9. Passed = {}
  <2>1. \A r \in Present : Rank(r) \in Nat
    BY <1>1, RankGrows
  <2> QED BY <2>1, <1>8 DEF Passed
<1>10. Missed = {} /\ Repeated = {}
  BY <1>1, <1>9 DEF Missed, Repeated, Stable, Present
<1>11. OneRowPerChange
  BY <1>4, <1>7, <1>10 DEF OneRowPerChange, Gone, Come
<1>12. WalkIsExactUpToChanges
  <2>1. {x \in Returned : x[1] \in Stable /\ x[2] > 1} = {}
    BY <1>3
  <2>2. Cardinality({x \in Returned : x[1] \in Stable /\ x[2] > 1}) = 0
    BY <2>1, <1>4
  <2> QED BY <1>1, <1>7, <2>2 DEF WalkIsExactUpToChanges
<1> QED BY <1>3, <1>4, <1>5, <1>6, <1>11, <1>12 DEF IInv
-----------------------------------------------------------------------------
(* A page is read. *)

\* What one page does to the client and to the history of the walk.
LEMMA GetFacts ==
  ASSUME IInv, Get
  PROVE  /\ Boundary \in Nat /\ PageSize \in 1 .. MaxPageSize /\ RowCount \in Nat
         /\ PageSize' = PageSize /\ Boundary' = Boundary + PageSize
         /\ client' \in [pc : {"ask", "more", "done", "missing"}, page : Int,
                         size : AskedSizes]
         /\ client'.page = NormalizePage(client.page) + 1
         /\ RowCount <= Boundary =>
              client'.pc = IF client.pc = "more" THEN "missing" ELSE "done"
         /\ Boundary < RowCount =>
              client'.pc = IF Boundary + PageSize < RowCount THEN "more" ELSE "done"
         /\ seen' \in [Rows -> Nat]
         /\ \E rows \in Orders :
              \A r \in Rows :
                seen'[r] = seen[r] +
                  IF \E i \in 1 .. RowCount :
                       Boundary < i /\ i <= Boundary + PageSize /\ rows[i] = r
                  THEN 1 ELSE 0
<1> DEFINE page == NormalizePage(client.page)
           size == NormalizePageSize(client.size)
           query == BuildQuery(client)
           n == RowCount
           k == Boundary
<1>1. /\ client \in [pc : {"ask", "more", "done", "missing"}, page : Int,
                     size : AskedSizes]
      /\ client.page \in Int /\ client.size \in Int /\ client.size \in AskedSizes
      /\ table \in [Rows -> SortKeys \cup {0}]
      /\ seen \in [Rows -> Nat]
  BY DEF IInv, TypeOK
<1>2. /\ page \in Nat \ {0} /\ size \in 1 .. MaxPageSize
      /\ NormalizePage(page) = page /\ NormalizePageSize(size) = size
  BY <1>1, Normalised
<1>3. query.page = page /\ query.size = size
  BY DEF BuildQuery
<1>4. BuildQuery(query).page = page /\ BuildQuery(query).size = size
  BY <1>2, <1>3 DEF BuildQuery
<1>5. PICK rows \in Orders :
        LET found == HandleFind(rows, query)
        IN  /\ seen' = [r \in Rows |-> seen[r] + Count(PageOf(found, query.size))[r]]
            /\ client' = [client EXCEPT !.page = query.page + 1,
                                        !.pc = Answer(found, query.size)]
  BY DEF Get
<1> DEFINE found == Select(rows, page, size)
<1>6. HandleFind(rows, query) = found
  BY <1>4 DEF HandleFind
<1> HIDE DEF page, size, query, found
<1>7. /\ seen' = [r \in Rows |-> seen[r] + Count(PageOf(found, size))[r]]
      /\ client' = [client EXCEPT !.page = page + 1, !.pc = Answer(found, size)]
  BY <1>3, <1>5, <1>6
<1>8. /\ rows \in Seq(Rows) /\ n \in Nat /\ Len(rows) = n
  BY <1>1, AllRows DEF RowCount
<1>9. size \in Nat \ {0} /\ size \in Nat
  BY <1>2
<1>10. k = Offset(page, size) /\ k \in Nat
  BY <1>2, <1>9, Boundaries DEF Boundary, PageSize, page, size
<1> HIDE DEF n, k
<1>11. /\ found = <<>> <=> n <= k
       /\ HasMore(found, size) <=> k + size < n
       /\ \A r : Contains(PageOf(found, size), r) <=>
            \E i \in 1 .. n : k < i /\ i <= k + size /\ rows[i] = r
  <2>1. /\ found = <<>> <=> Len(rows) <= k
        /\ HasMore(found, size) <=> k + size < Len(rows)
        /\ \A r : Contains(PageOf(found, size), r) <=>
             \E i \in 1 .. Len(rows) : k < i /\ i <= k + size /\ rows[i] = r
    <3>1. rows \in Seq(Rows)
      BY <1>8
    <3> QED BY <3>1, <1>9, <1>10, PageRows DEF found
  <2> QED BY <2>1, <1>8
<1>12. /\ client'.page = page + 1 /\ client'.size = client.size
       /\ client'.pc = Answer(found, size)
  BY <1>1, <1>7
<1>13. Answer(found, size) \in {"ask", "more", "done", "missing"}
  BY DEF Answer
<1>14. client' \in [pc : {"ask", "more", "done", "missing"}, page : Int,
                    size : AskedSizes]
  <2> DEFINE PCs == {"ask", "more", "done", "missing"}
             pc == Answer(found, size)
             next == [client EXCEPT !.page = page + 1, !.pc = pc]
  <2>1. page + 1 \in Int /\ pc \in PCs /\ client' = next
    BY <1>2, <1>7, <1>13
  <2>2. client \in [pc : PCs, page : Int, size : AskedSizes]
    BY <1>1
  <2> HIDE DEF PCs, pc
  <2>3. next \in [pc : PCs, page : Int, size : AskedSizes]
    BY <2>1, <2>2
  <2> HIDE DEF next
  <2> QED BY <2>1, <2>3 DEF PCs
<1>15. PageSize = size /\ PageSize' = size
  BY <1>12 DEF PageSize, size
<1>16. Boundary' = k + size
  <2>1. NormalizePage(client'.page) = page + 1
    BY <1>2, <1>12 DEF NormalizePage
  <2>2. Offset(page + 1, size) = k + size
    BY <1>2, <1>9, <1>10, Boundaries
  <2> QED BY <2>1, <2>2, <1>15 DEF Boundary
<1>17. /\ n <= k => client'.pc = IF client.pc = "more" THEN "missing" ELSE "done"
       /\ k < n => client'.pc = IF k + size < n THEN "more" ELSE "done"
  BY <1>8, <1>10, <1>11, <1>12 DEF Answer
<1>18. \A r \in Rows :
         seen'[r] = seen[r] +
           IF \E i \in 1 .. n : k < i /\ i <= k + size /\ rows[i] = r THEN 1 ELSE 0
  BY <1>7, <1>11 DEF Count
<1>19. seen' \in [Rows -> Nat]
  <2>1. \A r \in Rows : seen[r] + Count(PageOf(found, size))[r] \in Nat
    BY <1>1 DEF Count
  <2> QED BY <1>7, <2>1
<1>20. /\ Boundary \in Nat /\ PageSize \in 1 .. MaxPageSize /\ RowCount \in Nat
       /\ PageSize' = PageSize /\ Boundary' = Boundary + PageSize
       /\ client'.page = NormalizePage(client.page) + 1
  BY <1>2, <1>8, <1>10, <1>12, <1>15, <1>16 DEF page, n, k
<1> QED
  BY <1>14, <1>15, <1>17, <1>18, <1>19, <1>20 DEF n, k

\* The page ends a walk unless there are rows behind it, and the rows that the
\* walk has passed are those it was past and those of the page.
LEMMA GetPassed ==
  ASSUME IInv, Get
  PROVE  /\ client'.pc # "more" => RowCount <= Boundary'
         /\ client'.pc = "more" => Boundary' < RowCount
         /\ client'.pc # "ask" /\ client'.page >= 2
         /\ client'.pc = "missing" => client.pc = "more" /\ RowCount <= Boundary
<1>1. /\ Boundary \in Nat /\ PageSize \in Nat /\ PageSize >= 1 /\ RowCount \in Nat
      /\ Boundary' = Boundary + PageSize
      /\ client'.page = NormalizePage(client.page) + 1
      /\ RowCount <= Boundary =>
           client'.pc = IF client.pc = "more" THEN "missing" ELSE "done"
      /\ Boundary < RowCount =>
           client'.pc = IF Boundary + PageSize < RowCount THEN "more" ELSE "done"
  BY GetFacts
<1>2. client'.page >= 2
  <2>1. client.page \in Int
    BY DEF IInv, TypeOK
  <2> QED BY <1>1, <2>1 DEF NormalizePage, DefaultPage
<1>3. CASE RowCount <= Boundary
  BY <1>1, <1>2, <1>3
<1>4. CASE Boundary < RowCount
  BY <1>1, <1>2, <1>4
<1> QED BY <1>1, <1>3, <1>4

\* Where the order is certain, a page is the rows whose ranks are next.
LEMMA GetSeen ==
  ASSUME IInv, Get, ~ ambiguous'
  PROVE  /\ Asking /\ ~ ambiguous
         /\ \A r \in Present : r \in Passed' <=> Rank(r) < Boundary + PageSize
         /\ \A r \in Present :
              seen'[r] = seen[r] + IF r \in Passed' /\ r \notin Passed THEN 1 ELSE 0
         /\ Passed \subseteq Passed' /\ Stable' = Stable /\ Stable \subseteq Present
<1>1. /\ Boundary \in Nat /\ PageSize \in Nat /\ RowCount \in Nat
      /\ Boundary' = Boundary + PageSize
  BY GetFacts
<1>2. PICK rows \in Orders :
        \A r \in Rows :
          seen'[r] = seen[r] +
            IF \E i \in 1 .. RowCount :
                 Boundary < i /\ i <= Boundary + PageSize /\ rows[i] = r
            THEN 1 ELSE 0
  BY GetFacts
<1>3. /\ UNCHANGED <<listing, table, changed>>
      /\ ambiguous' = (ambiguous \/ (~listing.tiebreak /\ HasTies))
      /\ Asking
  BY DEF Get, Asking
<1>4. ~ ambiguous /\ (listing.tiebreak \/ ~ HasTies)
  <2>1. ambiguous \in BOOLEAN
    BY DEF IInv, TypeOK
  <2> QED BY <1>3, <2>1
<1>5. table \in [Rows -> SortKeys \cup {0}]
  BY DEF IInv, TypeOK
<1>6. /\ Present' = Present /\ \A r : Rank(r)' = Rank(r)
      /\ Stable' = Stable
  BY <1>3 DEF Present, Rank, Ahead, Precedes, Stable
<1>7. /\ Present \subseteq Rows /\ Stable \subseteq Present
      /\ \A r \in Present : Rank(r) \in Nat
  BY <1>5, RankGrows DEF Present, Stable
<1>8. \A r \in Present : r \in Passed' <=> Rank(r) < Boundary + PageSize
  BY <1>1, <1>6 DEF Passed
<1>9. Passed \subseteq Passed'
  <2> SUFFICES ASSUME NEW r \in Passed PROVE r \in Passed'
    OBVIOUS
  <2>1. r \in Present /\ Rank(r) < Boundary
    BY DEF Passed
  <2>2. Rank(r) \in Nat
    BY <2>1, <1>7
  <2>3. Rank(r) < Boundary + PageSize
    BY <1>1, <2>1, <2>2
  <2> QED BY <1>8, <2>1, <2>3
<1>10. ASSUME NEW r \in Present
       PROVE  (\E i \in 1 .. RowCount :
                 Boundary < i /\ i <= Boundary + PageSize /\ rows[i] = r)
                <=> r \in Passed' /\ r \notin Passed
  <2>1. /\ Len(rows) = RowCount
        /\ \A i, j \in 1 .. RowCount : rows[i] = rows[j] => i = j
        /\ \E i \in 1 .. RowCount : rows[i] = r
    BY <1>5, AllRows DEF RowCount
  <2>2. PICK j \in 1 .. RowCount : rows[j] = r
    BY <2>1
  <2>3. Rank(r) = j - 1
    BY <1>4, <1>5, <2>1, <2>2, RankOfRow
  <2>4. r \in Passed <=> Rank(r) < Boundary
    BY DEF Passed
  <2>5. r \in Passed' /\ r \notin Passed <=> Boundary < j /\ j <= Boundary + PageSize
    BY <1>1, <1>8, <2>2, <2>3, <2>4
  <2> QED BY <2>1, <2>2, <2>5
<1>11. \A r \in Present :
         seen'[r] = seen[r] + IF r \in Passed' /\ r \notin Passed THEN 1 ELSE 0
  BY <1>2, <1>7, <1>10
<1> QED BY <1>3, <1>4, <1>6, <1>7, <1>8, <1>9, <1>11

\* A page misses and repeats nothing that was not missed or repeated before.
LEMMA GetOneRowPerChange ==
  ASSUME IInv, Get, ~ ambiguous'
  PROVE  Missed' = Missed /\ Repeated' = Repeated
<1>1. /\ \A r \in Present :
           seen'[r] = seen[r] + IF r \in Passed' /\ r \notin Passed THEN 1 ELSE 0
      /\ Passed \subseteq Passed' /\ Stable' = Stable /\ Stable \subseteq Present
  BY GetSeen
<1>2. /\ \A r \in Stable : seen[r] \in Nat
      /\ Stable \subseteq Rows
  BY <1>1 DEF IInv, TypeOK, Present
<1>3. \A r \in Stable :
        r \in Passed' /\ seen'[r] = 0 <=> r \in Passed /\ seen[r] = 0
  BY <1>1, <1>2
<1>4. Missed' = Missed
  BY <1>1, <1>3 DEF Missed
<1>5. \A r \in Stable :
        seen'[r] + (IF r \in Passed' THEN 0 ELSE 1) =
          seen[r] + (IF r \in Passed THEN 0 ELSE 1)
  BY <1>1, <1>2
<1>6. Repeated' = Repeated
  BY <1>1, <1>5 DEF Repeated
<1> QED BY <1>4, <1>6

\* OneRowPerChange, and nothing is left behind a finished walk.
WalkIsCounted ==
  /\ TypeOK
  /\ IsFiniteSet(Repeated)
  /\ Cardinality(Repeated) <= Come
  /\ Cardinality(Missed) <= Gone
  /\ client.pc \in {"done", "missing"} => Present \subseteq Passed

\* What OneRowPerChange says in the middle of a walk is what is promised, and
\* it is all that is promised when no row is left.
LEMMA WalkSoFar == WalkIsCounted => WalkIsExactUpToChanges
<1> SUFFICES ASSUME WalkIsCounted PROVE WalkIsExactUpToChanges
  OBVIOUS
<1> USE DEF WalkIsCounted
<1> DEFINE Again == {x \in Returned : x[1] \in Stable /\ x[2] > 1}
<1>1. Again \subseteq Repeated
  <2> SUFFICES ASSUME NEW x \in Again PROVE x \in Repeated
    OBVIOUS
  <2>1. /\ x \in Rows \X Nat /\ x[1] \in Stable /\ x[2] > 1 /\ x[2] <= seen[x[1]]
        /\ x[1] \in Rows /\ x[2] \in Nat
    BY ReturnedIs DEF TypeOK
  <2>2. seen[x[1]] \in Nat
    BY <2>1 DEF TypeOK
  <2>3. 2 <= x[2] /\ x[2] <= seen[x[1]] + (IF x[1] \in Passed THEN 0 ELSE 1)
    BY <2>1, <2>2
  <2> QED BY <2>1, <2>3 DEF Repeated
<1>2. /\ IsFiniteSet(Again)
      /\ Cardinality(Again) <= Cardinality(Repeated)
      /\ Cardinality(Again) \in Int /\ Cardinality(Repeated) \in Int
  BY <1>1, FS_Subset, FS_CardinalityType
<1>3. Come \in Nat
  BY DEF TypeOK, Come
<1>5. Cardinality(Again) <= Come
  BY <1>2, <1>3
<1>6. client.pc \in {"done", "missing"} => {r \in Stable : seen[r] = 0} = Missed
  BY DEF Missed, Stable
<1> HIDE DEF Again
<1> QED BY <1>5, <1>6 DEF WalkIsExactUpToChanges, Again, Gone, Come

\* A page adds at most PageSize to what has been returned.
LEMMA GetReturned ==
  ASSUME IInv, Get
  PROVE  /\ IsFiniteSet(Returned')
         /\ Cardinality(Returned') <= Cardinality(Returned) + PageSize
         /\ Cardinality(Returned') \in Nat /\ Cardinality(Returned) \in Nat
<1> DEFINE k == Boundary
           s == PageSize
           D == k + 1 .. k + s
<1>1. k \in Nat /\ s \in Nat /\ seen' \in [Rows -> Nat] /\ seen \in [Rows -> Nat]
  BY GetFacts DEF IInv, TypeOK
<1>2. PICK rows \in Orders :
        \A r \in Rows :
          seen'[r] = seen[r] +
            IF \E i \in 1 .. RowCount : k < i /\ i <= k + s /\ rows[i] = r
            THEN 1 ELSE 0
  BY GetFacts
<1> DEFINE f == [i \in D |-> <<rows[i], seen[rows[i]] + 1>>]
           E == {f[i] : i \in D}
<1> HIDE DEF k, s
<1>3. IsFiniteSet(D) /\ Cardinality(D) = s
  <2> DEFINE a == k + 1
             b == k + s
  <2>1. a \in Int /\ b \in Int /\ (IF a > b THEN 0 ELSE b - a + 1) = s
    BY <1>1
  <2> HIDE DEF a, b
  <2>2. IsFiniteSet(a .. b) /\ Cardinality(a .. b) = IF a > b THEN 0 ELSE b - a + 1
    BY <2>1, FS_Interval
  <2> QED BY <2>1, <2>2 DEF a, b
<1>4. IsFiniteSet(E) /\ Cardinality(E) <= s
  <2>1. f \in Surjection(D, E)
    <3>1. f \in [D -> E] /\ \A x \in E : \E i \in D : f[i] = x
      OBVIOUS
    <3> HIDE DEF f, E, D
    <3> QED BY <3>1, Fun_IsSurj
  <2> HIDE DEF f, E, D
  <2> QED BY <1>3, <2>1, FS_Surjection
<1>5. Returned' \subseteq Returned \cup E
  <2> SUFFICES ASSUME NEW x \in Returned', x \notin E PROVE x \in Returned
    OBVIOUS
  <2>1. Returned' = {y \in Rows \X Nat : 1 <= y[2] /\ y[2] <= seen'[y[1]]}
    BY <1>1, PairsUpTo DEF Returned
  <2>2. /\ x \in Rows \X Nat /\ x[1] \in Rows /\ x[2] \in Nat
        /\ 1 <= x[2] /\ x[2] <= seen'[x[1]]
        /\ x = <<x[1], x[2]>>
    BY <2>1
  <2>3. seen[x[1]] \in Nat /\ seen'[x[1]] \in Nat
    BY <1>1, <2>2
  <2>4. CASE x[2] <= seen[x[1]]
    BY <1>1, <2>2, <2>4, ReturnedIs
  <2>5. CASE ~ (x[2] <= seen[x[1]])
    <3> DEFINE onPage == \E i \in 1 .. RowCount : k < i /\ i <= k + s /\ rows[i] = x[1]
    <3>1. seen'[x[1]] = seen[x[1]] + IF onPage THEN 1 ELSE 0
      BY <1>2, <2>2
    <3> HIDE DEF onPage
    <3>2. onPage /\ x[2] = seen[x[1]] + 1
      BY <2>2, <2>3, <2>5, <3>1
    <3>3. PICK i \in 1 .. RowCount : k < i /\ i <= k + s /\ rows[i] = x[1]
      BY <3>2 DEF onPage
    <3>4. RowCount \in Nat
      BY GetFacts
    <3>5. i \in D
      BY <1>1, <3>3, <3>4
    <3>6. x = f[i]
      BY <2>2, <3>2, <3>3, <3>5
    <3> QED BY <3>5, <3>6
  <2> QED BY <2>4, <2>5
<1> HIDE DEF E
<1>6. IsFiniteSet(Returned)
  BY DEF IInv
<1>7. /\ IsFiniteSet(Returned \cup E)
      /\ Cardinality(Returned \cup E) =
           Cardinality(Returned) + Cardinality(E) - Cardinality(Returned \cap E)
  BY <1>4, <1>6, FS_Union
<1>8. /\ IsFiniteSet(Returned')
      /\ Cardinality(Returned') <= Cardinality(Returned \cup E)
  BY <1>5, <1>7, FS_Subset
<1>9. /\ Cardinality(Returned') \in Nat /\ Cardinality(Returned) \in Nat
      /\ Cardinality(Returned \cup E) \in Nat /\ Cardinality(E) \in Nat
  BY <1>4, <1>6, <1>7, <1>8, FS_CardinalityType
<1>10. Cardinality(Returned \cap E) \in Nat
  <2>1. IsFiniteSet(Returned \cap E)
    BY <1>6, FS_Subset
  <2> QED BY <2>1, FS_CardinalityType
<1> QED BY <1>1, <1>4, <1>7, <1>8, <1>9, <1>10 DEF s

\* Reading a page keeps the invariant.
LEMMA GetInvariant == IInv /\ Get => IInv'
<1> SUFFICES ASSUME IInv, Get PROVE IInv'
  OBVIOUS
<1>1. /\ UNCHANGED <<listing, table, changed>>
      /\ ambiguous' = (ambiguous \/ (~listing.tiebreak /\ HasTies))
      /\ Asking
  BY DEF Get, Asking
<1>2. /\ Boundary \in Nat /\ PageSize \in 1 .. MaxPageSize
      /\ PageSize' = PageSize /\ Boundary' = Boundary + PageSize
      /\ client' \in [pc : {"ask", "more", "done", "missing"}, page : Int,
                      size : AskedSizes]
      /\ client'.page = NormalizePage(client.page) + 1
      /\ seen' \in [Rows -> Nat]
  BY GetFacts
<1>3. /\ client'.pc # "more" => RowCount <= Boundary'
      /\ client'.pc = "more" => Boundary' < RowCount
      /\ client'.pc # "ask" /\ client'.page >= 2
      /\ client'.pc = "missing" => client.pc = "more" /\ RowCount <= Boundary
  BY GetPassed
<1>4. /\ IsFiniteSet(Returned')
      /\ Cardinality(Returned') <= Cardinality(Returned) + PageSize
      /\ Cardinality(Returned') \in Nat /\ Cardinality(Returned) \in Nat
  BY GetReturned
<1>5. Cardinality(Returned') <= (client'.page - 1) * MaxPageSize
  <2>1. MaxPageSize \in Nat /\ client.page \in Int /\ PageSize \in Nat
        /\ PageSize <= MaxPageSize
    BY <1>2 DEF IInv, TypeOK
  <2>2. CASE client.pc = "ask"
    <3>1. NormalizePage(client.page) = 1
      <4>1. client.page <= 1
        BY <2>2 DEF IInv, WalkStarts
      <4> QED BY <2>1, <4>1 DEF NormalizePage, DefaultPage
    <3>2. Returned = {}
      <4>1. seen = [r \in Rows |-> 0] /\ seen \in [Rows -> Nat]
        BY <2>2 DEF IInv, WalkStarts, TypeOK
      <4> QED BY <4>1, ReturnedIs
    <3>3. Cardinality(Returned) = 0
      BY <3>2, FS_EmptySet
    <3>4. client'.page - 1 = 1 /\ 1 * MaxPageSize = MaxPageSize
      BY <1>2, <2>1, <3>1
    <3> QED BY <1>4, <2>1, <3>3, <3>4
  <2>3. CASE client.pc = "more"
    <3>1. Cardinality(Returned) <= (client.page - 1) * MaxPageSize
      BY <2>3 DEF IInv, TypeOK
    <3>2. client.page >= 2 /\ NormalizePage(client.page) = client.page
      BY <2>1, <2>3 DEF IInv, WalkStarts, NormalizePage
    <3>3. PICK p \in Nat : client.page = p + 1
      <4>1. client.page - 1 \in Nat /\ client.page = (client.page - 1) + 1
        BY <2>1, <3>2
      <4> QED BY <4>1
    <3>4. client.page - 1 = p /\ client'.page - 1 = p + 1
      BY <1>2, <3>2, <3>3
    <3>5. (p + 1) * MaxPageSize = p * MaxPageSize + MaxPageSize /\ p * MaxPageSize \in Nat
      BY <2>1
    <3> QED BY <1>4, <2>1, <3>1, <3>4, <3>5
  <2> QED BY <1>1, <2>2, <2>3 DEF Asking
<1>6. TypeOK'
  <2>1. ambiguous' \in BOOLEAN
    BY <1>1 DEF IInv, TypeOK
  <2> QED BY <1>1, <1>2, <1>5, <2>1 DEF IInv, TypeOK
<1>7. WalkStarts'
  BY <1>3 DEF WalkStarts
<1>8. Present' = Present /\ RowCount' = RowCount
  BY <1>1 DEF Present, RowCount
<1>10. MoreIsThere'
  BY <1>3, <1>8 DEF MoreIsThere
<1>11. AnnouncedPageIsThere'
  <2>1. CASE client'.pc = "missing"
    <3>1. client.pc = "more" /\ ~ (Boundary < RowCount)
      <4>1. RowCount \in Nat
        BY GetFacts
      <4> QED BY <1>2, <1>3, <2>1, <4>1
    <3>2. changed.left \in Nat /\ changed.left # 0
      BY <3>1 DEF IInv, TypeOK, MoreIsThere
    <3> QED BY <1>1, <3>2 DEF AnnouncedPageIsThere
  <2> QED BY <2>1 DEF AnnouncedPageIsThere
<1>12. OneRowPerChange' /\ WalkIsExactUpToChanges'
  <2>1. CASE ambiguous'
    BY <2>1 DEF OneRowPerChange, WalkIsExactUpToChanges
  <2>2. CASE ~ ambiguous'
    <3>1. Missed' = Missed /\ Repeated' = Repeated /\ Asking /\ ~ ambiguous
      BY <2>2, GetOneRowPerChange, GetSeen
    <3>2. /\ IsFiniteSet(Repeated')
          /\ Cardinality(Repeated') <= Come'
          /\ Cardinality(Missed') <= Gone'
      BY <1>1, <3>1 DEF IInv, OneRowPerChange, Gone, Come
    <3>3. client'.pc \in {"done", "missing"} => Present' \subseteq Passed'
      <4> SUFFICES ASSUME client'.pc \in {"done", "missing"}, NEW r \in Present
                   PROVE  r \in Passed'
        BY <1>8
      <4>1. RowCount <= Boundary' /\ RowCount \in Nat
        BY <1>3, GetFacts
      <4>2. Rank(r) < RowCount /\ Rank(r) \in Nat
        BY RankBelow DEF IInv, TypeOK
      <4> QED BY <1>2, <2>2, <4>1, <4>2, GetSeen
    <3>4. WalkIsExactUpToChanges'
      <4>1. WalkIsCounted'
        BY <1>6, <3>2, <3>3 DEF WalkIsCounted
      <4> QED BY <4>1, WalkSoFar, PTL
    <3> QED BY <3>2, <3>4 DEF OneRowPerChange, Gone, Come
  <2> QED BY <2>1, <2>2
<1> QED BY <1>4, <1>6, <1>7, <1>10, <1>11, <1>12 DEF IInv

-----------------------------------------------------------------------------
(* A row changes. *)

\* One more element makes a set larger by at most one.
LEMMA OneMore ==
  ASSUME NEW S, IsFiniteSet(S), NEW x, NEW T, T \subseteq S \cup {x}
  PROVE  /\ IsFiniteSet(T) /\ Cardinality(T) \in Nat /\ Cardinality(S) \in Nat
         /\ Cardinality(T) <= Cardinality(S) + 1
         /\ T \subseteq S => Cardinality(T) <= Cardinality(S)
<1>1. /\ IsFiniteSet(S \cup {x})
      /\ Cardinality(S \cup {x}) = IF x \in S THEN Cardinality(S) ELSE Cardinality(S) + 1
  BY FS_AddElement
<1>2. IsFiniteSet(T) /\ Cardinality(T) <= Cardinality(S \cup {x})
  BY <1>1, FS_Subset
<1>3. T \subseteq S => Cardinality(T) <= Cardinality(S)
  BY FS_Subset
<1>4. Cardinality(T) \in Nat /\ Cardinality(S) \in Nat
  BY <1>2, FS_CardinalityType
<1> QED BY <1>1, <1>2, <1>3, <1>4

\* The table changes in row r, and nothing else does but the history.
RowChanges(r) ==
  /\ UNCHANGED <<listing, client, seen, ambiguous>>
  /\ table \in [Rows -> SortKeys \cup {0}]
  /\ table' \in [Rows -> SortKeys \cup {0}]
  /\ \A s \in Rows : s # r => table'[s] = table[s]
  /\ Stable' \subseteq Stable
  /\ r \notin Stable'

\* The others move up or down by at most one place.
LEMMA RankChanges ==
  ASSUME NEW r \in Rows, RowChanges(r), NEW s \in Stable'
  PROVE  /\ s \in Present /\ s \in Present'
         /\ Rank(s) \in Nat /\ Rank(s)' \in Nat
         /\ Rank(s)' <= Rank(s) + 1 /\ Rank(s) <= Rank(s)' + 1
         /\ r \notin Present => Rank(s) <= Rank(s)'
         /\ r \notin Present' => Rank(s)' <= Rank(s)
<1> DEFINE A == Ahead(s)
           B == Ahead(s)'
<1>1. /\ s \in Present /\ s \in Present' /\ s \in Rows /\ s # r
      /\ Present \subseteq Rows /\ Present' \subseteq Rows
  BY DEF RowChanges, Stable, Present
<1>2. A \subseteq Rows /\ B \subseteq Rows
  BY <1>1 DEF Ahead
<1>3. IsFiniteSet(A) /\ IsFiniteSet(B)
  BY <1>2, FS_Subset
<1>4. A \ {r} = B \ {r}
  <2>1. \A t \in Rows : t # r => (t \in Present' <=> t \in Present)
    BY DEF RowChanges, Present
  <2>2. \A t \in Rows : t # r => (Precedes(t, s)' <=> Precedes(t, s))
    BY <1>1 DEF RowChanges, Precedes
  <2> QED BY <1>1, <2>1, <2>2 DEF Ahead
<1>5. /\ r \notin Present => r \notin A
      /\ r \notin Present' => r \notin B
  BY DEF Ahead
<1>6. Rank(s) = Cardinality(A) /\ Rank(s)' = Cardinality(B)
  BY DEF Rank
<1> HIDE DEF A, B
<1>7. /\ Cardinality(A) = Cardinality(B \ {r}) + (IF r \in A THEN 1 ELSE 0)
      /\ Cardinality(B) = Cardinality(B \ {r}) + (IF r \in B THEN 1 ELSE 0)
      /\ Cardinality(B \ {r}) \in Nat
  <2> DEFINE a == Cardinality(A)
             b == Cardinality(B)
  <2>1. a \in Nat /\ b \in Nat
    BY <1>3, FS_CardinalityType
  <2>2. Cardinality(A \ {r}) = IF r \in A THEN a - 1 ELSE a
    BY <1>3, FS_RemoveElement
  <2>3. Cardinality(B \ {r}) = IF r \in B THEN b - 1 ELSE b
    BY <1>3, FS_RemoveElement
  <2>4. IsFiniteSet(B \ {r})
    BY <1>3, FS_RemoveElement
  <2>5. Cardinality(B \ {r}) \in Nat
    BY <2>4, FS_CardinalityType
  <2> HIDE DEF a, b
  <2>6. a = Cardinality(B \ {r}) + (IF r \in A THEN 1 ELSE 0)
    <3>1. Cardinality(A \ {r}) = Cardinality(B \ {r})
      BY <1>4, Zenon
    <3> QED BY <2>1, <2>2, <3>1
  <2>7. b = Cardinality(B \ {r}) + (IF r \in B THEN 1 ELSE 0)
    BY <2>1, <2>3
  <2> QED BY <2>5, <2>6, <2>7 DEF a, b
<1> QED BY <1>1, <1>5, <1>6, <1>7

\* Only the client moves the boundary.
LEMMA CrossingBoundary ==
  ASSUME IInv, UNCHANGED client
  PROVE  Boundary \in Nat /\ Boundary' = Boundary
<1>1. client.page \in Int /\ client.size \in Int
  BY DEF IInv, TypeOK
<1>2. NormalizePage(client.page) \in Nat \ {0} /\ PageSize \in 1 .. MaxPageSize
  BY <1>1, Normalised DEF PageSize
<1>3. PageSize \in Nat
  BY <1>2
<1>4. Boundary \in Nat
  BY <1>2, <1>3, Boundaries DEF Boundary
<1> QED BY <1>4 DEF Boundary, PageSize

\* One of them may come to be missed, the first that was not passed, and one to
\* be repeated, the last that was.
LEMMA CrossingRows ==
  ASSUME IInv, client.pc = "more", NEW r \in Rows, RowChanges(r)
  PROVE  /\ \E m : Missed' \subseteq Missed \cup {m}
         /\ \E x : Repeated' \subseteq Repeated \cup {x}
         /\ r \notin Present => Missed' \subseteq Missed
         /\ r \notin Present' => Repeated' \subseteq Repeated
<1> DEFINE k == Boundary
           first == CHOOSE s \in Present : Rank(s) = k
           last == CHOOSE s \in Present : Rank(s) = k - 1
           x == <<last, seen[last] + 1>>
<1>1. k \in Nat /\ Boundary' = k
  BY CrossingBoundary DEF RowChanges
<1>2. \A s, t \in Present : Rank(s) = Rank(t) => s = t
  BY RankGrows DEF RowChanges
<1>3. \A s \in Present : (Rank(s) = k => s = first) /\ (Rank(s) = k - 1 => s = last)
  BY <1>2
<1> HIDE DEF k, first, last
<1>4. seen' = seen /\ Stable' \subseteq Stable
  BY DEF RowChanges
<1>5. ASSUME NEW s \in Missed', s \notin Missed
      PROVE  s = first /\ r \in Present
  <2>1. s \in Stable' /\ seen[s] = 0 /\ Rank(s)' < k
    BY <1>1, <1>4, <1>5 DEF Missed, Passed
  <2>2. s \in Present /\ Rank(s) \in Nat /\ Rank(s)' \in Nat
        /\ Rank(s) <= Rank(s)' + 1
        /\ (r \notin Present => Rank(s) <= Rank(s)')
    BY <2>1, RankChanges
  <2>3. ~ (Rank(s) < k)
    BY <1>4, <1>5, <2>1, <2>2 DEF Missed, Passed, k
  <2>4. Rank(s) = k /\ r \in Present
    BY <1>1, <2>1, <2>2, <2>3
  <2> QED BY <1>3, <2>2, <2>4
<1>6. ASSUME NEW y \in Repeated', y \notin Repeated
      PROVE  y = x /\ r \in Present'
  <2> DEFINE s == y[1]
  <2>1. /\ y \in Rows \X Nat /\ y = <<s, y[2]>> /\ s \in Stable' /\ 2 <= y[2]
        /\ y[2] <= seen[s] + (IF s \in Passed' THEN 0 ELSE 1)
        /\ s \in Rows /\ y[2] \in Nat
    BY <1>4, <1>6 DEF Repeated
  <2> HIDE DEF s
  <2>2. /\ s \in Present /\ s \in Present' /\ Rank(s) \in Nat /\ Rank(s)' \in Nat
        /\ Rank(s)' <= Rank(s) + 1
        /\ (r \notin Present' => Rank(s)' <= Rank(s))
    BY <2>1, RankChanges
  <2>3. ~ (y[2] <= seen[s] + (IF s \in Passed THEN 0 ELSE 1))
    BY <1>4, <1>6, <2>1 DEF Repeated, s
  <2>4. seen[s] \in Nat
    BY <2>1 DEF IInv, TypeOK
  <2>5. s \notin Passed' /\ s \in Passed /\ y[2] = seen[s] + 1
    BY <2>1, <2>3, <2>4
  <2>6. Rank(s) < k /\ ~ (Rank(s)' < k)
    BY <1>1, <2>2, <2>5 DEF Passed, k
  <2>7. Rank(s) = k - 1 /\ r \in Present'
    BY <1>1, <2>2, <2>6
  <2> QED BY <1>3, <2>1, <2>2, <2>5, <2>7
<1> HIDE DEF x
<1>7. Missed' \subseteq Missed \cup {first} /\ (r \notin Present => Missed' \subseteq Missed)
  BY <1>5
<1>8. Repeated' \subseteq Repeated \cup {x} /\ (r \notin Present' => Repeated' \subseteq Repeated)
  BY <1>6
<1> QED BY <1>7, <1>8

\* A change keeps the invariant if it is counted: as an arrival if a row comes
\* in, as a departure if one goes, and as a move otherwise.
LEMMA ChangeInvariant ==
  ASSUME IInv, client.pc = "more", NEW r \in Rows, RowChanges(r),
         changed' \in [arrived : Nat, left : Nat, moved : Nat, rows : SUBSET Rows],
         MoreIsThere',
         \/ r \notin Present /\ Gone' = Gone /\ Come' = Come + 1
         \/ r \notin Present' /\ Gone' = Gone + 1 /\ Come' = Come
         \/ Gone' = Gone + 1 /\ Come' = Come + 1
  PROVE  IInv'
<1>1. /\ UNCHANGED <<listing, client, seen, ambiguous>>
      /\ table' \in [Rows -> SortKeys \cup {0}]
  BY DEF RowChanges
<1>2. Returned' = Returned
  BY <1>1 DEF Returned
<1>3. TypeOK'
  BY <1>1, <1>2 DEF IInv, TypeOK
<1>4. WalkStarts'
  BY <1>1 DEF IInv, WalkStarts
<1>5. AnnouncedPageIsThere'
  BY <1>1 DEF AnnouncedPageIsThere
<1>6. OneRowPerChange' /\ WalkIsExactUpToChanges'
  <2>1. CASE ambiguous'
    BY <2>1 DEF OneRowPerChange, WalkIsExactUpToChanges
  <2>2. CASE ~ ambiguous'
    <3>1. /\ Cardinality(Missed) <= Gone /\ Cardinality(Repeated) <= Come
          /\ IsFiniteSet(Repeated)
      BY <1>1, <2>2 DEF IInv, OneRowPerChange, Asking
    <3>2. /\ IsFiniteSet(Missed)
          /\ Gone \in Nat /\ Come \in Nat
      <4>1. Missed \in SUBSET Rows
        BY DEF Missed, Stable, Present
      <4>2. IsFiniteSet(Missed)
        BY <4>1, FS_Subset
      <4> QED BY <4>2 DEF IInv, TypeOK, Gone, Come
    <3>3. PICK m : Missed' \subseteq Missed \cup {m}
      BY CrossingRows
    <3>4. PICK x : Repeated' \subseteq Repeated \cup {x}
      BY CrossingRows
    <3>5. /\ r \notin Present => Missed' \subseteq Missed
          /\ r \notin Present' => Repeated' \subseteq Repeated
      BY CrossingRows
    <3>6. /\ Cardinality(Missed') \in Nat /\ Cardinality(Missed) \in Nat
          /\ Cardinality(Missed') <= Cardinality(Missed) + 1
          /\ r \notin Present => Cardinality(Missed') <= Cardinality(Missed)
      BY <3>2, <3>3, <3>5, OneMore
    <3>7. /\ IsFiniteSet(Repeated')
          /\ Cardinality(Repeated') \in Nat /\ Cardinality(Repeated) \in Nat
          /\ Cardinality(Repeated') <= Cardinality(Repeated) + 1
          /\ r \notin Present' => Cardinality(Repeated') <= Cardinality(Repeated)
      BY <3>1, <3>4, <3>5, OneMore
    <3>8. Cardinality(Missed') <= Gone' /\ Cardinality(Repeated') <= Come'
      BY <3>1, <3>2, <3>6, <3>7
    <3>9. WalkIsCounted'
      BY <1>1, <1>3, <3>7, <3>8 DEF WalkIsCounted, Gone, Come
    <3>10. WalkIsExactUpToChanges'
      BY <3>9, WalkSoFar, PTL
    <3> QED BY <3>7, <3>8, <3>10 DEF OneRowPerChange
  <2> QED BY <2>1, <2>2
<1> QED BY <1>2, <1>3, <1>4, <1>5, <1>6 DEF IInv

\* A row arrives.
LEMMA ArrivesInvariant ==
  ASSUME IInv, NEW r \in Rows, Arrives(r)
  PROVE  IInv'
<1>1. /\ client.pc = "more" /\ table[r] = 0
      /\ changed' = [changed EXCEPT !.arrived = @ + 1, !.rows = @ \cup {r}]
      /\ UNCHANGED <<listing, client, seen, ambiguous>>
  BY DEF Arrives, MayChange
<1>2. PICK key \in SortKeys : table' = [table EXCEPT ![r] = key]
  BY DEF Arrives
<1>3. /\ table \in [Rows -> SortKeys \cup {0}]
      /\ changed \in [arrived : Nat, left : Nat, moved : Nat, rows : SUBSET Rows]
  BY DEF IInv, TypeOK
<1>4. /\ table' \in [Rows -> SortKeys \cup {0}]
      /\ table'[r] # 0 /\ \A s \in Rows : s # r => table'[s] = table[s]
  BY <1>2, <1>3
<1>5. /\ changed'.arrived = changed.arrived + 1 /\ changed'.rows = changed.rows \cup {r}
      /\ changed'.left = changed.left /\ changed'.moved = changed.moved
      /\ changed' \in [arrived : Nat, left : Nat, moved : Nat, rows : SUBSET Rows]
  <2>1. changed.arrived + 1 \in Nat /\ changed.rows \cup {r} \in SUBSET Rows
    BY <1>3
  <2>2. \A n \in Nat, s \in SUBSET Rows :
          LET next == [changed EXCEPT !.arrived = n, !.rows = s]
          IN  /\ next.arrived = n /\ next.rows = s
              /\ next.left = changed.left /\ next.moved = changed.moved
              /\ next \in [arrived : Nat, left : Nat, moved : Nat, rows : SUBSET Rows]
    BY <1>3
  <2> QED BY <1>1, <2>1, <2>2
<1>6. Present' = Present \cup {r} /\ r \notin Present
  BY <1>1, <1>4 DEF Present
<1>7. RowChanges(r)
  BY <1>1, <1>3, <1>4, <1>5, <1>6 DEF RowChanges, Stable
<1>9. MoreIsThere'
  <2>1. RowCount' = RowCount + 1 /\ RowCount \in Nat
    <3>1. Present \in SUBSET Rows
      BY DEF Present
    <3>2. IsFiniteSet(Present)
      BY <3>1, FS_Subset
    <3> QED BY <1>6, <3>2, FS_AddElement, FS_CardinalityType DEF RowCount
  <2>2. Boundary' = Boundary /\ Boundary \in Nat
    BY <1>1, CrossingBoundary
  <2>3. changed.left = 0 => Boundary < RowCount
    BY <1>1 DEF IInv, MoreIsThere
  <2> QED BY <1>5, <2>1, <2>2, <2>3 DEF MoreIsThere
<1>10. Gone' = Gone /\ Come' = Come + 1
  BY <1>3, <1>5 DEF Gone, Come
<1> QED BY <1>1, <1>5, <1>6, <1>7, <1>9, <1>10, ChangeInvariant

\* A row leaves.
LEMMA LeavesInvariant ==
  ASSUME IInv, NEW r \in Rows, Leaves(r)
  PROVE  IInv'
<1>1. /\ client.pc = "more" /\ r \in Present
      /\ table' = [table EXCEPT ![r] = 0]
      /\ changed' = [changed EXCEPT !.left = @ + 1]
      /\ UNCHANGED <<listing, client, seen, ambiguous>>
  BY DEF Leaves, MayChange
<1>2. /\ table \in [Rows -> SortKeys \cup {0}]
      /\ changed \in [arrived : Nat, left : Nat, moved : Nat, rows : SUBSET Rows]
  BY DEF IInv, TypeOK
<1>3. /\ table' \in [Rows -> SortKeys \cup {0}]
      /\ table'[r] = 0 /\ \A s \in Rows : s # r => table'[s] = table[s]
  BY <1>1, <1>2
<1>4. /\ changed'.left = changed.left + 1 /\ changed'.rows = changed.rows
      /\ changed'.arrived = changed.arrived /\ changed'.moved = changed.moved
      /\ changed' \in [arrived : Nat, left : Nat, moved : Nat, rows : SUBSET Rows]
  BY <1>1, <1>2
<1>5. Present' = Present \ {r}
  BY <1>3 DEF Present
<1>6. RowChanges(r)
  BY <1>1, <1>2, <1>3, <1>4, <1>5 DEF RowChanges, Stable
<1>8. MoreIsThere'
  BY <1>2, <1>4 DEF MoreIsThere
<1>9. Gone' = Gone + 1 /\ Come' = Come
  BY <1>2, <1>4 DEF Gone, Come
<1>10. r \notin Present'
  BY <1>5
<1> QED BY <1>1, <1>4, <1>6, <1>8, <1>9, <1>10, ChangeInvariant

\* A row moves.
LEMMA MovesInvariant ==
  ASSUME IInv, NEW r \in Rows, Moves(r)
  PROVE  IInv'
<1>1. /\ client.pc = "more" /\ r \in Present
      /\ changed' = [changed EXCEPT !.moved = @ + 1, !.rows = @ \cup {r}]
      /\ UNCHANGED <<listing, client, seen, ambiguous>>
  BY DEF Moves, MayChange
<1>2. PICK key \in SortKeys : table' = [table EXCEPT ![r] = key]
  BY DEF Moves
<1>3. /\ table \in [Rows -> SortKeys \cup {0}]
      /\ changed \in [arrived : Nat, left : Nat, moved : Nat, rows : SUBSET Rows]
  BY DEF IInv, TypeOK
<1>4. /\ table' \in [Rows -> SortKeys \cup {0}]
      /\ table'[r] # 0 /\ \A s \in Rows : s # r => table'[s] = table[s]
  BY <1>2, <1>3
<1>5. /\ changed'.moved = changed.moved + 1 /\ changed'.rows = changed.rows \cup {r}
      /\ changed'.arrived = changed.arrived /\ changed'.left = changed.left
      /\ changed' \in [arrived : Nat, left : Nat, moved : Nat, rows : SUBSET Rows]
  <2>1. changed.moved + 1 \in Nat /\ changed.rows \cup {r} \in SUBSET Rows
    BY <1>3
  <2>2. \A n \in Nat, s \in SUBSET Rows :
          LET next == [changed EXCEPT !.moved = n, !.rows = s]
          IN  /\ next.moved = n /\ next.rows = s
              /\ next.arrived = changed.arrived /\ next.left = changed.left
              /\ next \in [arrived : Nat, left : Nat, moved : Nat, rows : SUBSET Rows]
    BY <1>3
  <2> QED BY <1>1, <2>1, <2>2
<1>6. Present' = Present
  BY <1>1, <1>4 DEF Present
<1>7. RowChanges(r)
  BY <1>1, <1>3, <1>4, <1>5, <1>6 DEF RowChanges, Stable
<1>9. MoreIsThere'
  <2>1. Boundary' = Boundary
    BY <1>1, CrossingBoundary
  <2> QED BY <1>1, <1>5, <1>6, <2>1 DEF IInv, MoreIsThere, RowCount
<1>10. Gone' = Gone + 1 /\ Come' = Come + 1
  BY <1>3, <1>5 DEF Gone, Come
<1> QED BY <1>1, <1>5, <1>7, <1>9, <1>10, ChangeInvariant
-----------------------------------------------------------------------------
(* The theorems. *)

\* The invariant holds in every reachable state.
THEOREM ListingInvariance == Spec => []IInv
<1>1. Init => IInv
  BY InitInvariant
<1>2. IInv /\ [Next]_vars => IInv'
  <2> SUFFICES ASSUME IInv, [Next]_vars PROVE IInv'
    OBVIOUS
  <2>1. CASE UNCHANGED vars
    BY <2>1 DEF vars, IInv, TypeOK, Returned, WalkStarts, MoreIsThere,
                OneRowPerChange, Gone, Come, Asking, WalkIsExactUpToChanges,
                AnnouncedPageIsThere, Boundary, PageSize, RowCount, Present, Missed,
                Repeated, Stable, Passed, Rank, Ahead, Precedes
  <2>2. CASE Get
    BY <2>2, GetInvariant
  <2>3. ASSUME NEW r \in Rows, Arrives(r) \/ Leaves(r) \/ Moves(r)
        PROVE  IInv'
    BY <2>3, ArrivesInvariant, LeavesInvariant, MovesInvariant
  <2> QED BY <2>1, <2>2, <2>3 DEF Next
<1> QED BY <1>1, <1>2, PTL DEF Spec

\* The variables keep their types, and no page is longer than MaxPageSize.
THEOREM ListingTypes == Spec => []TypeOK
<1>1. IInv => TypeOK
  BY DEF IInv
<1> QED BY <1>1, ListingInvariance, PTL

\* A walk misses and repeats at most one row for each change of another row,
\* however often a row changes.
THEOREM ExactWalks == Spec => []WalkIsExactUpToChanges
<1>1. IInv => WalkIsExactUpToChanges
  BY DEF IInv
<1> QED BY <1>1, ListingInvariance, PTL

\* A page that hasMore announces is there unless rows have left.
THEOREM AnnouncedPages == Spec => []AnnouncedPageIsThere
<1>1. IInv => AnnouncedPageIsThere
  BY DEF IInv
<1> QED BY <1>1, ListingInvariance, PTL
=============================================================================
