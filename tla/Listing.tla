------------------------------ MODULE Listing ------------------------------
(***************************************************************************)
(* The paginated listings of wallet-query (wallets, transactions, ledger   *)
(* entries and movements, dead letters), read page by page while           *)
(* projection, reprocessing and replay change the rows between two pages.  *)
(*                                                                         *)
(* Every page is one SELECT with LIMIT and OFFSET.  A row is its primary   *)
(* key, a natural number, and the value of the column the listing is       *)
(* sorted by; rows that do not pass the filters are not there.  Descending *)
(* listings reverse both sort columns: they are the mirror image of these. *)
(***************************************************************************)
EXTENDS Integers, Sequences, FiniteSets, SequencesExt

CONSTANTS
  Rows,             \* primary keys
  SortKeys,         \* values of the sort column
  Listings,         \* the kinds of listings, see below
  DefaultPageSize,  \* 20 in the code
  MaxPageSize,      \* 100 in the code
  AskedPages,       \* page parameters of the first request, at most 1
  AskedSizes,       \* pageSize parameters
  MaxChanges        \* bound: changes of the table during a walk

\* tiebreak: a second sort column that no two rows share; moves: the sort
\* column of a row may be updated.
ASSUME ListingsAssumption == Listings \subseteq [tiebreak : BOOLEAN, moves : BOOLEAN]
ASSUME RowsAssumption ==
  Rows \subseteq Nat /\ IsFiniteSet(Rows) /\ SortKeys \subseteq Nat \ {0}
ASSUME SizesAssumption ==
  /\ {DefaultPageSize, MaxPageSize} \subseteq Nat \ {0}
  /\ DefaultPageSize <= MaxPageSize
  /\ AskedSizes \subseteq Int /\ AskedPages \subseteq Int
  /\ \A page \in AskedPages : page <= 1

VARIABLES
  listing,   \* which listing is read
  table,     \* the sort column of each row, 0 for a row that is not there
  client,    \* the client's next request, and whether it has finished
  seen,      \* history: how often the walk has returned each row
  changed,   \* history: the changes since the walk began, and their rows
  ambiguous  \* history: a page was cut out of rows that ORDER BY leaves tied

vars == <<listing, table, client, seen, changed, ambiguous>>
-----------------------------------------------------------------------------
(* queries.go *)

DefaultPage == 1

NormalizePage(page) == IF page < 1 THEN DefaultPage ELSE page

\* Mutant of NormalizePageSize: no upper limit.
BugUncapped(size) == IF size <= 0 THEN DefaultPageSize ELSE size
NormalizePageSize(size) ==
  IF size <= 0 THEN DefaultPageSize
  ELSE IF size > MaxPageSize THEN MaxPageSize
  ELSE size

(* The repository's SELECT. *)

Present == {r \in Rows : table[r] # 0}

HasTies == \E r, s \in Present : r # s /\ table[r] = table[s]

\* Mutant of Before: the second column is not part of ORDER BY.
BugNoTiebreak(r, s) == table[r] <= table[s]
Before(r, s) ==
  \/ table[r] < table[s]
  \/ table[r] = table[s] /\ (listing.tiebreak => r < s)

\* Rows that ORDER BY leaves tied come in any order, on every page anew.
Orders ==
  {s \in SetToSeqs(Present) : \A i, j \in DOMAIN s : i < j => Before(s[i], s[j])}

\* Mutant of Offset: pages count from zero.
BugZeroBased(page, size) == page * size
Offset(page, size) == (page - 1) * size

\* LIMIT is one row more than the page, to see whether there is another.
Select(rows, page, size) ==
  LET from == Offset(page, size)
  IN  SubSeq(rows, from + 1, IF from + size + 1 < Len(rows) THEN from + size + 1
                             ELSE Len(rows))

(* The controllers and the query handler. *)

\* The request's parameters, of which the filters are left out.
BuildQuery(params) ==
  [page |-> NormalizePage(params.page), size |-> NormalizePageSize(params.size)]

\* The handler normalises them once more.
HandleFind(rows, query) == Select(rows, BuildQuery(query).page, BuildQuery(query).size)

\* Mutant of HasMore: a full page is taken for a page with a successor.
BugFullPage(rows, size) == Len(rows) >= size
HasMore(rows, size) == Len(rows) > size

PageOf(rows, size) == IF HasMore(rows, size) THEN SubSeq(rows, 1, size) ELSE rows

\* An empty page is 204 No Content; hasMore leads to another request.
Answer(found, size) ==
  IF found = <<>> THEN IF client.pc = "more" THEN "missing" ELSE "done"
  ELSE IF HasMore(found, size) THEN "more" ELSE "done"

Count(rows) == [r \in Rows |-> IF Contains(rows, r) THEN 1 ELSE 0]
-----------------------------------------------------------------------------
Unchanged == [arrived |-> 0, left |-> 0, moved |-> 0, rows |-> {}]

Init ==
  /\ listing \in Listings
  /\ table \in [Rows -> SortKeys \cup {0}]
  /\ client \in [pc : {"ask"}, page : AskedPages, size : AskedSizes]
  /\ seen = [r \in Rows |-> 0]
  /\ changed = Unchanged
  /\ ambiguous = FALSE

\* GET: the client asks for the next page as long as hasMore announces one.
Get ==
  /\ client.pc \in {"ask", "more"}
  /\ LET query == BuildQuery(client)
     IN  \E rows \in Orders :
           LET found == HandleFind(rows, query)
               page == PageOf(found, query.size)
           IN  /\ seen' = [r \in Rows |-> seen[r] + Count(page)[r]]
               /\ client' = [client EXCEPT !.page = query.page + 1,
                                           !.pc = Answer(found, query.size)]
  /\ ambiguous' = (ambiguous \/ (~listing.tiebreak /\ HasTies))
  /\ UNCHANGED <<listing, table, changed>>

(* What the rest of the service does to the table in between. *)

MayChange ==
  client.pc = "more" /\ changed.arrived + changed.left + changed.moved < MaxChanges

\* A new row, or one that comes to pass the filter (a dead letter reopened), or
\* comes back (a replay inserts again what it has deleted).
Arrives(r) ==
  /\ MayChange /\ table[r] = 0
  /\ \E key \in SortKeys : table' = [table EXCEPT ![r] = key]
  /\ changed' = [changed EXCEPT !.arrived = @ + 1, !.rows = @ \cup {r}]
  /\ UNCHANGED <<listing, client, seen, ambiguous>>

\* A status changes under a filter on it, or a replay deletes the row.
Leaves(r) ==
  /\ MayChange /\ r \in Present
  /\ table' = [table EXCEPT ![r] = 0]
  /\ changed' = [changed EXCEPT !.left = @ + 1]
  /\ UNCHANGED <<listing, client, seen, ambiguous>>

\* A balance, or a movement's occurredAt, or a dead letter's times; a row may
\* move any number of times.
Moves(r) ==
  /\ MayChange /\ listing.moves /\ r \in Present
  /\ \E key \in SortKeys \ {table[r]} : table' = [table EXCEPT ![r] = key]
  /\ changed' = [changed EXCEPT !.moved = @ + 1, !.rows = @ \cup {r}]
  /\ UNCHANGED <<listing, client, seen, ambiguous>>

Next == Get \/ \E r \in Rows : Arrives(r) \/ Leaves(r) \/ Moves(r)

Spec == Init /\ [][Next]_vars
-----------------------------------------------------------------------------
\* One element for each time the walk has returned a row.
Returned == UNION {{r} \X (1 .. seen[r]) : r \in Rows}

\* Every variable has the shape the Go types give it, and no page returns more
\* rows than MaxPageSize.
TypeOK ==
  /\ listing \in Listings
  /\ table \in [Rows -> SortKeys \cup {0}]
  /\ client \in [pc : {"ask", "more", "done", "missing"}, page : Int,
                 size : AskedSizes]
  /\ client.pc # "ask" =>
       Cardinality(Returned) <= (client.page - 1) * MaxPageSize
  /\ seen \in [Rows -> Nat]
  /\ changed \in [arrived : Nat, left : Nat, moved : Nat, rows : SUBSET Rows]
  /\ ambiguous \in BOOLEAN

\* Rows that were there all along, where they were.
Stable == Present \ changed.rows

\* A walk from the first page to the last returns each row that stayed where it
\* was exactly once, but for the rows that others have pushed across a page
\* boundary: at most one is missed each time a row leaves or moves, and one
\* repeated each time one arrives or moves.
WalkIsExactUpToChanges ==
  ~ambiguous =>
    /\ client.pc \in {"done", "missing"} =>
         Cardinality({r \in Stable : seen[r] = 0}) <= changed.left + changed.moved
    /\ Cardinality({x \in Returned : x[1] \in Stable /\ x[2] > 1}) <=
         changed.arrived + changed.moved

\* README.md: "hasMore": the page it announces is there, unless rows have left
\* the listing since.
AnnouncedPageIsThere == client.pc = "missing" => changed.left > 0
=============================================================================
