------------------------------- MODULE Listing -------------------------------
(***************************************************************************)
(* A client that scrolls through a list, page by page, while its rows come *)
(* and go.  Five lists compare with the (time, id) of the last row shown,  *)
(* which the cursor carries; that of the administrators' shops with its    *)
(* id; three hand the id to Prisma, which looks the row up again.          *)
(***************************************************************************)
EXTENDS Integers, FiniteSets

CONSTANTS
  MaxRow,      \* bound on the rows of a list
  RowTimes,    \* createdAt, or reservedAt
  Sizes        \* of a page

ASSUME ListingAssumption ==
  MaxRow \in Nat /\ RowTimes \subseteq Int /\ RowTimes # {} /\ Sizes \subseteq Nat \ {0}

VARIABLES
  list,     \* which list it is
  row,      \* row[i]: whether it is there, and whether the filter shows it
  rowTime,  \* rowTime[i]: the time it has from its creation on
  walk      \* what the client has seen

listVars == <<list, row, rowTime, walk>>

-----------------------------------------------------------------------------
ByTimeAndId == {"designs", "wishedDesigns", "notices", "requests", "reservations"}
ByPrisma == {"shops", "wishedShops", "reviews"}
Lists == ByTimeAndId \union ByPrisma \union {"adminShops"}

(* Rows of these tables are deleted; the others only leave the filter: the *)
(* unread, a status, a tag, the active shops.                              *)
Deletable == {"designs", "wishedDesigns", "wishedShops", "reviews"}
Filtered == Lists \ {"wishedDesigns", "reviews"}

RowIds == 1..MaxRow

(* steady: shown all the time since the first page; last: the row the      *)
(* cursor is of (0 without one); strayed: it was not shown when it was     *)
(* looked up again.                                                        *)
Walk ==
  [pc : {"start", "next", "end"}, size : Sizes, last : 0..MaxRow,
   seen : SUBSET RowIds, twice : BOOLEAN, steady : SUBSET RowIds, strayed : BOOLEAN]

ListTypeOK ==
  /\ list \in Lists
  /\ row \in [RowIds -> {"none", "shown", "hidden", "deleted"}]
  /\ rowTime \in [RowIds -> RowTimes]
  /\ walk \in Walk
  /\ walk.last \in walk.seen \union {0}

NewWalk(n) ==
  [pc |-> "start", size |-> n, last |-> 0, seen |-> {}, twice |-> FALSE,
   steady |-> {}, strayed |-> FALSE]

ListInit ==
  /\ list \in Lists
  /\ row = [i \in RowIds |-> "none"]
  /\ rowTime \in [RowIds -> RowTimes]
  /\ \E n \in Sizes : walk = NewWalk(n)

-----------------------------------------------------------------------------
Shown == {i \in RowIds : row[i] = "shown"}

(* orderBy: row i is listed before row j. *)
Precedes(i, j) ==
  CASE list = "shops" -> i < j
    [] list = "adminShops" -> i > j
    [] OTHER -> rowTime[i] > rowTime[j] \/ (rowTime[i] = rowTime[j] /\ i > j)

(* take: the first n rows of S. *)
Take(n, S) == {i \in S : Cardinality({j \in S : Precedes(j, i)}) < n}

LastOf(S) == CHOOSE i \in S : \A j \in S : ~Precedes(i, j)

(* The client gets the first page of the rows that match; with one row     *)
(* more than it takes there is a next page.                                *)
Answer(match) ==
  LET page == Take(walk.size, match)
      more == Cardinality(match) > walk.size
  IN walk' = [walk EXCEPT
       !.pc = IF more THEN "next" ELSE "end",
       !.last = IF more THEN LastOf(page) ELSE 0,
       !.seen = @ \union page,
       !.twice = @ \/ page \intersect walk.seen # {},
       !.steady = IF walk.pc = "start" THEN Shown ELSE @,
       !.strayed = @ \/ (walk.last # 0 /\ walk.last \notin Shown)]

(* Variant: the cursor compares the time alone. *)
KeysetPageByTime ==
  /\ walk.pc # "end"
  /\ Answer(IF walk.last = 0 THEN Shown
            ELSE {i \in Shown : rowTime[i] < rowTime[walk.last]})
  /\ UNCHANGED <<list, row, rowTime>>

(* The rows after the values of the cursor, whatever became of its row. *)
KeysetPage ==
  /\ walk.pc # "end"
  /\ Answer(IF walk.last = 0 THEN Shown ELSE {i \in Shown : Precedes(walk.last, i)})
  /\ UNCHANGED <<list, row, rowTime>>

(* Prisma's cursor with skip: 1: of the rows from the cursor's on the      *)
(* first is left out, be it the cursor's or not; none without its row.     *)
CursorPage ==
  LET from == {i \in Shown : ~Precedes(i, walk.last)} IN
  /\ walk.pc # "end"
  /\ Answer(IF walk.last = 0 THEN Shown
            ELSE IF row[walk.last] = "deleted" THEN {} ELSE from \ Take(1, from))
  /\ UNCHANGED <<list, row, rowTime>>

-----------------------------------------------------------------------------
(* findFeed *)
DesignFeed == list = "designs" /\ KeysetPage

(* findWishlistByUserId *)
WishedDesigns == list = "wishedDesigns" /\ KeysetPage

(* getMyNotifications *)
MyNotifications == list = "notices" /\ KeysetPage

(* findByStatus *)
MyRequests == list = "requests" /\ KeysetPage

(* findByUserIdAndStatuses *)
MyReservations == list = "reservations" /\ KeysetPage

(* findMany of ShopAdminRepository: id < cursor, newest first. *)
AdminShops == list = "adminShops" /\ KeysetPage

(* findList and search *)
ShopList == list = "shops" /\ CursorPage

(* findWishlist *)
WishedShops == list = "wishedShops" /\ CursorPage

(* findReviews *)
ShopReviews == list = "reviews" /\ CursorPage

-----------------------------------------------------------------------------
Becomes(i, state) ==
  /\ row' = [row EXCEPT ![i] = state]
  /\ walk' = [walk EXCEPT !.steady = @ \ {i}]
  /\ UNCHANGED <<list, rowTime>>

(* Ids are given out in order. *)
AddRow(i) ==
  /\ row[i] = "none" /\ \A j \in 1..i - 1 : row[j] # "none"
  /\ Becomes(i, "shown")

HideRow(i) == list \in Filtered /\ row[i] = "shown" /\ Becomes(i, "hidden")

(* Not of notices: nothing is unread again. *)
ShowRow(i) == list \in Filtered \ {"notices"} /\ row[i] = "hidden" /\ Becomes(i, "shown")

DeleteRow(i) == list \in Deletable /\ row[i] \in {"shown", "hidden"} /\ Becomes(i, "deleted")

ListNext ==
  \/ DesignFeed \/ WishedDesigns \/ MyNotifications \/ MyRequests \/ MyReservations
  \/ AdminShops \/ ShopList \/ WishedShops \/ ShopReviews
  \/ \E i \in RowIds : AddRow(i) \/ HideRow(i) \/ ShowRow(i) \/ DeleteRow(i)

ListSpec == ListInit /\ [][ListNext]_listVars

-----------------------------------------------------------------------------
(* Who scrolls to the end has seen every row that was there all the time,  *)
(* and none twice, though rows come, go and have equal times               *)
(* (design.repository.ts:203).                                             *)
KeysetShowsAll ==
  list \notin ByPrisma =>
    ~walk.twice /\ (walk.pc = "end" => walk.steady \subseteq walk.seen)

(* Where Prisma looks the cursor's row up, the same holds as long as that  *)
(* row was still shown; when it was not, the next row is left out, or all  *)
(* the rest.                                                               *)
CursorShowsAll ==
  list \in ByPrisma /\ ~walk.strayed =>
    ~walk.twice /\ (walk.pc = "end" => walk.steady \subseteq walk.seen)

(* Of every list.                                                          *)
ScrollShowsAll == KeysetShowsAll /\ CursorShowsAll
=============================================================================
