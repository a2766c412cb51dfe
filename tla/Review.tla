-------------------------------- MODULE Review --------------------------------
(***************************************************************************)
(* The reviews of shops and the rating each shop row carries:              *)
(* ReviewController, ReviewService and PrismaReviewRepository.             *)
(*                                                                         *)
(* A write is one transaction that locks the shop's row first, writes the  *)
(* review and recomputes the shop's rating and count from the reviews; its *)
(* changes are applied by CommitReview.  Deleting an account would delete  *)
(* its reviews without the rating, but an author has a reservation, whose  *)
(* foreign key keeps the account (see Account).                            *)
(***************************************************************************)
EXTENDS Integers, FiniteSetsExt

CONSTANTS
  Shops, Customers,
  Ratings,       \* the stars a body may give
  MaxReviews,    \* bound on the ids given out
  ReviewCalls,   \* requests handled at a time
  NoCall

ASSUME ReviewAssumption ==
  /\ Ratings \subseteq 1..5 /\ Ratings # {}
  /\ Shops # {} /\ Customers # {}
  /\ MaxReviews \in Nat
  /\ NoCall \notin ReviewCalls

VARIABLES
  reviews,      \* rows of shop_reviews
  lastReview,   \* the last id given out
  shopRating,   \* shops.rating, in tenths
  reviewCount,  \* shops.review_count
  visits,       \* who has a COMPLETED reservation at which shop
  shopLock,     \* the call that has locked the shop's row
  reviewCall    \* where a request stands

reviewVars ==
  <<reviews, lastReview, shopRating, reviewCount, visits, shopLock, reviewCall>>

-----------------------------------------------------------------------------
ReviewRow == [id : 1..MaxReviews, shop : Shops, user : Customers, stars : Ratings]

ReviewRequest ==
  [pc : {"idle", "exists", "lock", "write", "recalculate", "commit"},
   op : {"create", "update", "delete"},
   id : 0..MaxReviews, shop : Shops, user : Customers, stars : Ratings,
   rating : Int, count : Nat]

Holding == {"write", "recalculate", "commit"}

ReviewTypeOK ==
  /\ reviews \in SUBSET ReviewRow
  /\ lastReview \in 0..MaxReviews
  /\ shopRating \in [Shops -> Int]
  /\ reviewCount \in [Shops -> Nat]
  /\ visits \in SUBSET (Shops \X Customers)
  /\ shopLock \in [Shops -> ReviewCalls \union {NoCall}]
  /\ reviewCall \in [ReviewCalls -> ReviewRequest]
  /\ \A s \in Shops :
       shopLock[s] # NoCall => reviewCall[shopLock[s]].pc \in Holding
  /\ \A x \in reviews : x.id <= lastReview

(* A request on review id (0 if it has none yet) that is at pc. *)
Request(pc, op, id, s, u, n) ==
  [pc |-> pc, op |-> op, id |-> id, shop |-> s, user |-> u, stars |-> n,
   rating |-> 0, count |-> 0]

Answered(r) == [r EXCEPT !.pc = "idle"]

ReviewInit ==
  /\ reviews = {} /\ lastReview = 0
  /\ shopRating = [s \in Shops |-> 0]
  /\ reviewCount = [s \in Shops |-> 0]
  /\ visits = {}
  /\ shopLock = [s \in Shops |-> NoCall]
  /\ reviewCall = [c \in ReviewCalls |->
       Request("idle", "delete", 0, CHOOSE s \in Shops : TRUE,
               CHOOSE u \in Customers : TRUE, CHOOSE n \in Ratings : TRUE)]

-----------------------------------------------------------------------------
ReviewsOf(s, rows) == {r \in rows : r.shop = s}

(* Math.round(avg * 10), 0 without reviews. *)
Average(rows) ==
  LET n == Cardinality(rows) IN
  IF n = 0 THEN 0
  ELSE (20 * MapThenSumSet(LAMBDA r : r.stars, rows) + n) \div (2 * n)

(* The rows as the transaction of request r leaves them. *)
RowOf(r) == [id |-> r.id, shop |-> r.shop, user |-> r.user, stars |-> r.stars]

After(r) ==
  {x \in reviews : x.id # r.id} \union (IF r.op = "delete" THEN {} ELSE {RowOf(r)})

Goto(c, r) == reviewCall' = [reviewCall EXCEPT ![c] = r]

ReleaseShop(c) ==
  shopLock' = [s \in Shops |-> IF shopLock[s] = c THEN NoCall ELSE shopLock[s]]

-----------------------------------------------------------------------------
(* External: nothing under src/ completes a reservation. *)
Visit(s, u) ==
  /\ visits' = visits \union {<<s, u>>}
  /\ UNCHANGED <<reviews, lastReview, shopRating, reviewCount, shopLock, reviewCall>>

(* Variant: whoever has the shop's page open may review it. *)
CreateByAnyone(c, s, u, n) ==
  /\ reviewCall[c].pc = "idle"
  /\ Goto(c, Request("exists", "create", 0, s, u, n))
  /\ UNCHANGED <<reviews, lastReview, shopRating, reviewCount, visits, shopLock>>

(* createReview: 403 without a completed reservation. *)
BeginReview(c, s, u, n) ==
  /\ reviewCall[c].pc = "idle"
  /\ <<s, u>> \in visits
  /\ Goto(c, Request("exists", "create", 0, s, u, n))
  /\ UNCHANGED <<reviews, lastReview, shopRating, reviewCount, visits, shopLock>>

(* existsByShopAndUser: 409 if there is one. *)
CheckWritten(c) ==
  LET r == reviewCall[c]
      written == \E x \in reviews : x.shop = r.shop /\ x.user = r.user
  IN /\ r.pc = "exists"
     /\ Goto(c, [r EXCEPT !.pc = IF written THEN "idle" ELSE "lock"])
     /\ UNCHANGED <<reviews, lastReview, shopRating, reviewCount, visits, shopLock>>

(* updateReview, deleteReview: findByIdForOwner, 404 if x is not the       *)
(* user's.  An update of the text alone gives the stars the row has.       *)
FindOwn(c, op, x, n) ==
  /\ reviewCall[c].pc = "idle"
  /\ Goto(c, Request("lock", op, x.id, x.shop, x.user, n))
  /\ UNCHANGED <<reviews, lastReview, shopRating, reviewCount, visits, shopLock>>

(* Variant: the transaction does not lock the shop's row. *)
LockNothing(c) ==
  /\ reviewCall[c].pc = "lock"
  /\ Goto(c, [reviewCall[c] EXCEPT !.pc = "write"])
  /\ UNCHANGED <<reviews, lastReview, shopRating, reviewCount, visits, shopLock>>

(* SELECT ... FOR UPDATE. *)
LockShop(c) ==
  LET s == reviewCall[c].shop IN
  /\ reviewCall[c].pc = "lock"
  /\ shopLock[s] = NoCall
  /\ shopLock' = [shopLock EXCEPT ![s] = c]
  /\ Goto(c, [reviewCall[c] EXCEPT !.pc = "write"])
  /\ UNCHANGED <<reviews, lastReview, shopRating, reviewCount, visits>>

(* shopReview.create; the unique key refuses a second one: AbortReview. *)
InsertReview(c) ==
  LET r == reviewCall[c] IN
  /\ r.pc = "write" /\ r.op = "create"
  /\ lastReview < MaxReviews
  /\ \A x \in reviews : ~(x.shop = r.shop /\ x.user = r.user)
  /\ lastReview' = lastReview + 1
  /\ Goto(c, [r EXCEPT !.id = lastReview + 1, !.pc = "recalculate"])
  /\ UNCHANGED <<reviews, shopRating, reviewCount, visits, shopLock>>

(* shopReview.update, shopReview.delete; P2025 if it is gone: AbortReview. *)
WriteReview(c) ==
  LET r == reviewCall[c] IN
  /\ r.pc = "write" /\ r.op # "create"
  /\ \E x \in reviews : x.id = r.id
  /\ Goto(c, [r EXCEPT !.pc = "recalculate"])
  /\ UNCHANGED <<reviews, lastReview, shopRating, reviewCount, visits, shopLock>>

(* recalculateShopRating's aggregate: the first plain read on reviews, so  *)
(* its snapshot is younger than the lock.                                  *)
Recalculate(c) ==
  LET r == reviewCall[c]
      rows == ReviewsOf(r.shop, After(r))
  IN /\ r.pc = "recalculate"
     /\ Goto(c, [r EXCEPT !.pc = "commit", !.rating = Average(rows),
                          !.count = Cardinality(rows)])
     /\ UNCHANGED <<reviews, lastReview, shopRating, reviewCount, visits, shopLock>>

(* shop.update and the commit. *)
CommitReview(c) ==
  LET r == reviewCall[c] IN
  /\ r.pc = "commit"
  /\ reviews' = After(r)
  /\ shopRating' = [shopRating EXCEPT ![r.shop] = r.rating]
  /\ reviewCount' = [reviewCount EXCEPT ![r.shop] = r.count]
  /\ ReleaseShop(c)
  /\ Goto(c, Answered(r))
  /\ UNCHANGED <<lastReview, visits>>

(* Variant: the lock outlives a transaction that is rolled back. *)
AbortReviewLocked(c) ==
  /\ reviewCall[c].pc \in {"lock"} \union Holding
  /\ Goto(c, Answered(reviewCall[c]))
  /\ UNCHANGED <<reviews, lastReview, shopRating, reviewCount, visits, shopLock>>

(* A statement fails, or the server dies: rolled back; 409 for the unique  *)
(* key, 404 for a row that is gone, 500 for anything else.                 *)
AbortReview(c) ==
  /\ reviewCall[c].pc \in {"lock"} \union Holding
  /\ ReleaseShop(c)
  /\ Goto(c, Answered(reviewCall[c]))
  /\ UNCHANGED <<reviews, lastReview, shopRating, reviewCount, visits>>

-----------------------------------------------------------------------------
ReviewNext ==
  \/ \E s \in Shops, u \in Customers : Visit(s, u)
  \/ \E c \in ReviewCalls :
       \/ \E s \in Shops, u \in Customers, n \in Ratings : BeginReview(c, s, u, n)
       \/ \E x \in reviews :
            \/ \E n \in Ratings : FindOwn(c, "update", x, n)
            \/ FindOwn(c, "delete", x, x.stars)
       \/ CheckWritten(c) \/ LockShop(c) \/ InsertReview(c) \/ WriteReview(c)
       \/ Recalculate(c) \/ CommitReview(c) \/ AbortReview(c)

ReviewSpec == ReviewInit /\ [][ReviewNext]_reviewVars

-----------------------------------------------------------------------------
(* The rating and the count on the shop's row are those of its reviews,    *)
(* whatever creations, changes and deletions overlapped                    *)
(* (review.repository.ts:90: "always consistent").                         *)
RatingIsExact ==
  \A s \in Shops :
    /\ shopRating[s] = Average(ReviewsOf(s, reviews))
    /\ reviewCount[s] = Cardinality(ReviewsOf(s, reviews))

(* Who reviewed a shop has been there, and nobody reviewed it twice.       *)
ReviewsAreEarned ==
  \A x \in reviews :
    /\ <<x.shop, x.user>> \in visits
    /\ \A y \in reviews : x.shop = y.shop /\ x.user = y.user => x = y

=============================================================================
