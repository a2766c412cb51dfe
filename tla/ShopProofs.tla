------------------------------ MODULE ShopProofs ------------------------------
(***************************************************************************)
(* Proofs about what belongs to a shop: its rating, the catalogue of its   *)
(* designs and who wished for them, its hearts, its rows as                *)
(* synchronisations and administrators write them, and the bucket of       *)
(* images; for any shops, customers, calls, tags, pages and images.        *)
(***************************************************************************)
EXTENDS 
  ListProofs, Review, Design, ShopWish, ShopSync, ImageStore,
  FiniteSetTheorems, TLAPS

-----------------------------------------------------------------------------
(***************************************************************************)
(* Review: the rating of a shop is that of its reviews, and every review   *)
(* was earned.  RatingInv says what a request knows at each statement      *)
(* (Sound): that the lock on its shop is its own, whose review its id is,  *)
(* and, before the commit, that the aggregate it computed is the one the   *)
(* commit brings about.  The lock keeps this true: no other commit touches *)
(* the same shop.                                                          *)
(***************************************************************************)

(* The ratings and counts that can be computed at all. *)
Aggregates == {Average(rows) : rows \in SUBSET ReviewRow} \union {0}
Counts == {Cardinality(rows) : rows \in SUBSET ReviewRow} \union {0}

KnownRequest ==
  [pc : {"idle", "exists", "lock", "write", "recalculate", "commit"},
   op : {"create", "update", "delete"},
   id : 0..MaxReviews, shop : Shops, user : Customers, stars : Ratings,
   rating : Aggregates, count : Counts]

RatingTypes ==
  /\ reviews \in SUBSET ReviewRow
  /\ lastReview \in 0..MaxReviews
  /\ shopRating \in [Shops -> Aggregates]
  /\ reviewCount \in [Shops -> Counts]
  /\ visits \in SUBSET (Shops \X Customers)
  /\ shopLock \in [Shops -> ReviewCalls \union {NoCall}]
  /\ reviewCall \in [ReviewCalls -> KnownRequest]

(* The id of r is that of a review that exists, existed, or will exist.    *)
HasId(r) ==
  \/ r.pc \in {"recalculate", "commit"}
  \/ r.pc \in {"lock", "write"} /\ r.op # "create"

(* What the request r of call c knows. *)
Sound(c, r, locks, last) ==
  /\ r.pc \in Holding => locks[r.shop] = c
  /\ r.pc # "idle" => <<r.shop, r.user>> \in visits
  /\ r.pc = "exists" => r.op = "create"
  /\ HasId(r) =>
       /\ r.id \in 1..last
       /\ \A x \in reviews : x.id = r.id => r.op # "create" /\ x.shop = r.shop /\ x.user = r.user
  /\ r.pc \in {"recalculate", "commit"} =>
       IF r.op = "create" THEN \A x \in reviews : ~(x.shop = r.shop /\ x.user = r.user)
       ELSE \E x \in reviews : x.id = r.id
  /\ r.pc = "commit" =>
       /\ r.rating = Average(ReviewsOf(r.shop, After(r)))
       /\ r.count = Cardinality(ReviewsOf(r.shop, After(r)))

(* Two requests with the same id are about one review, which exists. *)
AgreeOn(q, r) ==
  HasId(q) /\ HasId(r) /\ q.id = r.id =>
    /\ q.op # "create" /\ r.op # "create"
    /\ q.shop = r.shop /\ q.user = r.user

RatingInv ==
  /\ RatingTypes
  /\ \A c \in ReviewCalls : Sound(c, reviewCall[c], shopLock, lastReview)
  /\ \A c, d \in ReviewCalls : c # d => AgreeOn(reviewCall[c], reviewCall[d])
  /\ \A x \in reviews : x.id <= lastReview
  /\ \A x, y \in reviews : x.id = y.id => x = y
  /\ RatingIsExact
  /\ ReviewsAreEarned

-----------------------------------------------------------------------------
LEMMA RatingStart == ReviewInit => RatingInv
<1> SUFFICES ASSUME ReviewInit PROVE RatingInv
  OBVIOUS
<1>1. /\ (CHOOSE s \in Shops : TRUE) \in Shops
      /\ (CHOOSE u \in Customers : TRUE) \in Customers
      /\ (CHOOSE n \in Ratings : TRUE) \in Ratings
  BY ReviewAssumption
<1>2. 0 \in 0..MaxReviews /\ 0 \in Aggregates /\ 0 \in Counts
  BY ReviewAssumption DEF Aggregates, Counts
<1>3. RatingTypes
  BY <1>1, <1>2 DEF ReviewInit, RatingTypes, Request, KnownRequest
<1>4. \A c \in ReviewCalls : reviewCall[c].pc = "idle"
  BY DEF ReviewInit, Request
<1>5. \A c \in ReviewCalls : Sound(c, reviewCall[c], shopLock, lastReview)
  BY <1>4 DEF Sound, HasId, Holding
<1>6. \A c, d \in ReviewCalls : AgreeOn(reviewCall[c], reviewCall[d])
  BY <1>4 DEF AgreeOn, HasId
<1>7. Average({}) = 0 /\ Cardinality({}) = 0
  BY FS_EmptySet DEF Average
<1>8. RatingIsExact
  <2>1. \A s \in Shops : ReviewsOf(s, reviews) = {}
    BY DEF ReviewsOf, ReviewInit
  <2> QED
    BY <2>1, <1>7 DEF RatingIsExact, ReviewInit
<1>9. /\ ReviewsAreEarned
      /\ \A x \in reviews : x.id <= lastReview
      /\ \A x, y \in reviews : x.id = y.id => x = y
  BY DEF ReviewsAreEarned, ReviewInit
<1> QED
  BY <1>3, <1>5, <1>6, <1>8, <1>9 DEF RatingInv

(* A step of one call that leaves the reviews and the shops' rows alone. *)
LEMMA OneRequest ==
  ASSUME RatingInv, NEW c \in ReviewCalls, NEW r \in KnownRequest,
         reviewCall' = [reviewCall EXCEPT ![c] = r],
         UNCHANGED <<reviews, shopRating, reviewCount, visits>>,
         lastReview' \in lastReview..MaxReviews,
         shopLock' \in [Shops -> ReviewCalls \union {NoCall}],
         \A s \in Shops, d \in ReviewCalls \ {c} : shopLock[s] = d => shopLock'[s] = d,
         Sound(c, r, shopLock', lastReview'),
         \A d \in ReviewCalls \ {c} : AgreeOn(r, reviewCall[d])
  PROVE  RatingInv'
<1>1. RatingTypes'
  BY DEF RatingInv, RatingTypes
<1>2. reviewCall'[c] = r /\ \A d \in ReviewCalls \ {c} : reviewCall'[d] = reviewCall[d]
  BY DEF RatingInv, RatingTypes
<1>3. ASSUME NEW d \in ReviewCalls PROVE Sound(d, reviewCall[d], shopLock, lastReview)'
  <2>1. Sound(d, reviewCall'[d], shopLock', lastReview')
    <3>1. CASE d = c
      BY <1>2, <3>1
    <3>2. CASE d # c
      <4>1. reviewCall[d].shop \in Shops
        BY DEF RatingInv, RatingTypes, KnownRequest
      <4>2. \A i \in 1..lastReview : i \in 1..lastReview'
        BY DEF RatingInv, RatingTypes
      <4> QED
        BY <3>2, <1>2, <4>1, <4>2 DEF RatingInv, Sound
    <3> QED
      BY <3>1, <3>2
  <2> QED
    BY <2>1 DEF Sound, After, RowOf
<1>4. ASSUME NEW d \in ReviewCalls, NEW e \in ReviewCalls, d # e
      PROVE  AgreeOn(reviewCall'[d], reviewCall'[e])
  BY <1>2, <1>4 DEF RatingInv, AgreeOn
<1>5. \A x \in reviews' : x.id <= lastReview'
  <2> SUFFICES ASSUME NEW x \in reviews PROVE x.id <= lastReview'
    OBVIOUS
  <2>1. x.id \in Int /\ x.id <= lastReview /\ lastReview \in Int /\ lastReview' >= lastReview
    BY DEF RatingInv, RatingTypes, ReviewRow
  <2> QED
    BY <2>1
<1>6. RatingIsExact' /\ ReviewsAreEarned'
  BY DEF RatingInv, RatingIsExact, ReviewsAreEarned, ReviewsOf
<1>7. \A d, e \in ReviewCalls : d # e => AgreeOn(reviewCall[d], reviewCall[e])'
  BY <1>4 DEF AgreeOn, HasId
<1>8. \A x, y \in reviews' : x.id = y.id => x = y
  BY DEF RatingInv
<1> QED
  BY <1>1, <1>3, <1>5, <1>6, <1>7, <1>8 DEF RatingInv

(* A request at pc, as far as its types go. *)
LEMMA MovedType ==
  ASSUME NEW r \in KnownRequest, NEW pc \in {"idle", "lock", "write", "recalculate", "commit"}
  PROVE  /\ [r EXCEPT !.pc = pc] \in KnownRequest
         /\ [r EXCEPT !.pc = pc].pc = pc
         /\ [r EXCEPT !.pc = pc].op = r.op /\ [r EXCEPT !.pc = pc].id = r.id
         /\ [r EXCEPT !.pc = pc].shop = r.shop /\ [r EXCEPT !.pc = pc].user = r.user
  BY DEF KnownRequest

LEMMA RequestType ==
  ASSUME NEW pc \in {"exists", "lock"}, NEW op \in {"create", "update", "delete"},
         NEW id \in 0..MaxReviews, NEW s \in Shops, NEW u \in Customers, NEW n \in Ratings
  PROVE  Request(pc, op, id, s, u, n) \in KnownRequest
  BY DEF Request, KnownRequest, Aggregates, Counts

LEMMA ReviewBegins ==
  ASSUME RatingInv, NEW c \in ReviewCalls, NEW s \in Shops, NEW u \in Customers, NEW n \in Ratings,
         BeginReview(c, s, u, n)
  PROVE  RatingInv'
<1> DEFINE r == Request("exists", "create", 0, s, u, n)
<1>1. r \in KnownRequest
  BY RequestType, ReviewAssumption
<1>2. Sound(c, r, shopLock, lastReview) /\ \A d \in ReviewCalls \ {c} : AgreeOn(r, reviewCall[d])
  BY DEF Sound, AgreeOn, HasId, Holding, Request, BeginReview
<1>3. /\ reviewCall' = [reviewCall EXCEPT ![c] = r]
      /\ UNCHANGED <<reviews, lastReview, shopRating, reviewCount, visits, shopLock>>
  BY DEF BeginReview, Goto
<1>4. lastReview' \in lastReview..MaxReviews /\ shopLock' \in [Shops -> ReviewCalls \union {NoCall}]
  BY <1>3 DEF RatingInv, RatingTypes
<1> HIDE DEF r
<1> QED
  BY <1>1, <1>2, <1>3, <1>4, OneRequest

(* A request that moves on, or is answered. *)
LEMMA Moved ==
  ASSUME RatingInv, NEW c \in ReviewCalls, NEW pc \in {"idle", "lock", "write", "recalculate"},
         reviewCall' = [reviewCall EXCEPT ![c] = [reviewCall[c] EXCEPT !.pc = pc]],
         UNCHANGED <<reviews, lastReview, shopRating, reviewCount, visits>>,
         shopLock' \in [Shops -> ReviewCalls \union {NoCall}],
         \A s \in Shops, d \in ReviewCalls \ {c} : shopLock[s] = d => shopLock'[s] = d,
         reviewCall[c].pc # "idle",
         pc \in Holding => shopLock'[reviewCall[c].shop] = c,
         pc = "recalculate" =>
           reviewCall[c].op # "create" /\ \E x \in reviews : x.id = reviewCall[c].id
  PROVE  RatingInv'
<1> DEFINE q == reviewCall[c]
           r == [q EXCEPT !.pc = pc]
<1>0. /\ q \in KnownRequest /\ q.pc # "idle" /\ Sound(c, q, shopLock, lastReview)
      /\ pc \in Holding => shopLock'[q.shop] = c
      /\ pc = "recalculate" => q.op # "create" /\ \E x \in reviews : x.id = q.id
      /\ lastReview' = lastReview
  BY DEF RatingInv, RatingTypes
<1> HIDE DEF q
<1>1. /\ r \in KnownRequest /\ r.pc = pc /\ r.op = q.op /\ r.id = q.id
      /\ r.shop = q.shop /\ r.user = q.user
  <2>1. q \in KnownRequest /\ pc \in {"idle", "lock", "write", "recalculate", "commit"}
    BY <1>0
  <2> QED
    BY ONLY <2>1, MovedType
<1> HIDE DEF r
<1>2. HasId(r) => HasId(q)
  <2>1. HasId(r) => q.op # "create"
    BY <1>0, <1>1 DEF HasId
  <2>2. q.op # "create" => HasId(q)
    <3>1. q.pc \in {"exists", "lock", "write", "recalculate", "commit"}
      BY <1>0 DEF KnownRequest
    <3> QED
      BY <1>0, <3>1 DEF HasId, Sound
  <2> QED
    BY <2>1, <2>2
<1>3. Sound(c, r, shopLock', lastReview')
  <2>1. HasId(q) =>
          /\ q.id \in 1..lastReview
          /\ \A x \in reviews :
               x.id = q.id => q.op # "create" /\ x.shop = q.shop /\ x.user = q.user
    BY <1>0 DEF Sound
  <2>2. HasId(r) =>
          /\ r.id \in 1..lastReview'
          /\ \A x \in reviews :
               x.id = r.id => r.op # "create" /\ x.shop = r.shop /\ x.user = r.user
    BY <1>0, <1>1, <1>2, <2>1
  <2>3. <<q.shop, q.user>> \in visits
    BY <1>0 DEF Sound
  <2>4. r.pc \notin {"exists", "commit"}
    BY <1>1
  <2> QED
    BY <1>0, <1>1, <2>2, <2>3, <2>4 DEF Sound
<1>4. \A d \in ReviewCalls \ {c} : AgreeOn(q, reviewCall[d])
  BY DEF RatingInv, q
<1>5. \A d \in ReviewCalls \ {c} : AgreeOn(r, reviewCall[d])
  BY <1>1, <1>2, <1>4 DEF AgreeOn
<1>6. lastReview' \in lastReview..MaxReviews /\ reviewCall' = [reviewCall EXCEPT ![c] = r]
  BY DEF RatingInv, RatingTypes, r, q
<1> QED
  BY <1>1, <1>3, <1>5, <1>6, OneRequest

LEMMA ReviewChecked == ASSUME RatingInv, NEW c \in ReviewCalls, CheckWritten(c) PROVE RatingInv'
<1>1. PICK pc \in {"idle", "lock"} :
        reviewCall' = [reviewCall EXCEPT ![c] = [reviewCall[c] EXCEPT !.pc = pc]]
  BY DEF CheckWritten, Goto
<1>2. shopLock' \in [Shops -> ReviewCalls \union {NoCall}]
  BY DEF CheckWritten, RatingInv, RatingTypes
<1> QED
  BY <1>1, <1>2, Moved DEF CheckWritten, Holding

(* What is found is a review; whoever has its id already is about it too. *)
LEMMA FindStep ==
  ASSUME RatingInv, NEW c \in ReviewCalls, NEW op \in {"update", "delete"}, NEW x \in reviews,
         NEW n \in Ratings, FindOwn(c, op, x, n)
  PROVE  RatingInv'
<1> DEFINE r == Request("lock", op, x.id, x.shop, x.user, n)
<1>0. /\ x.id \in 1..lastReview /\ x.id \in 0..MaxReviews
      /\ x.shop \in Shops /\ x.user \in Customers
      /\ <<x.shop, x.user>> \in visits
  BY DEF RatingInv, RatingTypes, ReviewRow, ReviewsAreEarned
<1>1. /\ r \in KnownRequest /\ r.pc = "lock" /\ r.op = op /\ r.id = x.id
      /\ r.shop = x.shop /\ r.user = x.user
  BY <1>0, RequestType DEF Request
<1>2. /\ reviewCall' = [reviewCall EXCEPT ![c] = r]
      /\ UNCHANGED <<reviews, lastReview, shopRating, reviewCount, visits, shopLock>>
  BY DEF FindOwn, Goto
<1> HIDE DEF r
<1>3. Sound(c, r, shopLock', lastReview')
  <2>1. \A y \in reviews : y.id = x.id => y.shop = x.shop /\ y.user = x.user
    BY DEF RatingInv
  <2> QED
    BY <1>0, <1>1, <1>2, <2>1 DEF Sound, HasId, Holding
<1>4. ASSUME NEW d \in ReviewCalls \ {c} PROVE AgreeOn(r, reviewCall[d])
  <2>1. Sound(d, reviewCall[d], shopLock, lastReview)
    BY DEF RatingInv
  <2> QED
    BY <1>1, <2>1 DEF AgreeOn, Sound
<1>5. lastReview' \in lastReview..MaxReviews /\ shopLock' \in [Shops -> ReviewCalls \union {NoCall}]
  BY <1>2 DEF RatingInv, RatingTypes
<1> QED
  BY <1>1, <1>2, <1>3, <1>4, <1>5, OneRequest

LEMMA LockStep == ASSUME RatingInv, NEW c \in ReviewCalls, LockShop(c) PROVE RatingInv'
<1> DEFINE s == reviewCall[c].shop
<1>0. s \in Shops /\ shopLock \in [Shops -> ReviewCalls \union {NoCall}]
  BY DEF RatingInv, RatingTypes, KnownRequest
<1>1. /\ shopLock[s] = NoCall /\ shopLock' = [shopLock EXCEPT ![s] = c]
      /\ reviewCall' = [reviewCall EXCEPT ![c] = [reviewCall[c] EXCEPT !.pc = "write"]]
      /\ UNCHANGED <<reviews, lastReview, shopRating, reviewCount, visits>>
      /\ reviewCall[c].pc = "lock"
  BY DEF LockShop, Goto
<1> HIDE DEF s
<1>2. shopLock' \in [Shops -> ReviewCalls \union {NoCall}] /\ shopLock'[s] = c
  BY <1>0, <1>1
<1>3. \A t \in Shops, d \in ReviewCalls \ {c} : shopLock[t] = d => shopLock'[t] = d
  BY <1>0, <1>1, ReviewAssumption
<1> QED
  BY <1>1, <1>2, <1>3, Moved DEF s

LEMMA WriteStep == ASSUME RatingInv, NEW c \in ReviewCalls, WriteReview(c) PROVE RatingInv'
<1>1. /\ reviewCall' = [reviewCall EXCEPT ![c] = [reviewCall[c] EXCEPT !.pc = "recalculate"]]
      /\ UNCHANGED <<reviews, lastReview, shopRating, reviewCount, visits, shopLock>>
      /\ reviewCall[c].pc = "write" /\ reviewCall[c].op # "create"
      /\ \E x \in reviews : x.id = reviewCall[c].id
  BY DEF WriteReview, Goto
<1>2. shopLock' \in [Shops -> ReviewCalls \union {NoCall}] /\ shopLock'[reviewCall[c].shop] = c
  BY <1>1 DEF RatingInv, RatingTypes, Sound, Holding
<1> QED
  BY <1>1, <1>2, Moved

LEMMA AbortStep == ASSUME RatingInv, NEW c \in ReviewCalls, AbortReview(c) PROVE RatingInv'
<1>1. /\ reviewCall' = [reviewCall EXCEPT ![c] = [reviewCall[c] EXCEPT !.pc = "idle"]]
      /\ UNCHANGED <<reviews, lastReview, shopRating, reviewCount, visits>>
      /\ shopLock' = [s \in Shops |-> IF shopLock[s] = c THEN NoCall ELSE shopLock[s]]
      /\ reviewCall[c].pc # "idle"
  BY DEF AbortReview, Goto, ReleaseShop, Answered, Holding
<1>2. shopLock' \in [Shops -> ReviewCalls \union {NoCall}]
  BY <1>1 DEF RatingInv, RatingTypes
<1>3. \A t \in Shops, d \in ReviewCalls \ {c} : shopLock[t] = d => shopLock'[t] = d
  BY <1>1
<1> QED
  BY <1>1, <1>2, <1>3, Moved DEF Holding
(* The id a creation takes is one that nobody has. *)
LEMMA InsertStep == ASSUME RatingInv, NEW c \in ReviewCalls, InsertReview(c) PROVE RatingInv'
<1> DEFINE q == reviewCall[c]
           r == [q EXCEPT !.id = lastReview + 1, !.pc = "recalculate"]
<1>0. /\ q \in KnownRequest /\ Sound(c, q, shopLock, lastReview)
      /\ q.pc = "write" /\ q.op = "create"
      /\ \A x \in reviews : ~(x.shop = q.shop /\ x.user = q.user)
  BY DEF RatingInv, RatingTypes, InsertReview
<1>1. /\ reviewCall' = [reviewCall EXCEPT ![c] = r]
      /\ lastReview' = lastReview + 1
      /\ UNCHANGED <<reviews, shopRating, reviewCount, visits, shopLock>>
  BY DEF InsertReview, Goto
<1>2. /\ lastReview \in Int /\ lastReview >= 0 /\ lastReview < MaxReviews
      /\ MaxReviews \in Int
  BY ReviewAssumption DEF RatingInv, RatingTypes, InsertReview
<1> HIDE DEF q
<1>3. /\ r \in KnownRequest /\ r.pc = "recalculate" /\ r.op = "create"
      /\ r.id = lastReview + 1 /\ r.shop = q.shop /\ r.user = q.user
  <2>1. q \in KnownRequest /\ lastReview + 1 \in 0..MaxReviews /\ q.op = "create"
    BY <1>0, <1>2
  <2> QED
    BY ONLY <2>1 DEF KnownRequest
<1> HIDE DEF r
<1>4. \A x \in reviews : x.id # r.id
  <2> SUFFICES ASSUME NEW x \in reviews PROVE x.id # r.id
    OBVIOUS
  <2>1. x.id \in Int /\ x.id <= lastReview
    BY DEF RatingInv, RatingTypes, ReviewRow
  <2> QED
    BY <2>1, <1>2, <1>3
<1>5. r.id \in 1..lastReview' /\ lastReview' \in lastReview..MaxReviews
  BY <1>1, <1>2, <1>3
<1>6. Sound(c, r, shopLock', lastReview')
  <2>1. shopLock'[r.shop] = c /\ <<r.shop, r.user>> \in visits
    BY <1>0, <1>1, <1>3 DEF Sound, Holding
  <2> QED
    BY <1>0, <1>3, <1>4, <1>5, <2>1 DEF Sound
<1>7. ASSUME NEW d \in ReviewCalls \ {c} PROVE AgreeOn(r, reviewCall[d])
  <2>1. HasId(reviewCall[d]) => reviewCall[d].id \in 1..lastReview
    BY DEF RatingInv, Sound
  <2> QED
    BY <2>1, <1>2, <1>3 DEF AgreeOn
<1>8. shopLock' \in [Shops -> ReviewCalls \union {NoCall}]
  BY <1>1 DEF RatingInv, RatingTypes
<1> QED
  BY <1>1, <1>3, <1>5, <1>6, <1>7, <1>8, OneRequest

(* Whose review a request that holds the lock is about, before it commits. *)
LEMMA RowType ==
  ASSUME RatingInv, NEW c \in ReviewCalls, reviewCall[c].pc \in {"recalculate", "commit"}
  PROVE  RowOf(reviewCall[c]) \in ReviewRow /\ After(reviewCall[c]) \in SUBSET ReviewRow
<1> DEFINE r == reviewCall[c]
<1>1. r \in KnownRequest /\ r.id \in 1..lastReview /\ reviews \in SUBSET ReviewRow
  BY DEF RatingInv, RatingTypes, Sound, HasId
<1>2. r.id \in 1..MaxReviews
  <2>1. lastReview \in 0..MaxReviews /\ MaxReviews \in Nat
    BY ReviewAssumption DEF RatingInv, RatingTypes
  <2> QED
    BY ONLY <1>1, <2>1
<1>3. RowOf(r) \in ReviewRow
  BY <1>1, <1>2 DEF RowOf, ReviewRow, KnownRequest
<1> QED
  BY <1>1, <1>3 DEF After

LEMMA RecalculateStep == ASSUME RatingInv, NEW c \in ReviewCalls, Recalculate(c) PROVE RatingInv'
<1> DEFINE q == reviewCall[c]
           rows == ReviewsOf(q.shop, After(q))
           a == Average(rows)
           n == Cardinality(rows)
           r == [q EXCEPT !.pc = "commit", !.rating = a, !.count = n]
<1>0. /\ q \in KnownRequest /\ Sound(c, q, shopLock, lastReview)
      /\ q.pc = "recalculate" /\ \A d \in ReviewCalls \ {c} : AgreeOn(q, reviewCall[d])
  BY DEF RatingInv, RatingTypes, Recalculate
<1>1. /\ reviewCall' = [reviewCall EXCEPT ![c] = r]
      /\ UNCHANGED <<reviews, lastReview, shopRating, reviewCount, visits, shopLock>>
  BY DEF Recalculate, Goto
<1>2. a \in Aggregates /\ n \in Counts
  <2>1. rows \in SUBSET ReviewRow
    BY <1>0, RowType DEF ReviewsOf
  <2> QED
    BY <2>1 DEF Aggregates, Counts
<1> HIDE DEF q, a, n
<1>3. /\ r \in KnownRequest /\ r.pc = "commit" /\ r.rating = a /\ r.count = n
      /\ r.op = q.op /\ r.id = q.id /\ r.shop = q.shop /\ r.user = q.user
      /\ r.stars = q.stars
  <2>1. q \in KnownRequest /\ a \in Aggregates /\ n \in Counts
    BY <1>0, <1>2
  <2> QED
    BY ONLY <2>1 DEF KnownRequest
<1> HIDE DEF r
<1>4. After(r) = After(q)
  BY <1>3 DEF After, RowOf
<1>5. Sound(c, r, shopLock', lastReview')
  <2>1. r.rating = Average(ReviewsOf(r.shop, After(r)))
        /\ r.count = Cardinality(ReviewsOf(r.shop, After(r)))
    BY <1>3, <1>4 DEF a, n
  <2>2. HasId(q) /\ q.pc \in Holding
    BY <1>0 DEF HasId, Holding
  <2>3. r.id \in 1..lastReview' /\ shopLock'[r.shop] = c
    BY <1>0, <1>1, <1>3, <2>2 DEF Sound
  <2>4. \A x \in reviews :
          x.id = r.id => r.op # "create" /\ x.shop = r.shop /\ x.user = r.user
    BY <1>0, <1>3, <2>2 DEF Sound
  <2>5. <<r.shop, r.user>> \in visits
    BY <1>0, <1>3 DEF Sound
  <2>6. IF r.op = "create" THEN \A x \in reviews : ~(x.shop = r.shop /\ x.user = r.user)
        ELSE \E x \in reviews : x.id = r.id
    BY <1>0, <1>3 DEF Sound
  <2> QED
    BY <1>3, <2>1, <2>3, <2>4, <2>5, <2>6 DEF Sound
<1>6. \A d \in ReviewCalls \ {c} : AgreeOn(r, reviewCall[d])
  BY <1>0, <1>3 DEF AgreeOn, HasId
<1>7. lastReview' \in lastReview..MaxReviews /\ shopLock' \in [Shops -> ReviewCalls \union {NoCall}]
  BY <1>1 DEF RatingInv, RatingTypes
<1> QED
  BY <1>1, <1>3, <1>5, <1>6, <1>7, OneRequest

(* The commit of c changes the reviews of its own shop only, and there it  *)
(* brings about the aggregate that c computed under the lock.              *)
LEMMA ReviewCommits == ASSUME RatingInv, NEW c \in ReviewCalls, CommitReview(c) PROVE RatingInv'
<1> DEFINE r == reviewCall[c]
<1>0. /\ r \in KnownRequest /\ Sound(c, r, shopLock, lastReview) /\ r.pc = "commit"
      /\ RowOf(r) \in ReviewRow /\ After(r) \in SUBSET ReviewRow
  <2>1. r.pc = "commit"
    BY DEF CommitReview
  <2> QED
    BY <2>1, RowType DEF RatingInv, RatingTypes
<1>1. /\ reviews' = After(r)
      /\ shopRating' = [shopRating EXCEPT ![r.shop] = r.rating]
      /\ reviewCount' = [reviewCount EXCEPT ![r.shop] = r.count]
      /\ shopLock' = [s \in Shops |-> IF shopLock[s] = c THEN NoCall ELSE shopLock[s]]
      /\ reviewCall' = [reviewCall EXCEPT ![c] = Answered(r)]
      /\ lastReview' = lastReview /\ visits' = visits
  BY DEF CommitReview, ReleaseShop, Goto
<1> HIDE DEF r
<1>2. /\ shopLock[r.shop] = c /\ <<r.shop, r.user>> \in visits /\ r.id \in 1..lastReview
      /\ \A x \in reviews :
           x.id = r.id => r.op # "create" /\ x.shop = r.shop /\ x.user = r.user
  BY <1>0 DEF Sound, HasId, Holding
<1>3. IF r.op = "create" THEN \A x \in reviews : ~(x.shop = r.shop /\ x.user = r.user)
      ELSE \E x \in reviews : x.id = r.id
  BY <1>0 DEF Sound
<1>4. RowOf(r).id = r.id /\ RowOf(r).shop = r.shop /\ RowOf(r).user = r.user
  BY DEF RowOf
<1>5. \A x : x \in reviews' <=> \/ x \in reviews /\ x.id # r.id
                                \/ r.op # "delete" /\ x = RowOf(r)
  BY <1>1 DEF After
<1>6. Answered(r) \in KnownRequest /\ Answered(r).pc = "idle"
  BY <1>0, MovedType DEF Answered
<1>7. reviewCall'[c] = Answered(r) /\ \A d \in ReviewCalls \ {c} : reviewCall'[d] = reviewCall[d]
  BY <1>1 DEF RatingInv, RatingTypes
<1>8. RatingTypes'
  <2>1. r.rating \in Aggregates /\ r.count \in Counts
    BY <1>0 DEF KnownRequest
  <2> QED
    BY <1>0, <1>1, <1>6, <2>1 DEF RatingInv, RatingTypes
<1>9. ASSUME NEW t \in Shops, t # r.shop
      PROVE  ReviewsOf(t, reviews') = ReviewsOf(t, reviews)
  BY <1>2, <1>4, <1>5, <1>9 DEF ReviewsOf
<1>10. RatingIsExact'
  <2> SUFFICES ASSUME NEW t \in Shops
               PROVE  /\ shopRating'[t] = Average(ReviewsOf(t, reviews'))
                      /\ reviewCount'[t] = Cardinality(ReviewsOf(t, reviews'))
    BY DEF RatingIsExact
  <2>0. shopRating \in [Shops -> Aggregates] /\ reviewCount \in [Shops -> Counts]
    BY DEF RatingInv, RatingTypes
  <2>1. CASE t = r.shop
    <3>1. shopRating'[t] = r.rating /\ reviewCount'[t] = r.count
      BY <1>1, <2>0, <2>1
    <3>2. /\ r.rating = Average(ReviewsOf(r.shop, After(r)))
          /\ r.count = Cardinality(ReviewsOf(r.shop, After(r)))
      BY <1>0 DEF Sound
    <3> QED
      BY <1>1, <2>1, <3>1, <3>2
  <2>2. CASE t # r.shop
    <3>1. shopRating'[t] = shopRating[t] /\ reviewCount'[t] = reviewCount[t]
      BY <1>1, <2>0, <2>2
    <3> QED
      BY <1>9, <2>2, <3>1 DEF RatingInv, RatingIsExact
  <2> QED
    BY <2>1, <2>2
<1>11. ASSUME NEW d \in ReviewCalls PROVE Sound(d, reviewCall[d], shopLock, lastReview)'
  <2>1. CASE d = c
    BY <1>6, <1>7, <2>1 DEF Sound, HasId, Holding
  <2>2. CASE d # c
    <3> DEFINE q == reviewCall[d]
    <3>0. q \in KnownRequest /\ Sound(d, q, shopLock, lastReview) /\ AgreeOn(r, q)
      BY <2>2 DEF RatingInv, RatingTypes, r
    <3>1. reviewCall'[d] = q
      BY <1>7, <2>2
    <3> HIDE DEF q
    <3>2. q.shop \in Shops
      BY <3>0 DEF KnownRequest
    <3>3. q.pc \in Holding => shopLock'[q.shop] = d
      BY <1>1, <2>2, <3>0, <3>2 DEF Sound
    <3>4. q.pc \in {"recalculate", "commit"} => q.shop # r.shop
      BY <1>2, <2>2, <3>0 DEF Sound, Holding
    <3>5. HasId(q) =>
            /\ q.id \in 1..lastReview
            /\ \A x \in reviews' :
                 x.id = q.id => q.op # "create" /\ x.shop = q.shop /\ x.user = q.user
      <4>1. HasId(r)
        BY <1>0 DEF HasId
      <4> QED
        BY <1>4, <1>5, <3>0, <4>1 DEF Sound, AgreeOn
    <3>6. q.pc \in {"recalculate", "commit"} =>
            IF q.op = "create" THEN \A x \in reviews' : ~(x.shop = q.shop /\ x.user = q.user)
            ELSE \E x \in reviews' : x.id = q.id
      <4> SUFFICES ASSUME q.pc \in {"recalculate", "commit"}
                   PROVE  IF q.op = "create"
                          THEN \A x \in reviews' : ~(x.shop = q.shop /\ x.user = q.user)
                          ELSE \E x \in reviews' : x.id = q.id
        OBVIOUS
      <4>1. CASE q.op = "create"
        BY <1>4, <1>5, <3>0, <3>4, <4>1 DEF Sound
      <4>2. CASE q.op # "create"
        <5>1. PICK x \in reviews : x.id = q.id
          BY <3>0, <4>2 DEF Sound
        <5>2. x.shop = q.shop
          BY <3>0, <5>1 DEF Sound, HasId
        <5> QED
          BY <1>2, <1>5, <3>4, <4>2, <5>1, <5>2
      <4> QED
        BY <4>1, <4>2
    <3>7. q.pc = "commit" =>
            /\ q.rating = Average(ReviewsOf(q.shop, After(q)'))
            /\ q.count = Cardinality(ReviewsOf(q.shop, After(q)'))
      <4> SUFFICES ASSUME q.pc = "commit"
                   PROVE  ReviewsOf(q.shop, After(q)') = ReviewsOf(q.shop, After(q))
        BY <3>0 DEF Sound
      <4>1. \A x : x \in ReviewsOf(q.shop, reviews') <=> x \in ReviewsOf(q.shop, reviews)
        BY <1>9, <3>2, <3>4
      <4> QED
        BY <4>1, <3>1 DEF ReviewsOf, After, RowOf, q
    <3>8. Sound(d, q, shopLock, lastReview)'
      BY <3>0, <3>3, <3>5, <3>6, <3>7, <1>1, <3>1 DEF Sound, q
    <3> QED
      BY <3>8, <3>1 DEF q
  <2> QED
    BY <2>1, <2>2
<1>12. \A d, e \in ReviewCalls : d # e => AgreeOn(reviewCall[d], reviewCall[e])'
  <2> SUFFICES ASSUME NEW d \in ReviewCalls, NEW e \in ReviewCalls, d # e
               PROVE  AgreeOn(reviewCall'[d], reviewCall'[e])
    BY DEF AgreeOn, HasId
  <2>1. CASE d # c /\ e # c
    BY <1>7, <2>1 DEF RatingInv
  <2>2. CASE d = c \/ e = c
    BY <1>6, <1>7, <2>2 DEF AgreeOn, HasId
  <2> QED
    BY <2>1, <2>2
<1>13. \A x \in reviews' : x.id <= lastReview'
  <2>1. r.id <= lastReview
    BY <1>2 DEF RatingInv, RatingTypes
  <2> QED
    BY <1>1, <1>4, <1>5, <2>1 DEF RatingInv
<1>14. \A x, y \in reviews' : x.id = y.id => x = y
  BY <1>4, <1>5 DEF RatingInv
<1>15. ReviewsAreEarned'
  <2>1. \A x \in reviews' : <<x.shop, x.user>> \in visits
    BY <1>2, <1>4, <1>5 DEF RatingInv, ReviewsAreEarned
  <2>2. \A y \in reviews : y.shop = r.shop /\ y.user = r.user => y.id = r.id
    <3>1. CASE r.op = "create"
      BY <1>3, <3>1
    <3>2. CASE r.op # "create"
      <4>1. PICK x \in reviews : x.id = r.id
        BY <1>3, <3>2
      <4> QED
        BY <1>2, <4>1 DEF RatingInv, ReviewsAreEarned
    <3> QED
      BY <3>1, <3>2
  <2>3. ASSUME NEW x \in reviews', NEW y \in reviews', x.shop = y.shop, x.user = y.user
        PROVE  x = y
    <3>1. CASE x \in reviews /\ y \in reviews
      BY <2>3, <3>1 DEF RatingInv, ReviewsAreEarned
    <3>2. CASE x = RowOf(r) /\ y # RowOf(r)
      BY <1>4, <1>5, <2>2, <2>3, <3>2
    <3>3. CASE y = RowOf(r) /\ x # RowOf(r)
      BY <1>4, <1>5, <2>2, <2>3, <3>3
    <3>4. CASE x = RowOf(r) /\ y = RowOf(r)
      BY <3>4
    <3> QED
      BY <1>5, <3>1, <3>2, <3>3, <3>4
  <2> QED
    BY <1>1, <2>1, <2>3 DEF ReviewsAreEarned
<1> QED
  BY <1>8, <1>10, <1>11, <1>12, <1>13, <1>14, <1>15 DEF RatingInv

LEMMA VisitStep ==
  ASSUME RatingInv, NEW s \in Shops, NEW u \in Customers, Visit(s, u) PROVE RatingInv'
<1>1. /\ UNCHANGED <<reviews, lastReview, shopRating, reviewCount, shopLock, reviewCall>>
      /\ visits' = visits \union {<<s, u>>}
  BY DEF Visit
<1>2. RatingTypes'
  BY <1>1 DEF RatingInv, RatingTypes
<1>3. ASSUME NEW c \in ReviewCalls PROVE Sound(c, reviewCall[c], shopLock, lastReview)'
  <2>1. Sound(c, reviewCall[c], shopLock, lastReview)
    BY DEF RatingInv
  <2> QED
    BY <1>1, <2>1 DEF Sound, After, RowOf
<1>4. RatingIsExact' /\ ReviewsAreEarned'
  BY <1>1 DEF RatingInv, RatingIsExact, ReviewsAreEarned, ReviewsOf
<1>5. \A c, d \in ReviewCalls : c # d => AgreeOn(reviewCall[c], reviewCall[d])'
  BY <1>1 DEF RatingInv, AgreeOn, HasId
<1>6. /\ \A x \in reviews' : x.id <= lastReview'
      /\ \A x, y \in reviews' : x.id = y.id => x = y
  BY <1>1 DEF RatingInv
<1> QED
  BY <1>2, <1>3, <1>4, <1>5, <1>6 DEF RatingInv

LEMMA RatingMoves == RatingInv /\ [ReviewNext]_reviewVars => RatingInv'
<1> SUFFICES ASSUME RatingInv, [ReviewNext]_reviewVars PROVE RatingInv'
  OBVIOUS
<1>1. ASSUME NEW s \in Shops, NEW u \in Customers, Visit(s, u) PROVE RatingInv'
  BY <1>1, VisitStep
<1>2. ASSUME NEW c \in ReviewCalls, NEW s \in Shops, NEW u \in Customers, NEW n \in Ratings,
             BeginReview(c, s, u, n)
      PROVE  RatingInv'
  BY <1>2, ReviewBegins
<1>3. ASSUME NEW c \in ReviewCalls, NEW x \in reviews,
             \/ \E n \in Ratings : FindOwn(c, "update", x, n)
             \/ FindOwn(c, "delete", x, x.stars)
      PROVE  RatingInv'
  <2>1. x.stars \in Ratings
    BY DEF RatingInv, RatingTypes, ReviewRow
  <2> QED
    BY <1>3, <2>1, FindStep
<1>4. ASSUME NEW c \in ReviewCalls,
             \/ CheckWritten(c) \/ LockShop(c) \/ InsertReview(c) \/ WriteReview(c)
             \/ Recalculate(c) \/ CommitReview(c) \/ AbortReview(c)
      PROVE  RatingInv'
  BY <1>4, ReviewChecked, LockStep, InsertStep, WriteStep, RecalculateStep, ReviewCommits, AbortStep
<1>5. CASE UNCHANGED reviewVars
  <2>1. UNCHANGED <<reviews, lastReview, shopRating, reviewCount, visits, shopLock, reviewCall>>
    BY <1>5 DEF reviewVars
  <2>2. RatingTypes'
    BY <2>1 DEF RatingInv, RatingTypes
  <2>3. ASSUME NEW c \in ReviewCalls PROVE Sound(c, reviewCall[c], shopLock, lastReview)'
    <3>1. Sound(c, reviewCall[c], shopLock, lastReview)
      BY DEF RatingInv
    <3> QED
      BY <2>1, <3>1 DEF Sound, After, RowOf
  <2>4. \A c, d \in ReviewCalls : c # d => AgreeOn(reviewCall[c], reviewCall[d])'
    BY <2>1 DEF RatingInv, AgreeOn, HasId
  <2>5. RatingIsExact' /\ ReviewsAreEarned'
    BY <2>1 DEF RatingInv, RatingIsExact, ReviewsAreEarned, ReviewsOf
  <2> QED
    BY <2>1, <2>2, <2>3, <2>4, <2>5 DEF RatingInv
<1> QED
  BY <1>1, <1>2, <1>3, <1>4, <1>5 DEF ReviewNext

-----------------------------------------------------------------------------
(* Whatever creations, changes and deletions of reviews overlap, a shop's  *)
(* rating and count are those of its committed reviews: the row lock makes *)
(* recalculateShopRating and the commit one step for the shop.             *)
THEOREM RatingAlwaysExact == ReviewSpec => []RatingIsExact
<1>1. RatingInv => RatingIsExact
  BY DEF RatingInv
<1> QED
  BY <1>1, RatingStart, RatingMoves, PTL DEF ReviewSpec

(* Nobody reviews a shop without a completed reservation there, nor twice, *)
(* although existsByShopAndUser is asked before the transaction.           *)
THEOREM ReviewsAlwaysEarned == ReviewSpec => []ReviewsAreEarned
<1>1. RatingInv => ReviewsAreEarned
  BY DEF RatingInv
<1> QED
  BY <1>1, RatingStart, RatingMoves, PTL DEF ReviewSpec

-----------------------------------------------------------------------------
(* Beside RatingInv: what a request has computed is a number, also the one *)
(* that an answered request leaves behind, and a lock is held by who is at *)
(* work.                                                                   *)
NumbersOK ==
  /\ \A c \in ReviewCalls : reviewCall[c].rating \in Int /\ reviewCall[c].count \in Nat
  /\ \A s \in Shops : shopLock[s] # NoCall => reviewCall[shopLock[s]].pc \in Holding

(* There are as many reviews as ids at most. *)
LEMMA ReviewsAreFinite == ASSUME RatingInv PROVE IsFiniteSet(reviews)
<1>. DEFINE f == [x \in reviews |-> x.id]
<1>1. f \in [reviews -> 1..MaxReviews] /\ \A x, y \in reviews : f[x] = f[y] => x = y
  BY DEF RatingInv, RatingTypes, ReviewRow
<1>2. f \in Injection(reviews, 1..MaxReviews)
  BY <1>1 DEF Injection, IsInjective
<1>3. IsFiniteSet(1..MaxReviews)
  BY FS_Interval, ReviewAssumption
<1>. HIDE DEF f
<1>. QED  BY <1>2, <1>3, FS_Injection

(* The average of finitely many reviews is a number. *)
LEMMA AverageIsANumber ==
  ASSUME NEW rows \in SUBSET ReviewRow, IsFiniteSet(rows)
  PROVE  Average(rows) \in Int /\ Cardinality(rows) \in Nat
<1>. DEFINE n == Cardinality(rows)
            f == [r \in rows |-> r.stars]
            SumsStars(g) ==
              g = [T \in SUBSET rows |->
                     IF T = {} THEN 0
                     ELSE LET x == CHOOSE x \in T : TRUE IN x.stars + g[T \ {x}]]
            g == CHOOSE g : SumsStars(g)
            sum == MapThenSumSet(LAMBDA r : r.stars, rows)
<1>1. n \in Nat /\ \A x \in rows : f[x] \in Nat
  <2>1. n \in Nat
    BY FS_CardinalityType
  <2>2. ASSUME NEW x \in rows PROVE f[x] \in Nat
    <3>1. f[x] = x.stars /\ x \in ReviewRow
      OBVIOUS
    <3>2. x.stars \in 1..5
      BY <3>1, ReviewAssumption DEF ReviewRow
    <3>. QED  BY <3>1, <3>2
  <2>. QED  BY <2>1, <2>2
<1>2. ASSUME NEW h PROVE SumsStars(h) <=> Adds(h, f, rows)
  <2>1. ASSUME NEW T \in SUBSET rows, T # {}
        PROVE  (CHOOSE x \in T : TRUE).stars = f[CHOOSE x \in T : TRUE]
    <3>1. (CHOOSE x \in T : TRUE) \in T
      BY <2>1
    <3>. QED  BY <3>1
  <2>. DEFINE A(T) == IF T = {} THEN 0
                      ELSE LET x == CHOOSE x \in T : TRUE IN x.stars + h[T \ {x}]
              B(T) == IF T = {} THEN 0
                      ELSE LET x == CHOOSE x \in T : TRUE IN f[x] + h[T \ {x}]
  <2>2. \A T \in SUBSET rows : A(T) = B(T)
    BY <2>1
  <2>3. SumsStars(h) <=> h = [T \in SUBSET rows |-> A(T)]
    OBVIOUS
  <2>4. Adds(h, f, rows) <=> h = [T \in SUBSET rows |-> B(T)]
    BY DEF Adds
  <2>. HIDE DEF A, B, SumsStars
  <2>. QED  BY <2>2, <2>3, <2>4
<1>3. PICK h : Adds(h, f, rows)
  <2>. HIDE DEF f
  <2>. QED  BY <1>1, SumExists
<1>4. SumsStars(g)
  <2>1. SumsStars(h)
    BY <1>2, <1>3
  <2>. HIDE DEF SumsStars
  <2>. QED  BY <2>1
<1>5. g[rows] \in Nat
  <2>1. Adds(g, f, rows)
    BY <1>2, <1>4
  <2>. HIDE DEF f, g
  <2>. QED  BY <1>1, <2>1, SumIsNatural
<1>6. sum = g[rows]
  BY DEF MapThenSumSet, MapThenFoldSet
<1>. HIDE DEF n, f, g, sum
<1>7. sum \in Nat
  BY <1>5, <1>6
<1>8. Average(rows) = IF n = 0 THEN 0 ELSE (20 * sum + n) \div (2 * n)
  BY DEF Average, n, sum
<1>9. Average(rows) \in Int
  <2>1. CASE n = 0
    BY <1>8, <2>1
  <2>2. CASE n # 0
    <3>1. 20 * sum + n \in Int /\ 2 * n \in Int /\ 2 * n > 0
      BY <1>1, <1>7, <2>2
    <3>2. (20 * sum + n) \div (2 * n) \in Int
      BY <3>1
    <3>. QED  BY <1>8, <2>2, <3>2
  <2>. QED  BY <2>1, <2>2
<1>. QED  BY <1>1, <1>9 DEF n

(* What a shop shows are numbers. *)
LEMMA ShownAreNumbers ==
  ASSUME RatingInv
  PROVE  shopRating \in [Shops -> Int] /\ reviewCount \in [Shops -> Nat]
<1>1. ASSUME NEW s \in Shops
      PROVE  shopRating[s] \in Int /\ reviewCount[s] \in Nat
  <2>1. ReviewsOf(s, reviews) \in SUBSET ReviewRow /\ IsFiniteSet(ReviewsOf(s, reviews))
    BY ReviewsAreFinite, FS_Subset DEF RatingInv, RatingTypes, ReviewsOf
  <2>. QED  BY <2>1, AverageIsANumber DEF RatingInv, RatingIsExact
<1>. QED  BY <1>1 DEF RatingInv, RatingTypes

(* What Recalculate computes are numbers. *)
LEMMA ComputedAreNumbers ==
  ASSUME RatingInv, NEW c \in ReviewCalls
  PROVE  LET rows == ReviewsOf(reviewCall[c].shop, After(reviewCall[c]))
         IN reviewCall[c].pc = "recalculate" =>
              Average(rows) \in Int /\ Cardinality(rows) \in Nat
<1>. DEFINE r == reviewCall[c]
            rows == ReviewsOf(r.shop, After(r))
<1>. SUFFICES ASSUME r.pc = "recalculate"
              PROVE  Average(rows) \in Int /\ Cardinality(rows) \in Nat
  OBVIOUS
<1>1. r \in KnownRequest /\ Sound(c, r, shopLock, lastReview)
  BY DEF RatingInv, RatingTypes
<1>2. r.id \in 1..MaxReviews /\ RowOf(r) \in ReviewRow
  <2>1. r.id \in 1..lastReview /\ lastReview \in 0..MaxReviews
    BY <1>1 DEF Sound, HasId, RatingInv, RatingTypes
  <2>2. r.id \in 1..MaxReviews
    BY <2>1, ReviewAssumption
  <2>. QED  BY <1>1, <2>2 DEF RowOf, ReviewRow, KnownRequest
<1>3. After(r) \in SUBSET ReviewRow
  BY <1>2 DEF After, RatingInv, RatingTypes
<1>4. IsFiniteSet(After(r))
  <2>1. IsFiniteSet({x \in reviews : x.id # r.id})
    BY ReviewsAreFinite, FS_Subset
  <2>2. IsFiniteSet(IF r.op = "delete" THEN {} ELSE {RowOf(r)})
    BY FS_EmptySet, FS_Singleton
  <2>. QED  BY <2>1, <2>2, FS_Union DEF After
<1>5. rows \in SUBSET ReviewRow /\ IsFiniteSet(rows)
  BY <1>3, <1>4, FS_Subset DEF ReviewsOf
<1>. QED  BY <1>5, AverageIsANumber

LEMMA NumbersStart == ReviewInit => NumbersOK
BY DEF ReviewInit, NumbersOK, Request

(* A request that goes on with numbers, and locks that stay or are let go. *)
LEMMA NumbersMove ==
  ASSUME RatingInv, NumbersOK, NEW c \in ReviewCalls, NEW r,
         reviewCall' = [reviewCall EXCEPT ![c] = r],
         r.rating \in Int, r.count \in Nat,
         \A s \in Shops :
           \/ shopLock'[s] = NoCall
           \/ shopLock'[s] = c /\ r.pc \in Holding
           \/ shopLock'[s] = shopLock[s] /\ shopLock[s] # c
  PROVE  NumbersOK'
<1>1. \A d \in ReviewCalls : reviewCall'[d] = IF d = c THEN r ELSE reviewCall[d]
  BY DEF RatingInv, RatingTypes
<1>2. \A s \in Shops : shopLock[s] \in ReviewCalls \union {NoCall}
  BY DEF RatingInv, RatingTypes
<1>. QED  BY <1>1, <1>2 DEF NumbersOK

LEMMA NumbersKept == RatingInv /\ NumbersOK /\ [ReviewNext]_reviewVars => NumbersOK'
<1>. SUFFICES ASSUME RatingInv, NumbersOK, [ReviewNext]_reviewVars PROVE NumbersOK'
  OBVIOUS
<1>. DEFINE r(c) == reviewCall[c]
<1>1. ASSUME NEW c \in ReviewCalls
      PROVE  /\ r(c) \in KnownRequest /\ r(c).rating \in Int /\ r(c).count \in Nat
             /\ r(c).pc \notin Holding => \A s \in Shops : shopLock[s] # c
  BY ReviewAssumption DEF RatingInv, RatingTypes, NumbersOK
<1>2. ASSUME NEW s \in Shops, NEW u \in Customers, Visit(s, u) PROVE NumbersOK'
  BY <1>2 DEF Visit, NumbersOK
<1>3. ASSUME NEW c \in ReviewCalls, NEW pc, NEW op, NEW id, NEW s, NEW u, NEW n,
             r(c).pc = "idle", Goto(c, Request(pc, op, id, s, u, n)), UNCHANGED shopLock
      PROVE  NumbersOK'
  <2>1. Request(pc, op, id, s, u, n).rating \in Int /\ Request(pc, op, id, s, u, n).count \in Nat
    BY DEF Request
  <2>2. \A t \in Shops : shopLock[t] # c
    BY <1>1, <1>3 DEF Holding
  <2>. QED  BY <1>3, <2>1, <2>2, NumbersMove DEF Goto
<1>4. ASSUME NEW c \in ReviewCalls, CheckWritten(c) PROVE NumbersOK'
  <2>1. PICK pc \in {"idle", "lock"} : Goto(c, [r(c) EXCEPT !.pc = pc])
    BY <1>4 DEF CheckWritten
  <2>2. UNCHANGED shopLock /\ \A t \in Shops : shopLock[t] # c
    BY <1>1, <1>4 DEF CheckWritten, Holding
  <2>3. [r(c) EXCEPT !.pc = pc].rating \in Int /\ [r(c) EXCEPT !.pc = pc].count \in Nat
    BY <1>1 DEF KnownRequest
  <2>. QED  BY <2>1, <2>2, <2>3, NumbersMove DEF Goto
<1>5. ASSUME NEW c \in ReviewCalls, LockShop(c) PROVE NumbersOK'
  <2>. DEFINE q == [r(c) EXCEPT !.pc = "write"]
  <2>1. q.rating \in Int /\ q.count \in Nat /\ q.pc \in Holding
    BY <1>1 DEF KnownRequest, Holding
  <2>2. /\ shopLock' = [shopLock EXCEPT ![r(c).shop] = c] /\ shopLock \in [Shops -> ReviewCalls \union {NoCall}]
        /\ \A t \in Shops : shopLock[t] # c
    BY <1>1, <1>5 DEF LockShop, Holding, RatingInv, RatingTypes
  <2>3. \A t \in Shops : shopLock'[t] = c \/ (shopLock'[t] = shopLock[t] /\ shopLock[t] # c)
    BY <2>2
  <2>. QED  BY <1>5, <2>1, <2>3, NumbersMove DEF LockShop, Goto
<1>6. ASSUME NEW c \in ReviewCalls, InsertReview(c) \/ WriteReview(c) PROVE NumbersOK'
  <2>1. PICK q : /\ Goto(c, q) /\ q.pc = "recalculate"
                 /\ q.rating = r(c).rating /\ q.count = r(c).count
    <3>1. CASE InsertReview(c)
      <4>. DEFINE q == [r(c) EXCEPT !.id = lastReview + 1, !.pc = "recalculate"]
      <4>1. Goto(c, q) /\ q.pc = "recalculate" /\ q.rating = r(c).rating /\ q.count = r(c).count
        BY <1>1, <3>1 DEF InsertReview, KnownRequest
      <4>. QED  BY <4>1
    <3>2. CASE WriteReview(c)
      <4>. DEFINE q == [r(c) EXCEPT !.pc = "recalculate"]
      <4>1. Goto(c, q) /\ q.pc = "recalculate" /\ q.rating = r(c).rating /\ q.count = r(c).count
        BY <1>1, <3>2 DEF WriteReview, KnownRequest
      <4>. QED  BY <4>1
    <3>. QED  BY <1>6, <3>1, <3>2
  <2>2. UNCHANGED shopLock
    BY <1>6 DEF InsertReview, WriteReview
  <2>3. q.rating \in Int /\ q.count \in Nat /\ q.pc \in Holding
    BY <1>1, <2>1 DEF Holding
  <2>. QED  BY <2>1, <2>2, <2>3, NumbersMove DEF Goto
<1>7. ASSUME NEW c \in ReviewCalls, Recalculate(c) PROVE NumbersOK'
  <2>. DEFINE rows == ReviewsOf(r(c).shop, After(r(c)))
              q == [r(c) EXCEPT !.pc = "commit", !.rating = Average(rows),
                                !.count = Cardinality(rows)]
  <2>1. Average(rows) \in Int /\ Cardinality(rows) \in Nat
    BY <1>7, ComputedAreNumbers DEF Recalculate
  <2>2. Goto(c, q) /\ UNCHANGED shopLock
    BY <1>7 DEF Recalculate
  <2>. HIDE DEF rows
  <2>3. q.rating \in Int /\ q.count \in Nat /\ q.pc \in Holding
    BY <1>1, <2>1 DEF KnownRequest, Holding
  <2>. HIDE DEF q
  <2>. QED  BY <2>2, <2>3, NumbersMove DEF Goto
<1>8. ASSUME NEW c \in ReviewCalls, CommitReview(c) \/ AbortReview(c) PROVE NumbersOK'
  <2>1. Goto(c, Answered(r(c))) /\ ReleaseShop(c)
    BY <1>8 DEF CommitReview, AbortReview
  <2>2. Answered(r(c)).rating \in Int /\ Answered(r(c)).count \in Nat
    BY <1>1 DEF Answered, KnownRequest
  <2>3. \A t \in Shops : shopLock'[t] = NoCall \/ (shopLock'[t] = shopLock[t] /\ shopLock[t] # c)
    BY <2>1 DEF ReleaseShop
  <2>. QED  BY <2>1, <2>2, <2>3, NumbersMove DEF Goto
<1>9. ASSUME UNCHANGED reviewVars PROVE NumbersOK'
  BY <1>9 DEF reviewVars, NumbersOK
<1>10. ASSUME NEW c \in ReviewCalls, NEW s \in Shops, NEW u \in Customers, NEW n \in Ratings,
              BeginReview(c, s, u, n)
       PROVE  NumbersOK'
  BY <1>3, <1>10 DEF BeginReview
<1>11. ASSUME NEW c \in ReviewCalls, NEW x \in reviews, NEW op, NEW n, FindOwn(c, op, x, n)
       PROVE  NumbersOK'
  BY <1>3, <1>11 DEF FindOwn
<1>. QED
  BY <1>2, <1>4, <1>5, <1>6, <1>7, <1>8, <1>9, <1>10, <1>11 DEF ReviewNext

LEMMA NumbersTyped == RatingInv /\ NumbersOK => ReviewTypeOK
<1>. SUFFICES ASSUME RatingInv, NumbersOK PROVE ReviewTypeOK
  OBVIOUS
<1>1. ASSUME NEW c \in ReviewCalls PROVE reviewCall[c] \in ReviewRequest
  <2>1. /\ reviewCall[c] \in KnownRequest
        /\ reviewCall[c].rating \in Int /\ reviewCall[c].count \in Nat
    BY DEF RatingInv, RatingTypes, NumbersOK
  <2>. QED  BY <2>1 DEF KnownRequest, ReviewRequest
<1>2. reviewCall \in [ReviewCalls -> ReviewRequest]
  BY <1>1 DEF RatingInv, RatingTypes
<1>. QED  BY <1>2, ShownAreNumbers DEF RatingInv, RatingTypes, NumbersOK, ReviewTypeOK

(* Ratings and counts are always numbers, and a shop is locked only by a   *)
(* request that is inside its transaction (review.repository.ts).          *)
THEOREM RatingsTyped == ReviewSpec => []ReviewTypeOK
BY RatingStart, RatingMoves, NumbersStart, NumbersKept, NumbersTyped, PTL DEF ReviewSpec

-----------------------------------------------------------------------------
(***************************************************************************)
(* Design.  DesignInv says of a wish what it may rely on although nothing  *)
(* is locked (WishIsSound), and of an administrator's transaction that the *)
(* tags it knows are there (AdminIsSound).                                 *)
(***************************************************************************)

(* What is known of a wish call in the state r: of whose design and for    *)
(* what it is, that its design is there or has gone while it ran, and that *)
(* the wish it is about to confirm is there or was undone while it ran.    *)
WishIsSound(r, there, made) ==
  /\ r.pc # "answered" => r.design \in Designs /\ r.reply = "none"
  /\ r.pc # "answered" /\ ~r.gone => r.design \in there
  /\ r.reply = "notFound" => r.gone
  /\ r.pc \in {"select", "insert"} => r.op = "wish"
  /\ r.pc = "remove" => r.op = "unwish"
  /\ r.op = "wish" /\ r.pc = "count" /\ ~r.undone => <<r.design, r.fan>> \in made

(* A transaction knows the ids of tags that have rows or that it has       *)
(* inserted itself, and inserts a tag.                                     *)
AdminIsSound(r, known) ==
  /\ r.snapshot \subseteq known /\ r.resolved \subseteq known \union r.inserted
  /\ r.pc = "insert" => r.tag \in Tags

DesignInv ==
  /\ DesignTypeOK
  /\ \A c \in AdminCalls : AdminIsSound(admin[c], tags)
  /\ \A c \in WishCalls : WishIsSound(wish[c], designs, wishes)

-----------------------------------------------------------------------------
(* A wish call at its start, and one that is over.                         *)
LEMMA AWishBegins ==
  ASSUME NEW pc \in {"answered", "select", "insert", "remove", "count", "increment"},
         NEW op \in {"wish", "unwish", "view"},
         NEW d \in Designs \union {NoDesign}, NEW u \in Fans
  PROVE  /\ NewWish(pc, op, d, u) \in WishRecord
         /\ NewWish(pc, op, d, u).pc = pc /\ NewWish(pc, op, d, u).op = op
         /\ NewWish(pc, op, d, u).design = d /\ NewWish(pc, op, d, u).fan = u
         /\ d \notin designs => NewWish(pc, op, d, u).gone
         /\ pc # "answered" => NewWish(pc, op, d, u).reply = "none"
BY DEF NewWish, WishRecord, Replies

(* The same for the call of an administrator.                              *)
LEMMA AnAdminBegins ==
  ASSUME NEW op \in {"create", "retag", "edit"},
         NEW d \in Designs \union {NoDesign}, NEW ns \in SUBSET Tags
  PROVE  /\ NewAdmin(op, d, ns) \in AdminRecord
         /\ NewAdmin(op, d, ns).resolved = {} /\ NewAdmin(op, d, ns).snapshot = {}
         /\ NewAdmin(op, d, ns).inserted = {} /\ NewAdmin(op, d, ns).pc = "select"
BY DEF NewAdmin, AdminRecord, Replies

LEMMA CatalogueStart == DesignInit => DesignInv
<1>. SUFFICES ASSUME DesignInit PROVE DesignInv
  OBVIOUS
<1>. DEFINE u == CHOOSE x \in Fans : TRUE
            q == NewWish("answered", "view", NoDesign, u)
            w == [q EXCEPT !.reply = "none"]
            b == NewAdmin("edit", NoDesign, {})
            a == [b EXCEPT !.pc = "answered"]
<1>1. u \in Fans
  BY DesignAssumption
<1>. HIDE DEF u
<1>2. q \in WishRecord
  BY <1>1, AWishBegins
<1>3. q.pc = "answered"
  BY <1>1, AWishBegins
<1>3a. q.op = "view"
  BY <1>1, AWishBegins
<1>4. b \in AdminRecord /\ b.resolved = {} /\ b.snapshot = {}
  BY AnAdminBegins
<1>. HIDE DEF q, b
<1>5. /\ w \in WishRecord /\ w.pc = "answered" /\ w.op = "view" /\ w.reply = "none"
  BY <1>2, <1>3, <1>3a DEF WishRecord, Replies
<1>6. a \in AdminRecord /\ a.resolved = {} /\ a.snapshot = {} /\ a.pc = "answered"
  BY <1>4 DEF AdminRecord
<1>7. wish = [c \in WishCalls |-> w] /\ admin = [c \in AdminCalls |-> a]
  BY DEF DesignInit, q, b, u
<1>. HIDE DEF w, a
<1>8. DesignTypeOK
  BY <1>5, <1>6, <1>7, DesignAssumption DEF DesignInit, DesignTypeOK
<1>9. \A c \in WishCalls : WishIsSound(wish[c], designs, wishes)
  BY <1>5, <1>7 DEF WishIsSound
<1>10. \A c \in AdminCalls : AdminIsSound(admin[c], tags)
  BY <1>6, <1>7 DEF AdminIsSound
<1>. QED  BY <1>8, <1>9, <1>10 DEF DesignInv

-----------------------------------------------------------------------------
(* A step that moves one wish call to a sound state and takes no row away. *)
LEMMA OneWishMoves ==
  ASSUME DesignInv, NEW c \in WishCalls, NEW r \in WishRecord, WishTo(c, r), WishIsSound(r, designs', wishes'),
         wishes \subseteq wishes', wishes' \in SUBSET (designs \X Fans),
         UNCHANGED <<designs, deleted, tags, designTags, admin>>
  PROVE  DesignInv'
<1>1. /\ wish' \in [WishCalls -> WishRecord]
      /\ \A x \in WishCalls : wish'[x] = IF x = c THEN r ELSE wish[x]
  BY DEF WishTo, DesignInv, DesignTypeOK
<1>2. ASSUME NEW x \in WishCalls
      PROVE  WishIsSound(wish'[x], designs', wishes')
  <2>1. WishIsSound(wish[x], designs, wishes)
    BY DEF DesignInv
  <2>2. CASE x = c
    BY <1>1, <2>2 DEF WishIsSound
  <2>3. CASE x # c
    BY <1>1, <2>1, <2>3 DEF WishIsSound
  <2>. QED  BY <2>2, <2>3
<1>3. \A x \in AdminCalls : AdminIsSound(admin'[x], tags')
  BY DEF DesignInv, AdminIsSound
<1>4. DesignTypeOK'
  BY <1>1 DEF DesignInv, DesignTypeOK
<1>. QED  BY <1>2, <1>3, <1>4 DEF DesignInv

(* What holds of every call.                                               *)
LEMMA AWishCall ==
  ASSUME DesignInv, NEW c \in WishCalls
  PROVE  wish[c] \in WishRecord /\ WishIsSound(wish[c], designs, wishes)
BY DEF DesignInv, DesignTypeOK

(* A call may be answered with success or with an error at any time, with  *)
(* "not found" when its design has gone.                                   *)
LEMMA WishIsAnswered ==
  ASSUME DesignInv, NEW c \in WishCalls, NEW reply \in Replies,
         reply = "notFound" => wish[c].gone, AnswerWish(c, reply),
         UNCHANGED <<designs, deleted, tags, designTags, wishes, admin>>
  PROVE  DesignInv'
<1>. DEFINE q == NewWish("answered", "view", NoDesign, wish[c].fan)
            g == wish[c].gone
            r == [q EXCEPT !.reply = reply, !.gone = g]
<1>1. wish[c].fan \in Fans /\ g \in BOOLEAN
  BY AWishCall DEF WishRecord
<1>2. q \in WishRecord /\ q.pc = "answered" /\ q.op = "view"
  BY <1>1, AWishBegins
<1>3. WishTo(c, r)
  BY DEF AnswerWish
<1>4. wishes \subseteq wishes' /\ wishes' \in SUBSET (designs \X Fans)
  BY DEF DesignInv, DesignTypeOK
<1>5. reply = "notFound" => g
  OBVIOUS
<1>. HIDE DEF q, g
<1>6. r \in WishRecord /\ r.pc = "answered" /\ r.op = "view" /\ r.reply = reply /\ r.gone = g
  BY <1>1, <1>2 DEF WishRecord
<1>. HIDE DEF r
<1>7. WishIsSound(r, designs', wishes')
  BY <1>5, <1>6 DEF WishIsSound
<1>. QED  BY <1>3, <1>4, <1>6, <1>7, OneWishMoves

LEMMA DesignFound ==
  ASSUME DesignInv, NEW c \in WishCalls, NEW op \in {"wish", "unwish", "view"},
         NEW d \in Designs, NEW u \in Fans, FindDesign(c, op, d, u)
  PROVE  DesignInv'
<1>1. wishes \subseteq wishes' /\ wishes' \in SUBSET (designs \X Fans)
  BY DEF DesignInv, DesignTypeOK, FindDesign
<1>2. CASE d \in designs
  <2>. DEFINE pc == [wish |-> "select", unwish |-> "remove", view |-> "increment"][op]
              r == NewWish(pc, op, d, u)
  <2>1. /\ pc \in {"select", "remove", "increment"}
        /\ pc = "select" => op = "wish"
        /\ pc = "remove" => op = "unwish"
    OBVIOUS
  <2>2. WishTo(c, r)
    BY <1>2 DEF FindDesign
  <2>. HIDE DEF pc
  <2>3. /\ r \in WishRecord /\ r.pc = pc /\ r.op = op /\ r.design = d /\ r.reply = "none"
    BY <2>1, AWishBegins
  <2>. HIDE DEF r
  <2>4. WishIsSound(r, designs', wishes')
    BY <1>2, <2>1, <2>3 DEF WishIsSound, FindDesign
  <2>. QED  BY <1>1, <2>2, <2>3, <2>4, OneWishMoves DEF FindDesign
<1>3. CASE d \notin designs
  <2>. DEFINE r == NewWish("answered", "view", NoDesign, u)
  <2>1. /\ r \in WishRecord /\ r.pc = "answered" /\ r.op = "view"
        /\ (NoDesign \notin designs => r.gone)
    BY AWishBegins
  <2>2. NoDesign \notin designs
    BY DesignAssumption DEF DesignInv, DesignTypeOK
  <2>3. WishTo(c, r)
    BY <1>3 DEF FindDesign
  <2>. HIDE DEF r
  <2>4. WishIsSound(r, designs', wishes')
    BY <2>1, <2>2 DEF WishIsSound
  <2>. QED  BY <1>1, <2>1, <2>3, <2>4, OneWishMoves DEF FindDesign
<1>. QED  BY <1>2, <1>3

LEMMA ViewsCounted ==
  ASSUME DesignInv, NEW c \in WishCalls, IncrementViews(c)
  PROVE  DesignInv'
<1>1. wish[c].design \notin designs => wish[c].gone
  BY AWishCall DEF WishIsSound, IncrementViews
<1>2. CASE wish[c].design \in designs
  BY <1>2, WishIsAnswered DEF IncrementViews, Replies
<1>3. CASE wish[c].design \notin designs
  BY <1>1, <1>3, WishIsAnswered DEF IncrementViews, Replies
<1>. QED  BY <1>2, <1>3

LEMMA WishSelected ==
  ASSUME DesignInv, NEW c \in WishCalls, SelectWish(c)
  PROVE  DesignInv'
<1>. DEFINE q == wish[c]
            there == <<q.design, q.fan>> \in wishes
            pc == IF there THEN "count" ELSE "insert"
            r == [q EXCEPT !.pc = pc]
<1>1. q \in WishRecord /\ WishIsSound(q, designs, wishes) /\ q.pc = "select" /\ WishTo(c, r)
  BY AWishCall DEF SelectWish
<1>2. wishes \subseteq wishes' /\ wishes' \in SUBSET (designs \X Fans)
  BY DEF DesignInv, DesignTypeOK, SelectWish
<1>. HIDE DEF q
<1>3. pc \in {"count", "insert"} /\ (pc = "count" => there)
  OBVIOUS
<1>. HIDE DEF pc
<1>4. /\ r \in WishRecord /\ r.pc = pc /\ r.op = q.op /\ r.design = q.design /\ r.fan = q.fan
      /\ r.gone = q.gone /\ r.undone = q.undone /\ r.reply = q.reply
  BY <1>1, <1>3 DEF WishRecord
<1>. HIDE DEF r
<1>5. WishIsSound(r, designs', wishes')
  BY <1>1, <1>3, <1>4 DEF WishIsSound, SelectWish
<1>. QED  BY <1>1, <1>2, <1>4, <1>5, OneWishMoves DEF SelectWish

LEMMA WishInserted ==
  ASSUME DesignInv, NEW c \in WishCalls, InsertWish(c)
  PROVE  DesignInv'
<1>. DEFINE q == wish[c]
            r == [q EXCEPT !.pc = "count"]
<1>1. q \in WishRecord /\ WishIsSound(q, designs, wishes) /\ q.pc = "insert"
  BY AWishCall DEF InsertWish
<1>2. CASE q.design \in designs
  <2>1. wishes' = wishes \union {<<q.design, q.fan>>} /\ WishTo(c, r)
    BY <1>2 DEF InsertWish
  <2>2. q.fan \in Fans
    BY <1>1 DEF WishRecord
  <2>3. wishes \subseteq wishes' /\ wishes' \in SUBSET (designs \X Fans)
    BY <1>2, <2>1, <2>2 DEF DesignInv, DesignTypeOK
  <2>. HIDE DEF q
  <2>4. /\ r \in WishRecord /\ r.pc = "count" /\ r.op = q.op /\ r.design = q.design /\ r.fan = q.fan
        /\ r.gone = q.gone /\ r.undone = q.undone /\ r.reply = q.reply
    BY <1>1 DEF WishRecord
  <2>. HIDE DEF r
  <2>5. WishIsSound(r, designs', wishes')
    BY <1>1, <1>2, <2>1, <2>4 DEF WishIsSound, InsertWish
  <2>. QED  BY <2>1, <2>3, <2>4, <2>5, OneWishMoves DEF InsertWish
<1>3. CASE q.design \notin designs
  <2>1. q.gone
    BY <1>1, <1>3 DEF WishIsSound
  <2>. QED  BY <1>3, <2>1, WishIsAnswered DEF InsertWish, Replies
<1>. QED  BY <1>2, <1>3

(* Taking a wish back marks the calls that have just made it.              *)
LEMMA WishRemoved ==
  ASSUME DesignInv, NEW c \in WishCalls, RemoveWish(c)
  PROVE  DesignInv'
<1>. DEFINE q == wish[c]
            r == [q EXCEPT !.pc = "count"]
<1>1. q \in WishRecord /\ WishIsSound(q, designs, wishes) /\ q.pc = "remove"
  BY AWishCall DEF RemoveWish
<1>2. /\ wishes' = wishes \ {<<q.design, q.fan>>}
      /\ UNCHANGED <<designs, deleted, tags, designTags, admin>>
      /\ \A x \in WishCalls :
           wish'[x] = IF x = c THEN r
             ELSE [wish[x] EXCEPT !.undone = @ \/ (wish[x].design = q.design /\ wish[x].fan = q.fan)]
      /\ wish' = [x \in WishCalls |-> wish'[x]]
  BY DEF RemoveWish
<1>. HIDE DEF q
<1>3. /\ r \in WishRecord /\ r.pc = "count" /\ r.op = q.op /\ r.design = q.design
      /\ r.gone = q.gone /\ r.reply = q.reply
  BY <1>1 DEF WishRecord
<1>. HIDE DEF r
<1>4. ASSUME NEW x \in WishCalls
      PROVE  wish'[x] \in WishRecord /\ WishIsSound(wish'[x], designs', wishes')
  <2>1. CASE x = c
    BY <1>1, <1>2, <1>3, <2>1 DEF WishIsSound
  <2>2. CASE x # c
    <3>. DEFINE p == wish[x]
                un == p.undone \/ (p.design = q.design /\ p.fan = q.fan)
                s == [p EXCEPT !.undone = un]
    <3>1. p \in WishRecord /\ WishIsSound(p, designs, wishes) /\ wish'[x] = s
      BY <1>2, <2>2, AWishCall
    <3>. HIDE DEF p
    <3>2. un \in BOOLEAN /\ (~un => ~p.undone /\ <<p.design, p.fan>> # <<q.design, q.fan>>)
      BY <3>1 DEF WishRecord
    <3>. HIDE DEF un
    <3>3. /\ s \in WishRecord /\ s.pc = p.pc /\ s.op = p.op /\ s.design = p.design /\ s.fan = p.fan
          /\ s.gone = p.gone /\ s.undone = un /\ s.reply = p.reply
      BY <3>1, <3>2 DEF WishRecord
    <3>. HIDE DEF s
    <3>. QED  BY <1>2, <3>1, <3>2, <3>3 DEF WishIsSound
  <2>. QED  BY <2>1, <2>2
<1>5. \A x \in AdminCalls : AdminIsSound(admin'[x], tags')
  BY <1>2 DEF DesignInv, AdminIsSound
<1>6. DesignTypeOK'
  BY <1>2, <1>4 DEF DesignInv, DesignTypeOK
<1>. QED  BY <1>4, <1>5, <1>6 DEF DesignInv

(* So does deleting the design, which also marks whose design it was.      *)
LEMMA DesignDeleted ==
  ASSUME DesignInv, NEW d \in Designs, DeleteDesign(d)
  PROVE  DesignInv'
<1>1. /\ designs' = designs \ {d} /\ deleted' = deleted \union {d} /\ d \in designs
      /\ designTags' = [designTags EXCEPT ![d] = {}]
      /\ wishes' = {w \in wishes : w[1] # d} /\ UNCHANGED tags
      /\ \A x \in WishCalls :
           wish'[x] = [wish[x] EXCEPT !.gone = @ \/ wish[x].design = d,
                                      !.undone = @ \/ wish[x].design = d]
      /\ wish' = [x \in WishCalls |-> wish'[x]]
      /\ \A x \in AdminCalls : admin'[x] = [admin[x] EXCEPT !.gone = @ \/ admin[x].design = d]
      /\ admin' = [x \in AdminCalls |-> admin'[x]]
  BY DEF DeleteDesign
<1>2. ASSUME NEW x \in WishCalls
      PROVE  wish'[x] \in WishRecord /\ WishIsSound(wish'[x], designs', wishes')
  <2>. DEFINE p == wish[x]
              un == p.undone \/ p.design = d
              gn == p.gone \/ p.design = d
              s == [p EXCEPT !.gone = gn, !.undone = un]
  <2>1. p \in WishRecord /\ WishIsSound(p, designs, wishes) /\ wish'[x] = s
    BY <1>1, AWishCall
  <2>. HIDE DEF p
  <2>2. /\ un \in BOOLEAN /\ gn \in BOOLEAN
        /\ (~un => ~p.undone /\ p.design # d)
        /\ (~gn => ~p.gone /\ p.design # d)
        /\ (p.gone => gn)
    BY <2>1 DEF WishRecord
  <2>. HIDE DEF un, gn
  <2>3. /\ s \in WishRecord /\ s.pc = p.pc /\ s.op = p.op /\ s.design = p.design /\ s.fan = p.fan
        /\ s.gone = gn /\ s.undone = un /\ s.reply = p.reply
    BY <2>1, <2>2 DEF WishRecord
  <2>. HIDE DEF s
  <2>4. p.design # d /\ <<p.design, p.fan>> \in wishes => <<p.design, p.fan>> \in wishes'
    BY <1>1
  <2>. QED  BY <1>1, <2>1, <2>2, <2>3, <2>4 DEF WishIsSound
<1>3. ASSUME NEW x \in AdminCalls
      PROVE  admin'[x] \in AdminRecord /\ AdminIsSound(admin'[x], tags')
  <2>. DEFINE p == admin[x]
              gn == p.gone \/ p.design = d
              s == [p EXCEPT !.gone = gn]
  <2>1. p \in AdminRecord /\ AdminIsSound(p, tags) /\ admin'[x] = s
    BY <1>1 DEF DesignInv, DesignTypeOK
  <2>. HIDE DEF p
  <2>2. gn \in BOOLEAN
    BY <2>1 DEF AdminRecord
  <2>. HIDE DEF gn
  <2>3. /\ s \in AdminRecord /\ s.resolved = p.resolved /\ s.inserted = p.inserted
        /\ s.snapshot = p.snapshot /\ s.pc = p.pc /\ s.tag = p.tag
    BY <2>1, <2>2 DEF AdminRecord
  <2>. HIDE DEF s
  <2>. QED  BY <1>1, <2>1, <2>3 DEF AdminIsSound
<1>4. designTags' \in [Designs -> SUBSET tags']
  BY <1>1 DEF DesignInv, DesignTypeOK
<1>5. wishes' \in SUBSET (designs' \X Fans)
  BY <1>1 DEF DesignInv, DesignTypeOK
<1>6. designs' \in SUBSET Designs /\ deleted' \in SUBSET (Designs \ designs')
  BY <1>1 DEF DesignInv, DesignTypeOK
<1>7. tags' \in SUBSET Tags
  BY <1>1 DEF DesignInv, DesignTypeOK
<1>8. DesignTypeOK'
  BY <1>1, <1>2, <1>3, <1>4, <1>5, <1>6, <1>7 DEF DesignTypeOK
<1>. QED  BY <1>2, <1>3, <1>8 DEF DesignInv

-----------------------------------------------------------------------------
(* A step of one administrator that only adds designs and tags.            *)
LEMMA OneAdminMoves ==
  ASSUME DesignInv, NEW c \in AdminCalls, NEW r \in AdminRecord, AdminTo(c, r), AdminIsSound(r, tags'),
         designs \subseteq designs', designs' \in SUBSET (Designs \ deleted),
         tags \subseteq tags', tags' \in SUBSET Tags, designTags' \in [Designs -> SUBSET tags'],
         UNCHANGED <<deleted, wishes, wish>>
  PROVE  DesignInv'
<1>1. /\ admin' \in [AdminCalls -> AdminRecord]
      /\ \A x \in AdminCalls : admin'[x] = IF x = c THEN r ELSE admin[x]
  BY DEF AdminTo, DesignInv, DesignTypeOK
<1>2. ASSUME NEW x \in AdminCalls
      PROVE  AdminIsSound(admin'[x], tags')
  <2>1. AdminIsSound(admin[x], tags)
    BY DEF DesignInv
  <2>2. CASE x = c
    BY <1>1, <2>2 DEF AdminIsSound
  <2>3. CASE x # c
    BY <1>1, <2>1, <2>3 DEF AdminIsSound
  <2>. QED  BY <2>2, <2>3
<1>3. ASSUME NEW x \in WishCalls
      PROVE  WishIsSound(wish'[x], designs', wishes')
  BY DEF DesignInv, WishIsSound
<1>4. /\ deleted' \in SUBSET (Designs \ designs')
      /\ wishes' \in SUBSET (designs' \X Fans)
      /\ designs' \in SUBSET Designs
      /\ wish' \in [WishCalls -> WishRecord]
  BY DEF DesignInv, DesignTypeOK
<1>5. DesignTypeOK'
  BY <1>1, <1>4 DEF DesignTypeOK
<1>. QED  BY <1>2, <1>3, <1>5 DEF DesignInv

LEMMA AnAdminCall ==
  ASSUME DesignInv, NEW c \in AdminCalls
  PROVE  admin[c] \in AdminRecord /\ AdminIsSound(admin[c], tags)
BY DEF DesignInv, DesignTypeOK

(* The record an answered call leaves.                                     *)
LEMMA AnAdminAnswer ==
  ASSUME DesignInv, NEW c \in AdminCalls, NEW reply \in Replies, AnswerAdmin(c, reply)
  PROVE  \E r \in AdminRecord :
           AdminTo(c, r) /\ r.resolved = {} /\ r.snapshot = {} /\ r.pc = "answered"
<1>. DEFINE b == NewAdmin("edit", NoDesign, {})
            g == admin[c].gone
            r == [b EXCEPT !.pc = "answered", !.reply = reply, !.gone = g]
<1>1. b \in AdminRecord /\ b.resolved = {} /\ b.snapshot = {} /\ g \in BOOLEAN
  BY AnAdminBegins, AnAdminCall DEF AdminRecord
<1>2. AdminTo(c, r)
  BY DEF AnswerAdmin
<1>. HIDE DEF b, g
<1>3. r \in AdminRecord /\ r.resolved = {} /\ r.snapshot = {} /\ r.pc = "answered"
  BY <1>1 DEF AdminRecord
<1>. HIDE DEF r
<1>. QED  BY <1>2, <1>3

(* A step that changes no table.                                           *)
LEMMA AdminOnly ==
  ASSUME DesignInv, NEW c \in AdminCalls, NEW r \in AdminRecord, AdminTo(c, r), AdminIsSound(r, tags),
         UNCHANGED <<designs, deleted, tags, designTags, wishes, wish>>
  PROVE  DesignInv'
<1>1. AdminIsSound(r, tags')
  BY DEF AdminIsSound
<1>2. /\ designs \subseteq designs' /\ designs' \in SUBSET (Designs \ deleted)
      /\ tags \subseteq tags' /\ tags' \in SUBSET Tags
      /\ designTags' \in [Designs -> SUBSET tags']
  BY DEF DesignInv, DesignTypeOK
<1>. QED  BY <1>1, <1>2, OneAdminMoves

LEMMA AdminBegins ==
  ASSUME DesignInv, NEW c \in AdminCalls, NEW op \in {"create", "retag", "edit"},
         NEW d \in Designs \union {NoDesign}, NEW ns \in SUBSET Tags,
         AdminTo(c, NewAdmin(op, d, ns)),
         UNCHANGED <<designs, deleted, tags, designTags, wishes, wish>>
  PROVE  DesignInv'
BY AnAdminBegins, AdminOnly DEF AdminIsSound

LEMMA AdminAnswered ==
  ASSUME DesignInv, NEW c \in AdminCalls, NEW reply \in Replies, AnswerAdmin(c, reply),
         UNCHANGED <<designs, deleted, tags, designTags, wishes, wish>>
  PROVE  DesignInv'
<1>1. PICK r \in AdminRecord :
        AdminTo(c, r) /\ r.resolved = {} /\ r.snapshot = {} /\ r.pc = "answered"
  BY AnAdminAnswer
<1>. QED  BY <1>1, AdminOnly DEF AdminIsSound

LEMMA TagSelected ==
  ASSUME DesignInv, NEW c \in AdminCalls, NEW t \in Tags, SelectTag(c, t)
  PROVE  DesignInv'
<1>. DEFINE q == admin[c]
            seen == IF q.reading THEN q.snapshot ELSE tags
            found == [q EXCEPT !.reading = TRUE, !.snapshot = seen, !.resolved = @ \union {t}]
            lacks == [q EXCEPT !.reading = TRUE, !.snapshot = seen, !.pc = "insert", !.tag = t]
<1>1. q \in AdminRecord /\ AdminIsSound(q, tags)
  BY AnAdminCall
<1>2. AdminTo(c, IF t \in seen THEN found ELSE lacks)
  BY DEF SelectTag
<1>3. seen \in SUBSET tags /\ seen \in SUBSET Tags
  BY <1>1 DEF AdminIsSound, AdminRecord, DesignInv, DesignTypeOK
<1>. HIDE DEF q, seen
<1>4. /\ found \in AdminRecord /\ found.snapshot = seen /\ found.inserted = q.inserted
      /\ found.resolved = q.resolved \union {t} /\ found.pc = q.pc /\ found.tag = q.tag
  BY <1>1, <1>3 DEF AdminRecord
<1>5. /\ lacks \in AdminRecord /\ lacks.snapshot = seen /\ lacks.inserted = q.inserted
      /\ lacks.resolved = q.resolved /\ lacks.tag = t
  BY <1>1, <1>3 DEF AdminRecord
<1>. HIDE DEF found, lacks
<1>6. CASE t \in seen
  <2>1. AdminIsSound(found, tags)
    BY <1>1, <1>3, <1>4, <1>6 DEF AdminIsSound
  <2>. QED  BY <1>2, <1>4, <1>6, <2>1, AdminOnly DEF SelectTag
<1>7. CASE t \notin seen
  <2>1. AdminIsSound(lacks, tags)
    BY <1>1, <1>3, <1>5 DEF AdminIsSound
  <2>. QED  BY <1>2, <1>5, <1>7, <2>1, AdminOnly DEF SelectTag
<1>. QED  BY <1>6, <1>7

LEMMA TagInserted ==
  ASSUME DesignInv, NEW c \in AdminCalls, InsertTag(c)
  PROVE  DesignInv'
<1>. DEFINE q == admin[c]
            r == [q EXCEPT !.pc = "select", !.resolved = @ \union {q.tag},
                           !.inserted = @ \union {q.tag}]
<1>1. q \in AdminRecord /\ AdminIsSound(q, tags) /\ q.pc = "insert"
  BY AnAdminCall DEF InsertTag
<1>2. AdminTo(c, r)
  BY DEF InsertTag
<1>3. q.tag \in Tags
  BY <1>1 DEF AdminIsSound
<1>. HIDE DEF q
<1>4. /\ r \in AdminRecord /\ r.snapshot = q.snapshot /\ r.pc = "select"
      /\ r.resolved = q.resolved \union {q.tag} /\ r.inserted = q.inserted \union {q.tag}
  BY <1>1, <1>3 DEF AdminRecord
<1>. HIDE DEF r
<1>5. AdminIsSound(r, tags)
  BY <1>1, <1>4 DEF AdminIsSound
<1>. QED  BY <1>2, <1>4, <1>5, AdminOnly DEF InsertTag

LEMMA TagReread ==
  ASSUME DesignInv, NEW c \in AdminCalls, RereadTag(c) \/ AbortDesign(c)
  PROVE  DesignInv'
<1>1. PICK reply \in Replies : AnswerAdmin(c, reply)
  BY DEF RereadTag, AbortDesign, Replies
<1>. QED  BY <1>1, AdminAnswered DEF RereadTag, AbortDesign

LEMMA DesignSaved ==
  ASSUME DesignInv, NEW c \in AdminCalls, SaveDesign(c)
  PROVE  DesignInv'
<1>. DEFINE q == admin[c]
<1>1. q \in AdminRecord /\ AdminIsSound(q, tags) /\ q.names = q.resolved
  BY AnAdminCall DEF SaveDesign
<1>2. q.names \subseteq tags \union q.inserted /\ q.inserted \subseteq Tags
  BY <1>1 DEF AdminIsSound, AdminRecord
<1>3. PICK reply \in Replies : AnswerAdmin(c, reply)
  BY DEF SaveDesign, Replies
<1>4. PICK r \in AdminRecord :
        AdminTo(c, r) /\ r.resolved = {} /\ r.snapshot = {} /\ r.pc = "answered"
  BY <1>3, AnAdminAnswer
<1>5. AdminIsSound(r, tags')
  BY <1>4 DEF AdminIsSound
<1>6. /\ designs \subseteq designs' /\ designs' \in SUBSET (Designs \ deleted)
      /\ tags \subseteq tags' /\ tags' \in SUBSET Tags
      /\ designTags' \in [Designs -> SUBSET tags']
  <2>0. /\ designs \in SUBSET Designs /\ deleted \in SUBSET (Designs \ designs)
        /\ tags \in SUBSET Tags /\ designTags \in [Designs -> SUBSET tags]
    BY DEF DesignInv, DesignTypeOK
  <2>1. CASE q.op = "create"
    <3>1. PICK d \in Designs \ (designs \union deleted) :
            designs' = designs \union {d} /\ designTags' = [designTags EXCEPT ![d] = q.names]
      BY <2>1 DEF SaveDesign
    <3>2. tags' = tags \union q.inserted
      BY <2>1 DEF SaveDesign
    <3>. HIDE DEF q
    <3>3. designTags' \in [Designs -> SUBSET tags']
      BY <1>2, <2>0, <3>1, <3>2
    <3>. QED  BY <1>2, <2>0, <3>1, <3>2, <3>3
  <2>2. CASE q.op # "create" /\ q.design \in designs
    <3>1. PICK ns \in {q.names, designTags[q.design]} :
            designTags' = [designTags EXCEPT ![q.design] = ns]
      BY <2>2 DEF SaveDesign
    <3>2. tags' = tags \union q.inserted /\ designs' = designs
      BY <2>2 DEF SaveDesign
    <3>. HIDE DEF q
    <3>3. q.design \in Designs /\ ns \subseteq tags'
      BY <1>2, <2>0, <2>2, <3>1, <3>2
    <3>4. designTags' \in [Designs -> SUBSET tags']
      BY <2>0, <3>1, <3>2, <3>3
    <3>. QED  BY <1>2, <2>0, <3>2, <3>4
  <2>3. CASE q.op # "create" /\ q.design \notin designs
    BY <2>0, <2>3 DEF SaveDesign
  <2>. QED  BY <2>1, <2>2, <2>3
<1>. QED  BY <1>4, <1>5, <1>6, OneAdminMoves DEF SaveDesign

-----------------------------------------------------------------------------
LEMMA CatalogueMoves == DesignInv /\ [DesignNext]_designVars => DesignInv'
<1>. SUFFICES ASSUME DesignInv, [DesignNext]_designVars PROVE DesignInv'
  OBVIOUS
<1>1. ASSUME NEW c \in AdminCalls, NEW ns \in SUBSET Tags, BeginCreateDesign(c, ns)
      PROVE  DesignInv'
  BY <1>1, AdminBegins DEF BeginCreateDesign
<1>2. ASSUME NEW c \in AdminCalls, NEW ns \in SUBSET Tags, NEW op \in {"retag", "edit"},
             NEW d \in Designs, BeginUpdateDesign(c, op, d, ns)
      PROVE  DesignInv'
  BY <1>2, AdminBegins DEF BeginUpdateDesign
<1>3. ASSUME NEW c \in AdminCalls, NEW t \in Tags, SelectTag(c, t)
      PROVE  DesignInv'
  BY <1>3, TagSelected
<1>4. ASSUME NEW c \in AdminCalls,
             InsertTag(c) \/ RereadTag(c) \/ SaveDesign(c) \/ AbortDesign(c)
      PROVE  DesignInv'
  BY <1>4, TagInserted, TagReread, DesignSaved
<1>5. ASSUME NEW d \in Designs, DeleteDesign(d)
      PROVE  DesignInv'
  BY <1>5, DesignDeleted
<1>6. ASSUME NEW c \in WishCalls, NEW op \in {"wish", "unwish", "view"}, NEW d \in Designs,
             NEW u \in Fans, FindDesign(c, op, d, u)
      PROVE  DesignInv'
  BY <1>6, DesignFound
<1>7. ASSUME NEW c \in WishCalls,
             IncrementViews(c) \/ SelectWish(c) \/ InsertWish(c) \/ RemoveWish(c)
      PROVE  DesignInv'
  BY <1>7, ViewsCounted, WishSelected, WishInserted, WishRemoved
<1>8. ASSUME NEW c \in WishCalls, CountWishes(c) \/ FailWish(c)
      PROVE  DesignInv'
  BY <1>8, WishIsAnswered DEF CountWishes, FailWish, Replies
<1>9. CASE UNCHANGED designVars
  BY <1>9 DEF designVars, DesignInv, DesignTypeOK
<1>. QED  BY <1>1, <1>2, <1>3, <1>4, <1>5, <1>6, <1>7, <1>8, <1>9 DEF DesignNext

(* A user to whom a wish is confirmed has it on the list, unless it was    *)
(* taken back or the design deleted while the call ran, and a user is told *)
(* that a design does not exist only if it did not, however many calls of  *)
(* users and administrators overlap (design.repository.ts:301).            *)
THEOREM WishAnswersHold == DesignSpec => []WishAnswersTrue
<1>1. DesignInv => WishAnswersTrue
  BY DEF DesignInv, WishIsSound, WishAnswersTrue, WishedIsWished, MissingForUsersIsTrue
<1>. QED  BY <1>1, CatalogueStart, CatalogueMoves, PTL DEF DesignSpec

(* The catalogue keeps its types: a design has only tags that exist, a     *)
(* wish is on a design that exists, and an id is not used twice.           *)
THEOREM DesignsTyped == DesignSpec => []DesignTypeOK
<1>1. DesignInv => DesignTypeOK
  BY DEF DesignInv
<1>. QED  BY <1>1, CatalogueStart, CatalogueMoves, PTL DEF DesignSpec

-----------------------------------------------------------------------------
(***************************************************************************)
(* ShopWish.  WishInv counts: every answer spends one of the requests that *)
(* were let in, and an insert or a removal is an answer.                   *)
(***************************************************************************)

(* Every request that took effect is one of those that were let in; what   *)
(* was inserted or removed is an effect.                                   *)
WishInv ==
  /\ active \in BOOLEAN /\ wished \in BOOLEAN
  /\ tap \in [Taps -> TapPoint]
  /\ toggled \in Nat /\ inserted \in Nat /\ turnedOff \in Nat /\ untold \in Nat
  /\ inserted <= toggled
  /\ toggled + Cardinality(Running) <= MaxTaps
  /\ OffOncePerHeart

(* Requests at work are finitely many.                                     *)
LEMMA TapsAreFinite ==
  /\ IsFiniteSet(Running) /\ Cardinality(Running) \in Nat
  /\ IsFiniteSet(Removers) /\ Cardinality(Removers) \in Nat
<1>1. Running \subseteq Taps /\ Removers \subseteq Taps
  BY DEF Running, Removers
<1>. QED  BY <1>1, FS_Subset, FS_CardinalityType, WishAssumption

LEMMA HeartStart == WishInit => WishInv
<1>. SUFFICES ASSUME WishInit PROVE WishInv
  OBVIOUS
<1>1. Running = {} /\ Removers = {}
  BY DEF WishInit, Running, Removers
<1>2. Cardinality(Running) = 0 /\ Cardinality(Removers) = 0
  BY <1>1, FS_EmptySet
<1>3. OffOncePerHeart
  <2>1. 0 = 0 + 0 + 0 + (IF wished THEN 1 ELSE 0)
    BY DEF WishInit
  <2>. QED  BY <1>2, <2>1, Zenon DEF OffOncePerHeart, WishInit
<1>4. active \in BOOLEAN /\ wished \in BOOLEAN
  BY Zenon DEF WishInit
<1>5. /\ toggled = 0 /\ inserted = 0 /\ turnedOff = 0 /\ untold = 0
      /\ tap \in [Taps -> TapPoint]
  BY DEF WishInit, TapPoint
<1>6. inserted <= toggled /\ toggled + Cardinality(Running) <= MaxTaps
  BY <1>2, <1>5, WishAssumption
<1>. QED  BY <1>3, <1>4, <1>5, <1>6 DEF WishInv

(* One request goes on: it leaves the set it was in and joins the next.    *)
LEMMA TapGoesOn ==
  ASSUME WishInv, NEW c \in Taps, NEW pc \in TapPoint, TapTo(c, pc)
  PROVE  /\ tap' \in [Taps -> TapPoint]
         /\ Cardinality(Running') = Cardinality(Running)
              - (IF tap[c] \in {"answered", "deleted"} THEN 0 ELSE 1)
              + (IF pc \in {"answered", "deleted"} THEN 0 ELSE 1)
         /\ Cardinality(Removers') = Cardinality(Removers)
              - (IF tap[c] = "deleted" THEN 1 ELSE 0) + (IF pc = "deleted" THEN 1 ELSE 0)
<1>1. /\ tap' \in [Taps -> TapPoint]
      /\ \A x \in Taps : tap'[x] = IF x = c THEN pc ELSE tap[x]
  BY DEF TapTo, WishInv
<1>. DEFINE R == Running \ {c}
            D == Removers \ {c}
<1>2. /\ IsFiniteSet(R) /\ Cardinality(R) \in Nat
      /\ Cardinality(Running) =
           Cardinality(R) + (IF tap[c] \in {"answered", "deleted"} THEN 0 ELSE 1)
  <2>1. CASE tap[c] \in {"answered", "deleted"}
    <3>1. R = Running
      BY <2>1 DEF Running
    <3>. QED  BY <2>1, <3>1, TapsAreFinite
  <2>2. CASE tap[c] \notin {"answered", "deleted"}
    <3>1. c \in Running
      BY <2>2 DEF Running
    <3>2. IsFiniteSet(R) /\ Cardinality(R) = Cardinality(Running) - 1
      BY <3>1, TapsAreFinite, FS_RemoveElement
    <3>3. Cardinality(R) \in Nat
      BY <3>2, FS_CardinalityType
    <3>. QED  BY <2>2, <3>2, <3>3, TapsAreFinite
  <2>. QED  BY <2>1, <2>2
<1>3. /\ IsFiniteSet(D) /\ Cardinality(D) \in Nat
      /\ Cardinality(Removers) = Cardinality(D) + (IF tap[c] = "deleted" THEN 1 ELSE 0)
  <2>1. CASE tap[c] # "deleted"
    <3>1. D = Removers
      BY <2>1 DEF Removers
    <3>. QED  BY <2>1, <3>1, TapsAreFinite
  <2>2. CASE tap[c] = "deleted"
    <3>1. c \in Removers
      BY <2>2 DEF Removers
    <3>2. IsFiniteSet(D) /\ Cardinality(D) = Cardinality(Removers) - 1
      BY <3>1, TapsAreFinite, FS_RemoveElement
    <3>3. Cardinality(D) \in Nat
      BY <3>2, FS_CardinalityType
    <3>. QED  BY <2>2, <3>2, <3>3, TapsAreFinite
  <2>. QED  BY <2>1, <2>2
<1>4. Cardinality(Running') = Cardinality(R) + (IF pc \in {"answered", "deleted"} THEN 0 ELSE 1)
  <2>1. CASE pc \in {"answered", "deleted"}
    <3>1. Running' = R
      BY <1>1, <2>1 DEF Running
    <3>. QED  BY <1>2, <2>1, <3>1
  <2>2. CASE pc \notin {"answered", "deleted"}
    <3>1. Running' = R \union {c} /\ c \notin R
      BY <1>1, <2>2 DEF Running
    <3>2. Cardinality(R \union {c}) = Cardinality(R) + 1
      BY <1>2, <3>1, FS_AddElement
    <3>. QED  BY <2>2, <3>1, <3>2
  <2>. QED  BY <2>1, <2>2
<1>5. Cardinality(Removers') = Cardinality(D) + (IF pc = "deleted" THEN 1 ELSE 0)
  <2>1. CASE pc # "deleted"
    <3>1. Removers' = D
      BY <1>1, <2>1 DEF Removers
    <3>. QED  BY <1>3, <2>1, <3>1
  <2>2. CASE pc = "deleted"
    <3>1. Removers' = D \union {c} /\ c \notin D
      BY <1>1, <2>2 DEF Removers
    <3>2. Cardinality(D \union {c}) = Cardinality(D) + 1
      BY <1>3, <3>1, FS_AddElement
    <3>. QED  BY <2>2, <3>1, <3>2
  <2>. QED  BY <2>1, <2>2
<1>. HIDE DEF R, D
<1>. QED  BY <1>1, <1>2, <1>3, <1>4, <1>5

(* The row, as a number.                                                   *)
Heart == IF wished THEN 1 ELSE 0

LEMMA HeartCount ==
  WishInv =>
    /\ wished \in BOOLEAN /\ Heart \in {0, 1}
    /\ wished => Heart = 1
    /\ ~wished => Heart = 0
    /\ inserted = turnedOff + untold + Cardinality(Removers) + Heart
  BY Zenon DEF WishInv, OffOncePerHeart, Heart

(* A step of a request: the sets of requests change by it, and the counts  *)
(* have to follow.                                                         *)
LEMMA TapCounts ==
  ASSUME WishInv, NEW c \in Taps, NEW pc \in TapPoint, TapTo(c, pc), UNCHANGED active,
         wished' \in BOOLEAN, toggled' \in Nat, inserted' \in Nat, turnedOff' \in Nat,
         untold' \in Nat, inserted' <= toggled',
         toggled' + Cardinality(Running') <= MaxTaps,
         inserted' = turnedOff' + untold' + Cardinality(Removers') + Heart'
  PROVE  WishInv'
<1>1. OffOncePerHeart'
  BY DEF OffOncePerHeart, Heart
<1>2. tap' \in [Taps -> TapPoint] /\ active' \in BOOLEAN
  BY TapGoesOn, Zenon DEF WishInv
<1>. QED  BY <1>1, <1>2 DEF WishInv

LEMMA HeartMoves == WishInv /\ [WishNext]_wishVars => WishInv'
<1>. SUFFICES ASSUME WishInv, [WishNext]_wishVars PROVE WishInv'
  OBVIOUS
<1>. DEFINE n == Cardinality(Running)
            m == Cardinality(Running')
            k == Cardinality(Removers)
            l == Cardinality(Removers')
<1>0. /\ toggled \in Nat /\ inserted \in Nat /\ turnedOff \in Nat /\ untold \in Nat
      /\ inserted <= toggled /\ n \in Nat /\ k \in Nat /\ Heart \in {0, 1}
      /\ toggled + n <= MaxTaps /\ inserted = turnedOff + untold + k + Heart
      /\ MaxTaps \in Nat
  BY HeartCount, TapsAreFinite, WishAssumption DEF WishInv
<1>1. ASSUME NEW c \in Taps, BeginToggle(c) PROVE WishInv'
  <2>1. /\ tap[c] = "answered" /\ TapTo(c, "delete") /\ toggled + n < MaxTaps
        /\ UNCHANGED <<active, inserted, turnedOff, untold, toggled>>
    BY <1>1 DEF BeginToggle, WishInv
  <2>2. m = n + 1 /\ l = k
    BY <1>0, <2>1, TapGoesOn DEF TapPoint
  <2>3. wished' \in BOOLEAN /\ Heart' = Heart
    BY <1>1, HeartCount, Zenon DEF BeginToggle, Heart
  <2>. HIDE DEF n, m, k, l
  <2>4. /\ toggled' \in Nat /\ inserted' \in Nat /\ turnedOff' \in Nat /\ untold' \in Nat
        /\ inserted' <= toggled' /\ toggled' + m <= MaxTaps
        /\ inserted' = turnedOff' + untold' + l + Heart'
    BY <1>0, <2>1, <2>2, <2>3
  <2>. QED  BY <2>1, <2>3, <2>4, TapCounts DEF TapPoint, m, l
<1>2. ASSUME NEW c \in Taps, DeleteShopWish(c) PROVE WishInv'
  <2>1. CASE wished
    <3>1. /\ tap[c] = "delete" /\ TapTo(c, "deleted") /\ toggled' = toggled + 1
          /\ UNCHANGED <<active, inserted, turnedOff, untold>>
      BY <1>2, <2>1 DEF DeleteShopWish, WishInv
    <3>2. m = n - 1 /\ l = k + 1
      BY <1>0, <3>1, TapGoesOn DEF TapPoint
    <3>3. wished' \in BOOLEAN /\ Heart = 1 /\ Heart' = 0
      BY <1>2, <2>1, HeartCount, Zenon DEF DeleteShopWish, Heart
    <3>. HIDE DEF n, m, k, l
    <3>4. /\ toggled' \in Nat /\ inserted' \in Nat /\ turnedOff' \in Nat /\ untold' \in Nat
          /\ inserted' <= toggled' /\ toggled' + m <= MaxTaps
          /\ inserted' = turnedOff' + untold' + l + Heart'
      BY <1>0, <3>1, <3>2, <3>3
    <3>. QED  BY <3>1, <3>3, <3>4, TapCounts DEF TapPoint, m, l
  <2>2. CASE ~wished
    <3>1. /\ tap[c] = "delete" /\ TapTo(c, "select")
          /\ UNCHANGED <<active, inserted, turnedOff, untold, toggled>>
      BY <1>2, <2>2 DEF DeleteShopWish, WishInv
    <3>2. m = n /\ l = k
      BY <1>0, <3>1, TapGoesOn DEF TapPoint
    <3>3. wished' \in BOOLEAN /\ Heart' = Heart
      BY <1>2, <2>2, HeartCount, Zenon DEF DeleteShopWish, Heart
    <3>. HIDE DEF n, m, k, l
    <3>4. /\ toggled' \in Nat /\ inserted' \in Nat /\ turnedOff' \in Nat /\ untold' \in Nat
          /\ inserted' <= toggled' /\ toggled' + m <= MaxTaps
          /\ inserted' = turnedOff' + untold' + l + Heart'
      BY <1>0, <3>1, <3>2, <3>3
    <3>. QED  BY <3>1, <3>3, <3>4, TapCounts DEF TapPoint, m, l
  <2>. QED  BY <2>1, <2>2
<1>3. ASSUME NEW c \in Taps, SelectShopWish(c) PROVE WishInv'
  <2>1. CASE wished
    <3>1. /\ tap[c] = "select" /\ TapTo(c, "answered") /\ toggled' = toggled + 1
          /\ UNCHANGED <<active, inserted, turnedOff, untold>>
      BY <1>3, <2>1 DEF SelectShopWish, WishInv
    <3>2. m = n - 1 /\ l = k
      BY <1>0, <3>1, TapGoesOn DEF TapPoint
    <3>3. wished' \in BOOLEAN /\ Heart' = Heart
      BY <1>3, <2>1, HeartCount, Zenon DEF SelectShopWish, Heart
    <3>. HIDE DEF n, m, k, l
    <3>4. /\ toggled' \in Nat /\ inserted' \in Nat /\ turnedOff' \in Nat /\ untold' \in Nat
          /\ inserted' <= toggled' /\ toggled' + m <= MaxTaps
          /\ inserted' = turnedOff' + untold' + l + Heart'
      BY <1>0, <3>1, <3>2, <3>3
    <3>. QED  BY <3>1, <3>3, <3>4, TapCounts DEF TapPoint, m, l
  <2>2. CASE ~wished
    <3>1. /\ tap[c] = "select" /\ TapTo(c, "insert")
          /\ UNCHANGED <<active, inserted, turnedOff, untold, toggled>>
      BY <1>3, <2>2 DEF SelectShopWish, WishInv
    <3>2. m = n /\ l = k
      BY <1>0, <3>1, TapGoesOn DEF TapPoint
    <3>3. wished' \in BOOLEAN /\ Heart' = Heart
      BY <1>3, <2>2, HeartCount, Zenon DEF SelectShopWish, Heart
    <3>. HIDE DEF n, m, k, l
    <3>4. /\ toggled' \in Nat /\ inserted' \in Nat /\ turnedOff' \in Nat /\ untold' \in Nat
          /\ inserted' <= toggled' /\ toggled' + m <= MaxTaps
          /\ inserted' = turnedOff' + untold' + l + Heart'
      BY <1>0, <3>1, <3>2, <3>3
    <3>. QED  BY <3>1, <3>3, <3>4, TapCounts DEF TapPoint, m, l
  <2>. QED  BY <2>1, <2>2
<1>4. ASSUME NEW c \in Taps, InsertShopWish(c) PROVE WishInv'
  <2>1. /\ tap[c] = "insert" /\ TapTo(c, "answered") /\ toggled' = toggled + 1
        /\ inserted' = inserted + 1 /\ UNCHANGED <<active, turnedOff, untold>>
    BY <1>4 DEF InsertShopWish, WishInv
  <2>2. m = n - 1 /\ l = k
    BY <1>0, <2>1, TapGoesOn DEF TapPoint
  <2>3. wished' \in BOOLEAN /\ Heart = 0 /\ Heart' = 1
    BY <1>4, HeartCount, Zenon DEF InsertShopWish, Heart
  <2>. HIDE DEF n, m, k, l
  <2>4. /\ toggled' \in Nat /\ inserted' \in Nat /\ turnedOff' \in Nat /\ untold' \in Nat
        /\ inserted' <= toggled' /\ toggled' + m <= MaxTaps
        /\ inserted' = turnedOff' + untold' + l + Heart'
    BY <1>0, <2>1, <2>2, <2>3
  <2>. QED  BY <2>1, <2>3, <2>4, TapCounts DEF TapPoint, m, l
<1>5. ASSUME NEW c \in Taps, AnswerOff(c) PROVE WishInv'
  <2>1. /\ tap[c] = "deleted" /\ TapTo(c, "answered") /\ turnedOff' = turnedOff + 1
        /\ UNCHANGED <<active, inserted, untold, toggled>>
    BY <1>5 DEF AnswerOff, WishInv
  <2>2. m = n /\ l = k - 1
    BY <1>0, <2>1, TapGoesOn DEF TapPoint
  <2>3. wished' \in BOOLEAN /\ Heart' = Heart
    BY <1>5, HeartCount, Zenon DEF AnswerOff, Heart
  <2>. HIDE DEF n, m, k, l
  <2>4. /\ toggled' \in Nat /\ inserted' \in Nat /\ turnedOff' \in Nat /\ untold' \in Nat
        /\ inserted' <= toggled' /\ toggled' + m <= MaxTaps
        /\ inserted' = turnedOff' + untold' + l + Heart'
    BY <1>0, <2>1, <2>2, <2>3
  <2>. QED  BY <2>1, <2>3, <2>4, TapCounts DEF TapPoint, m, l
<1>6. ASSUME NEW c \in Taps, FailToggle(c) PROVE WishInv'
  <2>1. CASE tap[c] = "deleted"
    <3>1. /\ TapTo(c, "answered") /\ untold' = untold + 1
          /\ UNCHANGED <<active, inserted, turnedOff, toggled>>
      BY <1>6, <2>1 DEF FailToggle, WishInv
    <3>2. m = n /\ l = k - 1
      BY <1>0, <2>1, <3>1, TapGoesOn DEF TapPoint
    <3>3. wished' \in BOOLEAN /\ Heart' = Heart
      BY <1>6, <2>1, HeartCount, Zenon DEF FailToggle, Heart
    <3>. HIDE DEF n, m, k, l
    <3>4. /\ toggled' \in Nat /\ inserted' \in Nat /\ turnedOff' \in Nat /\ untold' \in Nat
          /\ inserted' <= toggled' /\ toggled' + m <= MaxTaps
          /\ inserted' = turnedOff' + untold' + l + Heart'
      BY <1>0, <3>1, <3>2, <3>3
    <3>. QED  BY <3>1, <3>3, <3>4, TapCounts DEF TapPoint, m, l
  <2>2. CASE tap[c] # "deleted"
    <3>1. /\ tap[c] # "answered" /\ TapTo(c, "answered")
          /\ UNCHANGED <<active, inserted, turnedOff, untold, toggled>>
      BY <1>6, <2>2 DEF FailToggle, WishInv
    <3>2. m = n - 1 /\ l = k
      BY <1>0, <2>2, <3>1, TapGoesOn DEF TapPoint
    <3>3. wished' \in BOOLEAN /\ Heart' = Heart
      BY <1>6, <2>2, HeartCount, Zenon DEF FailToggle, Heart
    <3>. HIDE DEF n, m, k, l
    <3>4. /\ toggled' \in Nat /\ inserted' \in Nat /\ turnedOff' \in Nat /\ untold' \in Nat
          /\ inserted' <= toggled' /\ toggled' + m <= MaxTaps
          /\ inserted' = turnedOff' + untold' + l + Heart'
      BY <1>0, <3>1, <3>2, <3>3
    <3>. QED  BY <3>1, <3>3, <3>4, TapCounts DEF TapPoint, m, l
  <2>. QED  BY <2>1, <2>2
<1>7. CASE SetActive \/ UNCHANGED wishVars
  <2>1. UNCHANGED <<wished, tap, inserted, turnedOff, untold, toggled>> /\ active' \in BOOLEAN
    BY <1>7 DEF SetActive, wishVars, WishInv
  <2>2. Running' = Running /\ Removers' = Removers
    BY <2>1 DEF Running, Removers
  <2>. QED  BY <2>1, <2>2 DEF WishInv, OffOncePerHeart
<1>. QED  BY <1>1, <1>2, <1>3, <1>4, <1>5, <1>6, <1>7 DEF WishNext

(* However many requests race for one heart, each row that was made is     *)
(* there or was removed by one request, and nobody else is told that it    *)
(* was him (shop-query.repository.ts:136).                                 *)
THEOREM HeartsCounted == WishSpec => []OffOncePerHeart
<1>1. WishInv => OffOncePerHeart
  BY DEF WishInv
<1>. QED  BY <1>1, HeartStart, HeartMoves, PTL DEF WishSpec

(* The counts stay within the requests that were let in, and no more       *)
(* hearts are turned off than were made.                                   *)
THEOREM HeartsTyped == WishSpec => []WishTypeOK
<1>1. WishInv => WishTypeOK
  <2>. SUFFICES ASSUME WishInv PROVE WishTypeOK
    OBVIOUS
  <2>. DEFINE n == Cardinality(Running)
              k == Cardinality(Removers)
              w == IF wished THEN 1 ELSE 0
  <2>1. n \in Nat /\ k \in Nat /\ w \in 0..1 /\ toggled + n <= MaxTaps
    BY TapsAreFinite DEF WishInv
  <2>2. inserted = turnedOff + untold + k + w
    BY DEF WishInv, OffOncePerHeart
  <2>. HIDE DEF n, k, w
  <2>3. toggled \in 0..MaxTaps /\ inserted \in 0..MaxTaps
    BY <2>1, WishAssumption DEF WishInv
  <2>4. turnedOff \in 0..inserted /\ untold \in 0..inserted
    BY <2>1, <2>2 DEF WishInv
  <2>. QED  BY <2>3, <2>4 DEF WishInv, WishTypeOK
<1>. QED  BY <1>1, HeartStart, HeartMoves, PTL DEF WishSpec

-----------------------------------------------------------------------------
(***************************************************************************)
(* ShopSync.  SyncInv says of a synchronisation which shops of a listing   *)
(* that stood still it has brought in (SyncIsSound).                       *)
(***************************************************************************)

(* The first n shops of the list l are in, or were taken out since r began. *)
Covers(r, n, l, rows) ==
  \A i \in 1..Len(l) :
    i <= n => l[i] \in Foreign \/ l[i] \in r.off \/ rows[l[i]] = "active"

(* What a synchronisation in the state r has brought in of a list that     *)
(* stood still, and what it has at hand.                                   *)
SyncIsSound(r, l, rows) ==
  /\ r.items \cap Foreign = {}
  /\ r.pc # "answered" => 1 <= r.page /\ r.page <= r.max
  /\ r.steady /\ r.pc # "answered" => Covers(r, r.size * (r.page - 1), l, rows)
  /\ r.steady /\ r.pc \in {"read", "save"} =>
       /\ \A i \in 1..Len(l) :
            r.size * (r.page - 1) < i /\ i <= r.size * r.page => l[i] \in Foreign \union r.items
       /\ r.last => Len(l) <= r.size * r.page
  /\ r.steady /\ r.pc = "answered" /\ r.ok /\ Len(l) <= r.max * r.size =>
       Covers(r, Len(l), l, rows)

SyncInv ==
  /\ SyncTypeOK
  /\ \A s \in Foreign : shopRow[s] = "none"
  /\ \A c \in Syncs : SyncIsSound(sync[c], listing, shopRow)

-----------------------------------------------------------------------------
LEMMA AListing ==
  ASSUME NEW l \in Listings
  PROVE  Len(l) \in Nat /\ \A i \in 1..Len(l) : l[i] \in Stores
<1>1. PICK S \in SUBSET Stores : l \in SetToSeqs(S)
  BY DEF Listings
<1>. DEFINE n == Cardinality(S)
<1>2. n \in Nat
  BY FS_Subset, FS_CardinalityType, SyncAssumption
<1>3. l \in [1..n -> S]
  BY <1>1 DEF SetToSeqs
<1>. HIDE DEF n
<1>. QED  BY <1>2, <1>3

(* Sizes, limits and page numbers are positive.                            *)
LEMMA SizesArePositive ==
  ASSUME NEW r \in SyncRecord
  PROVE  r.size \in Nat \ {0} /\ r.max \in Nat \ {0} /\ r.page \in Nat
<1>1. r.size \in PageSizes /\ r.max \in PageLimits /\ r.page \in Nat
  BY DEF SyncRecord
<1>. QED  BY <1>1, SyncAssumption

LEMMA ASyncBegins ==
  ASSUME NEW pc \in {"answered", "fetch", "read", "save"},
         NEW size \in PageSizes, NEW max \in PageLimits
  PROVE  /\ NewSync(pc, size, max) \in SyncRecord
         /\ NewSync(pc, size, max).pc = pc /\ NewSync(pc, size, max).page = 1
         /\ NewSync(pc, size, max).size = size /\ NewSync(pc, size, max).max = max
         /\ NewSync(pc, size, max).items = {}
         /\ ~NewSync(pc, size, max).ok
BY SyncAssumption DEF NewSync, SyncRecord

LEMMA IdleIsSound ==
  /\ Idle \in SyncRecord
  /\ \A l, rows : SyncIsSound(Idle, l, rows)
<1>. DEFINE size == CHOOSE n \in PageSizes : TRUE
            max == CHOOSE n \in PageLimits : TRUE
<1>1. size \in PageSizes /\ max \in PageLimits
  BY SyncAssumption
<1>2. Idle = NewSync("answered", size, max)
  BY DEF Idle
<1>. HIDE DEF size, max
<1>3. Idle \in SyncRecord /\ Idle.pc = "answered" /\ Idle.items = {} /\ ~Idle.ok
  BY <1>1, <1>2, ASyncBegins
<1>. QED  BY <1>3 DEF SyncIsSound

LEMMA SyncStart == SyncInit => SyncInv
BY IdleIsSound, SyncAssumption DEF SyncInit, SyncInv, SyncTypeOK, ShopIds, RowStates

LEMMA ASync ==
  ASSUME SyncInv, NEW c \in Syncs
  PROVE  /\ sync[c] \in SyncRecord /\ SyncIsSound(sync[c], listing, shopRow)
         /\ Len(listing) \in Nat /\ \A i \in 1..Len(listing) : listing[i] \in Stores
BY AListing DEF SyncInv, SyncTypeOK

-----------------------------------------------------------------------------
(* Rows only come in or become active: what was covered still is.          *)
LEMMA StillCovered ==
  ASSUME SyncInv, NEW r \in SyncRecord, SyncIsSound(r, listing, shopRow),
         NEW rows, \A s \in Stores : shopRow[s] = "active" => rows[s] = "active"
  PROVE  SyncIsSound(r, listing, rows)
<1>1. \A i \in 1..Len(listing) : listing[i] \in Stores
  BY AListing DEF SyncInv, SyncTypeOK
<1>. QED  BY <1>1 DEF SyncIsSound, Covers

(* A step that moves one synchronisation and perhaps activates rows.       *)
LEMMA OneSyncMoves ==
  ASSUME SyncInv, NEW c \in Syncs, NEW r \in SyncRecord, SyncTo(c, r),
         SyncIsSound(r, listing, shopRow'), UNCHANGED <<listing, edited>>,
         shopRow' \in [ShopIds -> RowStates],
         \A s \in ShopIds : shopRow[s] # "none" => shopRow'[s] # "none",
         \A s \in Stores : shopRow[s] = "active" => shopRow'[s] = "active",
         \A s \in Foreign : shopRow'[s] = "none"
  PROVE  SyncInv'
<1>1. /\ sync' \in [Syncs -> SyncRecord]
      /\ \A x \in Syncs : sync'[x] = IF x = c THEN r ELSE sync[x]
  BY DEF SyncTo, SyncInv, SyncTypeOK
<1>2. ASSUME NEW x \in Syncs
      PROVE  SyncIsSound(sync'[x], listing', shopRow')
  <2>1. CASE x = c
    BY <1>1, <2>1
  <2>2. CASE x # c
    BY <1>1, <2>2, ASync, StillCovered
  <2>. QED  BY <2>1, <2>2
<1>3. SyncTypeOK'
  BY <1>1 DEF SyncInv, SyncTypeOK
<1>. QED  BY <1>2, <1>3 DEF SyncInv

(* Only the request itself.                                                *)
LEMMA SyncAlone ==
  ASSUME SyncInv, NEW c \in Syncs, NEW r \in SyncRecord, SyncTo(c, r),
         SyncIsSound(r, listing, shopRow), UNCHANGED <<listing, shopRow, edited>>
  PROVE  SyncInv'
BY OneSyncMoves DEF SyncInv, SyncTypeOK

(* Pages follow one another without a gap.                                 *)
LEMMA PagesMeet ==
  ASSUME NEW k \in Nat \ {0}, NEW n \in Nat \ {0}
  PROVE  /\ k * n \in Nat /\ k * (n - 1) \in Nat
         /\ k * (n - 1) < k * n /\ k * n >= 1
<1>1. k * n = k * (n - 1) + k
  OBVIOUS
<1>2. k * (n - 1) \in Nat
  OBVIOUS
<1>. QED  BY <1>1, <1>2

(* With the page stored, the loop goes on or has covered the list.         *)
LEMMA NextPageIsSound ==
  ASSUME SyncInv, NEW r \in SyncRecord, NEW rows,
         1 <= r.page, r.page <= r.max,
         r.steady => Covers(r, r.size * r.page, listing, rows),
         r.steady /\ r.last => Len(listing) <= r.size * r.page
  PROVE  NextPage(r) \in SyncRecord /\ SyncIsSound(NextPage(r), listing, rows)
<1>. DEFINE done == [r EXCEPT !.items = {}, !.known = {}, !.last = FALSE,
                              !.pc = "answered", !.ok = TRUE, !.page = 1]
            n == r.page + 1
            more == [r EXCEPT !.items = {}, !.known = {}, !.last = FALSE,
                              !.pc = "fetch", !.page = n]
<1>0. /\ r.size \in Nat \ {0} /\ r.max \in Nat \ {0} /\ r.page \in Nat \ {0}
      /\ Len(listing) \in Nat
  BY SizesArePositive, AListing DEF SyncInv, SyncTypeOK
<1>1. CASE (r.last \/ r.page = r.max) /\ r.steady
  <2>1. NextPage(r) = done
    BY <1>1 DEF NextPage
  <2>2. /\ done \in SyncRecord /\ done.pc = "answered" /\ done.items = {}
        /\ done.size = r.size /\ done.max = r.max /\ done.off = r.off
    BY DEF SyncRecord
  <2>. HIDE DEF done
  <2>3. Len(listing) <= r.max * r.size => Len(listing) <= r.size * r.page
    BY <1>0, <1>1
  <2>4. Len(listing) <= r.max * r.size => Covers(done, Len(listing), listing, rows)
    <3>. DEFINE k == r.size * r.page
    <3>1. k \in Nat
      BY <1>0, PagesMeet
    <3>2. Covers(r, k, listing, rows)
      BY <1>1
    <3>3. Len(listing) <= r.max * r.size => Len(listing) <= k
      BY <2>3
    <3>. HIDE DEF k
    <3>. QED  BY <1>0, <2>2, <3>1, <3>2, <3>3 DEF Covers
  <2>. QED  BY <2>1, <2>2, <2>4 DEF SyncIsSound
<1>2. CASE (r.last \/ r.page = r.max) /\ ~r.steady
  <2>1. NextPage(r) = Idle
    BY <1>2 DEF NextPage
  <2>. QED  BY <2>1, IdleIsSound
<1>3. CASE ~(r.last \/ r.page = r.max)
  <2>1. NextPage(r) = more
    BY <1>3 DEF NextPage
  <2>2. /\ more \in SyncRecord /\ more.pc = "fetch" /\ more.items = {}
        /\ more.size = r.size /\ more.max = r.max /\ more.off = r.off
        /\ more.page = n /\ more.steady = r.steady
    <3>1. n \in Nat
      BY <1>0
    <3>. HIDE DEF n
    <3>. QED  BY <3>1 DEF SyncRecord
  <2>. HIDE DEF more
  <2>3. 1 <= more.page /\ more.page <= more.max /\ more.page - 1 = r.page
    BY <1>0, <1>3, <2>2
  <2>4. r.steady => Covers(more, more.size * (more.page - 1), listing, rows)
    BY <2>2, <2>3 DEF Covers
  <2>. QED  BY <2>1, <2>2, <2>3, <2>4 DEF SyncIsSound
<1>. QED  BY <1>1, <1>2, <1>3

LEMMA SyncBegins ==
  ASSUME SyncInv, NEW c \in Syncs, NEW size \in PageSizes, NEW max \in PageLimits,
         BeginSync(c, size, max)
  PROVE  SyncInv'
<1>. DEFINE r == NewSync("fetch", size, max)
<1>1. /\ r \in SyncRecord /\ r.pc = "fetch" /\ r.page = 1 /\ r.items = {} /\ r.size = size
      /\ r.max = max
  BY ASyncBegins
<1>2. SyncTo(c, r)
  BY DEF BeginSync
<1>. HIDE DEF r
<1>3. size \in Nat \ {0} /\ max \in Nat \ {0}
  BY SyncAssumption
<1>4. size * (1 - 1) = 0 /\ 1 <= max
  BY <1>3
<1>5. Covers(r, size * (1 - 1), listing, shopRow)
  BY <1>4 DEF Covers
<1>6. SyncIsSound(r, listing, shopRow)
  BY <1>1, <1>4, <1>5 DEF SyncIsSound
<1>. QED  BY <1>1, <1>2, <1>6, SyncAlone DEF BeginSync

(* The page that is fetched begins where the last one ended.               *)
LEMMA PageFetched ==
  ASSUME SyncInv, NEW c \in Syncs, FetchPage(c)
  PROVE  SyncInv'
<1>. DEFINE r == sync[c]
            items == PageOf(r.size, r.page)
            new == items \ Foreign
            last == items = {} \/ r.page * r.size >= Len(listing)
            q == [r EXCEPT !.items = new, !.last = last]
            s == [q EXCEPT !.pc = "read"]
<1>1. /\ r \in SyncRecord /\ SyncIsSound(r, listing, shopRow) /\ r.pc = "fetch"
      /\ Len(listing) \in Nat /\ \A i \in 1..Len(listing) : listing[i] \in Stores
  BY ASync DEF FetchPage
<1>2. SyncTo(c, IF q.items = {} THEN NextPage(q) ELSE s)
  BY DEF FetchPage
<1>3. items \subseteq Stores
  BY <1>1 DEF PageOf
<1>4. /\ r.size \in Nat \ {0} /\ r.page \in Nat \ {0} /\ 1 <= r.page /\ r.page <= r.max
      /\ r.max \in Nat
  BY <1>1, SizesArePositive DEF SyncIsSound
<1>. DEFINE low == r.size * (r.page - 1)
            high == r.size * r.page
<1>5. low \in Nat /\ high \in Nat /\ low < high /\ high >= 1 /\ r.page * r.size = high
  BY <1>4, PagesMeet
<1>6. \A i \in 1..Len(listing) : low < i /\ i <= high => listing[i] \in items
  BY DEF PageOf
<1>7. r.steady => Covers(r, low, listing, shopRow)
  BY <1>1 DEF SyncIsSound
<1>8. last => Len(listing) <= high
  <2>1. CASE items = {}
    BY <1>1, <1>5, <1>6, <2>1
  <2>2. CASE r.page * r.size >= Len(listing)
    BY <1>5, <2>2
  <2>. QED  BY <2>1, <2>2
<1>9. last \in BOOLEAN
  OBVIOUS
<1>10. new \subseteq Stores /\ new \cap Foreign = {} /\ items \subseteq Foreign \union new
  BY <1>3
<1>11. SyncTo(c, IF q.items = {} THEN NextPage(q) ELSE s) /\ s = [q EXCEPT !.pc = "read"]
       /\ q = [r EXCEPT !.items = new, !.last = last]
  BY <1>2
<1>. HIDE DEF items, new, last, r
<1>12. /\ q \in SyncRecord /\ q.items = new /\ q.last = last /\ q.page = r.page /\ q.size = r.size
       /\ q.max = r.max /\ q.steady = r.steady /\ q.off = r.off /\ q.pc = "fetch"
  BY <1>1, <1>9, <1>10 DEF SyncRecord
<1>. HIDE DEF q
<1>13. /\ s \in SyncRecord /\ s.items = new /\ s.last = last /\ s.page = r.page /\ s.size = r.size
       /\ s.max = r.max /\ s.steady = r.steady /\ s.off = r.off /\ s.pc = "read"
  BY <1>12 DEF SyncRecord
<1>. HIDE DEF s
<1>14. CASE q.items = {}
  <2>1. r.steady => Covers(q, high, listing, shopRow)
    <3>. HIDE DEF low, high
    <3>. QED  BY <1>5, <1>6, <1>7, <1>10, <1>12, <1>14 DEF Covers
  <2>2. NextPage(q) \in SyncRecord /\ SyncIsSound(NextPage(q), listing, shopRow)
    BY <1>4, <1>8, <1>12, <2>1, NextPageIsSound
  <2>. QED  BY <1>2, <1>14, <2>2, SyncAlone DEF FetchPage
<1>15. CASE q.items # {}
  <2>1. r.steady => Covers(s, low, listing, shopRow)
    BY <1>7, <1>13 DEF Covers
  <2>2. \A i \in 1..Len(listing) : low < i /\ i <= high => listing[i] \in Foreign \union new
    BY <1>6, <1>10
  <2>3. SyncIsSound(s, listing, shopRow)
    BY <1>4, <1>8, <1>10, <1>13, <2>1, <2>2 DEF SyncIsSound
  <2>. QED  BY <1>2, <1>13, <1>15, <2>3, SyncAlone DEF FetchPage
<1>. QED  BY <1>14, <1>15

LEMMA RowsRead ==
  ASSUME SyncInv, NEW c \in Syncs, ReadRows(c) \/ FailSync(c)
  PROVE  SyncInv'
<1>1. CASE ReadRows(c)
  <2>. DEFINE r == sync[c]
              found == {s \in r.items : shopRow[s] # "none"}
              q == [r EXCEPT !.pc = "save", !.known = found]
  <2>1. r \in SyncRecord /\ SyncIsSound(r, listing, shopRow) /\ r.pc = "read" /\ SyncTo(c, q)
    BY <1>1, ASync DEF ReadRows
  <2>2. found \subseteq Stores
    BY <2>1 DEF SyncRecord
  <2>. HIDE DEF r, found
  <2>3. /\ q \in SyncRecord /\ q.items = r.items /\ q.last = r.last /\ q.page = r.page
        /\ q.size = r.size /\ q.max = r.max /\ q.steady = r.steady /\ q.off = r.off
        /\ q.pc = "save"
    BY <2>1, <2>2 DEF SyncRecord
  <2>. HIDE DEF q
  <2>4. SyncIsSound(q, listing, shopRow)
    BY <2>1, <2>3 DEF SyncIsSound, Covers
  <2>. QED  BY <1>1, <2>1, <2>3, <2>4, SyncAlone DEF ReadRows
<1>2. CASE FailSync(c)
  BY <1>2, IdleIsSound, SyncAlone DEF FailSync
<1>. QED  BY <1>1, <1>2

LEMMA PageSaved ==
  ASSUME SyncInv, NEW c \in Syncs, SavePage(c)
  PROVE  SyncInv'
<1>. DEFINE r == sync[c]
<1>1. /\ r \in SyncRecord /\ SyncIsSound(r, listing, shopRow) /\ r.pc = "save"
      /\ Len(listing) \in Nat /\ \A i \in 1..Len(listing) : listing[i] \in Stores
      /\ SyncTo(c, NextPage(r)) /\ UNCHANGED <<listing, edited>>
  BY ASync DEF SavePage
<1>2. /\ shopRow' = [s \in ShopIds |-> IF s \in r.items THEN "active" ELSE shopRow[s]]
      /\ shopRow \in [ShopIds -> RowStates]
  BY DEF SavePage, SyncInv, SyncTypeOK
<1>. HIDE DEF r
<1>3. shopRow' \in [ShopIds -> RowStates]
  BY <1>2 DEF RowStates
<1>4. Stores \subseteq ShopIds /\ Foreign \subseteq Stores
  BY SyncAssumption DEF ShopIds
<1>5. /\ \A s \in ShopIds : shopRow[s] # "none" => shopRow'[s] # "none"
      /\ \A s \in Stores : shopRow[s] = "active" => shopRow'[s] = "active"
      /\ \A s \in Stores : s \in r.items => shopRow'[s] = "active"
  BY <1>2, <1>4
<1>6. \A s \in Foreign : shopRow'[s] = "none"
  BY <1>1, <1>2, <1>4 DEF SyncIsSound, SyncInv
<1>7. /\ r.size \in Nat \ {0} /\ r.page \in Nat \ {0} /\ 1 <= r.page /\ r.page <= r.max
  BY <1>1, SizesArePositive DEF SyncIsSound
<1>. DEFINE low == r.size * (r.page - 1)
            high == r.size * r.page
<1>8. low \in Nat /\ high \in Nat /\ low < high
  BY <1>7, PagesMeet
<1>9. r.steady => Covers(r, high, listing, shopRow')
  <2>. SUFFICES ASSUME r.steady, NEW i \in 1..Len(listing), i <= high,
                       listing[i] \notin Foreign, listing[i] \notin r.off
                PROVE  shopRow'[listing[i]] = "active"
    BY DEF Covers
  <2>1. CASE i <= low
    <3>1. shopRow[listing[i]] = "active"
      BY <1>1, <2>1 DEF SyncIsSound, Covers
    <3>. QED  BY <1>1, <1>5, <3>1
  <2>2. CASE low < i
    <3>1. listing[i] \in r.items
      BY <1>1, <2>2 DEF SyncIsSound
    <3>. QED  BY <1>1, <1>5, <3>1
  <2>. HIDE DEF low, high
  <2>. QED  BY <1>8, <2>1, <2>2
<1>10. r.steady /\ r.last => Len(listing) <= r.size * r.page
  BY <1>1 DEF SyncIsSound
<1>11. NextPage(r) \in SyncRecord /\ SyncIsSound(NextPage(r), listing, shopRow')
  BY <1>1, <1>7, <1>9, <1>10, NextPageIsSound
<1>. QED  BY <1>1, <1>3, <1>5, <1>6, <1>11, OneSyncMoves

-----------------------------------------------------------------------------
LEMMA ListingChanged ==
  ASSUME SyncInv, NEW l \in Listings, ChangeListing(l)
  PROVE  SyncInv'
<1>1. ASSUME NEW x \in Syncs
      PROVE  sync'[x] \in SyncRecord /\ SyncIsSound(sync'[x], listing', shopRow')
  <2>1. CASE sync[x].pc = "answered"
    <3>1. sync'[x] = Idle
      BY <2>1 DEF ChangeListing
    <3>. QED  BY <3>1, IdleIsSound
  <2>2. CASE sync[x].pc # "answered"
    <3>. DEFINE r == sync[x]
                q == [r EXCEPT !.steady = FALSE]
    <3>1. r \in SyncRecord /\ SyncIsSound(r, listing, shopRow) /\ sync'[x] = q /\ r.pc # "answered"
      BY <2>2, ASync DEF ChangeListing
    <3>. HIDE DEF r
    <3>2. /\ q \in SyncRecord /\ q.items = r.items /\ q.page = r.page
          /\ q.max = r.max /\ ~q.steady /\ q.pc = r.pc
      BY <3>1 DEF SyncRecord
    <3>. HIDE DEF q
    <3>. QED  BY <3>1, <3>2 DEF SyncIsSound
  <2>. QED  BY <2>1, <2>2
<1>2. /\ listing' = l /\ UNCHANGED <<shopRow, edited>> /\ sync' = [x \in Syncs |-> sync'[x]]
  BY DEF ChangeListing
<1>3. SyncTypeOK'
  BY <1>1, <1>2 DEF SyncInv, SyncTypeOK
<1>. QED  BY <1>1, <1>2, <1>3 DEF SyncInv

LEMMA ShopAdministered ==
  ASSUME SyncInv, NEW s \in ShopIds, CreateShop(s) \/ UpdateShop(s)
  PROVE  SyncInv'
<1>1. CASE CreateShop(s)
  <2>1. /\ shopRow' = [shopRow EXCEPT ![s] = "active"] /\ s \in OwnShops /\ shopRow[s] = "none"
        /\ UNCHANGED <<listing, edited, sync>>
    BY <1>1 DEF CreateShop
  <2>2. /\ shopRow' \in [ShopIds -> RowStates]
        /\ \A x \in ShopIds : shopRow'[x] = IF x = s THEN "active" ELSE shopRow[x]
    BY <2>1 DEF SyncInv, SyncTypeOK, RowStates
  <2>3. s \notin Stores /\ Stores \subseteq ShopIds /\ Foreign \subseteq Stores
    BY <2>1, SyncAssumption DEF ShopIds
  <2>4. \A x \in Stores : shopRow'[x] = shopRow[x]
    BY <2>2, <2>3
  <2>5. \A x \in Syncs : SyncIsSound(sync'[x], listing', shopRow')
    BY <2>1, <2>4, ASync, StillCovered
  <2>6. SyncTypeOK'
    BY <2>1, <2>2 DEF SyncInv, SyncTypeOK
  <2>7. \A x \in Foreign : shopRow'[x] = "none"
    BY <2>3, <2>4 DEF SyncInv
  <2>. QED  BY <2>5, <2>6, <2>7 DEF SyncInv
<1>2. CASE UpdateShop(s)
  BY <1>2 DEF UpdateShop, SyncInv, SyncTypeOK
<1>. QED  BY <1>1, <1>2

(* A shop that is deactivated is noted by every synchronisation.           *)
LEMMA ShopDeactivated ==
  ASSUME SyncInv, NEW s \in ShopIds, DeactivateShop(s)
  PROVE  SyncInv'
<1>1. /\ shopRow' = [shopRow EXCEPT ![s] = "inactive"] /\ shopRow[s] # "none"
      /\ \A x \in Syncs : sync'[x] = [sync[x] EXCEPT !.off = @ \union ({s} \intersect Stores)]
      /\ sync' = [x \in Syncs |-> sync'[x]] /\ UNCHANGED <<listing, edited>>
  BY DEF DeactivateShop
<1>2. /\ shopRow' \in [ShopIds -> RowStates]
      /\ \A x \in ShopIds : shopRow'[x] = IF x = s THEN "inactive" ELSE shopRow[x]
  BY <1>1 DEF SyncInv, SyncTypeOK, RowStates
<1>3. Stores \subseteq ShopIds /\ Foreign \subseteq Stores
  BY SyncAssumption DEF ShopIds
<1>4. ASSUME NEW x \in Syncs
      PROVE  sync'[x] \in SyncRecord /\ SyncIsSound(sync'[x], listing', shopRow')
  <2>. DEFINE r == sync[x]
              off == r.off \union ({s} \intersect Stores)
              q == [r EXCEPT !.off = off]
  <2>1. /\ r \in SyncRecord /\ SyncIsSound(r, listing, shopRow) /\ sync'[x] = q
        /\ \A i \in 1..Len(listing) : listing[i] \in Stores
    BY <1>1, ASync
  <2>. HIDE DEF r
  <2>2. off \subseteq Stores /\ r.off \subseteq off /\ (s \in Stores => s \in off)
    BY <2>1 DEF SyncRecord
  <2>. HIDE DEF off
  <2>3. /\ q \in SyncRecord /\ q.items = r.items /\ q.last = r.last /\ q.page = r.page
        /\ q.size = r.size /\ q.max = r.max /\ q.steady = r.steady /\ q.off = off
        /\ q.pc = r.pc /\ q.ok = r.ok
    BY <2>1, <2>2 DEF SyncRecord
  <2>. HIDE DEF q
  <2>4. ASSUME NEW n, Covers(r, n, listing, shopRow)
        PROVE  Covers(q, n, listing, shopRow')
    BY <1>2, <1>3, <2>1, <2>2, <2>3, <2>4 DEF Covers
  <2>. QED  BY <1>1, <2>1, <2>3, <2>4 DEF SyncIsSound
<1>5. SyncTypeOK'
  BY <1>1, <1>2, <1>4 DEF SyncInv, SyncTypeOK
<1>6. \A x \in Foreign : shopRow'[x] = "none"
  BY <1>1, <1>2, <1>3 DEF SyncInv
<1>. QED  BY <1>4, <1>5, <1>6 DEF SyncInv

-----------------------------------------------------------------------------
LEMMA SyncMoves == SyncInv /\ [SyncNext]_syncVars => SyncInv' /\ EditsSurvive
<1>. SUFFICES ASSUME SyncInv, [SyncNext]_syncVars PROVE SyncInv' /\ EditsSurvive
  OBVIOUS
<1>1. ASSUME NEW c \in Syncs, NEW size \in PageSizes, NEW max \in PageLimits,
             BeginSync(c, size, max)
      PROVE  SyncInv' /\ edited \subseteq edited'
  BY <1>1, SyncBegins DEF BeginSync
<1>2. ASSUME NEW c \in Syncs, FetchPage(c) \/ ReadRows(c) \/ SavePage(c) \/ FailSync(c)
      PROVE  SyncInv' /\ edited \subseteq edited'
  BY <1>2, PageFetched, RowsRead, PageSaved DEF FetchPage, ReadRows, SavePage, FailSync
<1>3. ASSUME NEW l \in Listings, ChangeListing(l)
      PROVE  SyncInv' /\ edited \subseteq edited'
  BY <1>3, ListingChanged DEF ChangeListing
<1>4. ASSUME NEW s \in ShopIds, CreateShop(s) \/ UpdateShop(s) \/ DeactivateShop(s)
      PROVE  SyncInv' /\ edited \subseteq edited'
  BY <1>4, ShopAdministered, ShopDeactivated DEF CreateShop, UpdateShop, DeactivateShop
<1>5. ASSUME UNCHANGED syncVars
      PROVE  SyncInv' /\ edited \subseteq edited'
  BY <1>5 DEF syncVars, SyncInv, SyncTypeOK
<1>6. SyncInv' /\ edited \subseteq edited'
  BY <1>1, <1>2, <1>3, <1>4, <1>5 DEF SyncNext, syncVars
<1>7. SyncInv' => \A s \in Foreign : shopRow'[s] = "none"
  BY DEF SyncInv
<1>8. EditsSurvive
  BY <1>6, <1>7 DEF EditsSurvive
<1>. QED  BY <1>6, <1>8

(* A synchronisation that succeeds has brought in every shop of a list     *)
(* that stood still and fits into the pages asked for, whatever else runs, *)
(* and none ever undoes what an administrator filled in                    *)
(* (shop-sync.service.ts:36, shop.repository.ts:54).                       *)
THEOREM SyncsAreFaithful == SyncSpec => SyncIsFaithful
<1>1. SyncInv' => SyncCoversProvider'
  <2>. SUFFICES ASSUME SyncInv' PROVE SyncCoversProvider'
    OBVIOUS
  <2>1. ASSUME NEW c \in Syncs, SyncIsSound(sync'[c], listing', shopRow'),
               sync'[c].pc = "answered", sync'[c].ok, sync'[c].steady,
               Len(listing') <= sync'[c].max * sync'[c].size, NEW i \in 1..Len(listing')
        PROVE  listing'[i] \in Foreign \union sync'[c].off \/ shopRow'[listing'[i]] = "active"
    <3>1. Len(listing') \in Nat
      BY AListing DEF SyncInv, SyncTypeOK
    <3>2. Covers(sync'[c], Len(listing'), listing', shopRow')
      BY <2>1 DEF SyncIsSound
    <3>. QED  BY <3>1, <3>2 DEF Covers
  <2>. QED  BY <2>1 DEF SyncInv, SyncCoversProvider
<1>. QED  BY <1>1, SyncStart, SyncMoves, PTL DEF SyncSpec, SyncIsFaithful

(* Rows, pages and requests keep their types; only shops with a row are    *)
(* filled in.                                                              *)
THEOREM SyncsTyped == SyncSpec => []SyncTypeOK
<1>1. SyncInv => SyncTypeOK
  BY DEF SyncInv
<1>. QED  BY <1>1, SyncStart, SyncMoves, PTL DEF SyncSpec

-----------------------------------------------------------------------------
(***************************************************************************)
(* ImageStore.  ImageInv says which files of a request are there           *)
(* (UploadIsSound) and which keys a run of the clean-up holds: none that   *)
(* is in use or may still come into use.                                   *)
(***************************************************************************)

(* The hour from which the job may list image i.                           *)
Due(i) == CleanupHour(UtcDate(uploadedAt[i]))

(* The files of a request are its own; what it has put and is no longer    *)
(* there, the job has deleted.                                             *)
UploadIsSound(c) ==
  /\ upload[c].left \subseteq upload[c].files
  /\ \A i \in upload[c].files : uploadedAt[i] # Never
  /\ \A x \in Uploads \ {c} : upload[x].files \cap upload[c].files = {}
  /\ upload[c].pc = "put" =>
       /\ upload[c].left # {}
       /\ \A i \in upload[c].files \ upload[c].left : i \notin store => Due(i) <= now
  /\ upload[c].pc = "refused" => upload[c].files \cap store = {}

(* The job works on images that are due, and deletes those that nobody had *)
(* requested with when they were.                                          *)
CleanupIsSound(r) ==
  \A i \in cleanup[r].keys :
    /\ uploadedAt[i] # Never /\ Due(i) <= now
    /\ cleanup[r].pc = "delete" => requestedAt[i] = Never \/ Due(i) <= requestedAt[i]

(* What is in the bucket or was given to a client was uploaded; what a     *)
(* client was given and is gone, the job has deleted.                      *)
StoreIsSound ==
  /\ \A i \in store \union given : uploadedAt[i] # Never
  /\ \A i \in given \ store : Due(i) <= now
  /\ \A i \in Images : requestedAt[i] # Never => i \in given
  /\ \A i \in Images : requestedAt[i] # Never /\ requestedAt[i] < Due(i) => i \in store

ImageShape ==
  /\ now \in Times
  /\ store \in SUBSET Images /\ given \in SUBSET Images
  /\ uploadedAt \in [Images -> Times \union {Never}]
  /\ requestedAt \in [Images -> Times \union {Never}]
  /\ shownAt \in [Images -> Times \union {Never}]
  /\ upload \in [Uploads -> [pc : {"idle", "put", "refused"},
                             files : SUBSET Images, left : SUBSET Images]]
  /\ cleanup \in [Cleanups -> [pc : {"idle", "find", "delete"}, keys : SUBSET Images]]

ImageInv ==
  /\ ImageShape /\ StoreIsSound
  /\ \A c \in Uploads : UploadIsSound(c)
  /\ \A r \in Cleanups : CleanupIsSound(r)

-----------------------------------------------------------------------------
(* The hours of UTC and of Seoul: the job that lists date d begins at      *)
(* CleanupHour(d), more than seventeen hours after the last moment of d.   *)
LEMMA ListedHour ==
  ASSUME NEW t \in Int, (t + 9) % 24 = 2
  PROVE  CleanupHour(TargetDate(t)) = t
BY DEF CleanupHour, TargetDate

LEMMA DueIsLate ==
  ASSUME ImageShape, NEW i \in Images, uploadedAt[i] # Never
  PROVE  Due(i) \in Int /\ Due(i) > uploadedAt[i] + 17
<1>. DEFINE t == uploadedAt[i]
<1>1. t \in Int
  BY DEF ImageShape, Times, Never
<1>. HIDE DEF t
<1>2. CleanupHour(UtcDate(t)) \in Int /\ CleanupHour(UtcDate(t)) > t + 17
  BY <1>1 DEF CleanupHour, UtcDate
<1>. QED  BY <1>2 DEF t, Due

LEMMA BucketStart == ImageInit => ImageInv
<1>. SUFFICES ASSUME ImageInit PROVE ImageInv
  OBVIOUS
<1>1. 0 \in Times
  BY ImageAssumption DEF Times
<1>2. ImageShape
  BY <1>1 DEF ImageInit, ImageShape
<1>3. StoreIsSound
  BY DEF ImageInit, StoreIsSound
<1>4. \A c \in Uploads : UploadIsSound(c)
  BY DEF ImageInit, UploadIsSound
<1>5. \A r \in Cleanups : CleanupIsSound(r)
  BY DEF ImageInit, CleanupIsSound
<1>. QED  BY <1>2, <1>3, <1>4, <1>5 DEF ImageInv

-----------------------------------------------------------------------------
(* Nothing but time and requests' and runs' own records changes for an     *)
(* image that was uploaded before.                                         *)
LEMMA DueStays ==
  ASSUME NEW i, uploadedAt'[i] = uploadedAt[i]
  PROVE  Due(i)' = Due(i)
BY DEF Due

LEMMA UploadBegins ==
  ASSUME ImageInv, NEW c \in Uploads, NEW files \in SUBSET Images, NEW bad \in SUBSET files,
         BeginUpload(c, files, bad)
  PROVE  ImageInv'
<1>1. /\ uploadedAt' \in [Images -> Times \union {Never}]
      /\ \A i \in Images : uploadedAt'[i] = IF i \in files THEN now ELSE uploadedAt[i]
      /\ \A i \in files : uploadedAt[i] = Never
      /\ now # Never /\ files # {}
      /\ UNCHANGED <<now, store, given, requestedAt, shownAt, cleanup>>
  BY DEF BeginUpload, ImageInv, ImageShape, Times, Never
<1>2. PICK q \in [pc : {"put", "refused"}, files : {files}, left : SUBSET files] :
        upload' = [upload EXCEPT ![c] = q] /\ (q.pc = "put" => q.left = files)
  <2>1. CASE bad = {}
    <3>. DEFINE q == [pc |-> "put", files |-> files, left |-> files]
    <3>1. q \in [pc : {"put", "refused"}, files : {files}, left : SUBSET files] /\ q.left = files
      OBVIOUS
    <3>. QED  BY <2>1, <3>1 DEF BeginUpload, UploadTo
  <2>2. CASE bad # {}
    <3>. DEFINE q == [pc |-> "refused", files |-> files, left |-> {}]
    <3>1. q \in [pc : {"put", "refused"}, files : {files}, left : SUBSET files] /\ q.pc # "put"
      OBVIOUS
    <3>. QED  BY <2>2, <3>1 DEF BeginUpload, UploadTo
  <2>. QED  BY <2>1, <2>2
<1>3. /\ upload' \in [Uploads -> [pc : {"idle", "put", "refused"},
                                  files : SUBSET Images, left : SUBSET Images]]
      /\ \A x \in Uploads : upload'[x] = IF x = c THEN q ELSE upload[x]
  BY <1>2 DEF ImageInv, ImageShape
<1>4. \A i \in Images : uploadedAt[i] # Never => uploadedAt'[i] = uploadedAt[i] /\ Due(i)' = Due(i)
  BY <1>1, DueStays
<1>5. ImageShape'
  BY <1>1, <1>3 DEF ImageInv, ImageShape
<1>6. StoreIsSound'
  <2>1. StoreIsSound /\ ImageShape
    BY DEF ImageInv
  <2>2. \A i \in Images : requestedAt[i] # Never => uploadedAt[i] # Never
    BY <2>1 DEF StoreIsSound
  <2>. QED  BY <1>1, <1>4, <2>1, <2>2 DEF StoreIsSound, ImageShape
<1>7. ASSUME NEW x \in Uploads
      PROVE  UploadIsSound(x)'
  <2>1. CASE x = c
    <3>1. upload'[x] = q
      BY <1>3, <2>1
    <3>2. \A y \in Uploads \ {x} : upload'[y].files \cap q.files = {}
      BY <1>1, <1>2, <1>3, <2>1 DEF ImageInv, UploadIsSound
    <3>3. q.files \cap store = {}
      BY <1>1, <1>2 DEF ImageInv, StoreIsSound
    <3>. QED  BY <1>1, <1>2, <3>1, <3>2, <3>3 DEF UploadIsSound
  <2>2. CASE x # c
    <3>1. UploadIsSound(x) /\ upload'[x] = upload[x] /\ upload[x].files \subseteq Images
      BY <1>3, <2>2 DEF ImageInv, ImageShape
    <3>2. \A i \in upload[x].files : i \notin files
      BY <1>1, <3>1 DEF UploadIsSound
    <3>3. \A y \in Uploads \ {x} : upload'[y].files \cap upload[x].files = {}
      BY <1>2, <1>3, <3>1, <3>2 DEF UploadIsSound
    <3>. QED  BY <1>1, <1>4, <3>1, <3>3 DEF UploadIsSound
  <2>. QED  BY <2>1, <2>2
<1>8. ASSUME NEW r \in Cleanups
      PROVE  CleanupIsSound(r)'
  <2>1. CleanupIsSound(r) /\ cleanup[r].keys \subseteq Images /\ cleanup' = cleanup
    BY <1>1 DEF ImageInv, ImageShape
  <2>. QED  BY <1>1, <1>4, <2>1 DEF CleanupIsSound
<1>. QED  BY <1>5, <1>6, <1>7, <1>8 DEF ImageInv

(* A file that is put is in no other request.                              *)
LEMMA ImagePut ==
  ASSUME ImageInv, NEW c \in Uploads, NEW i \in Images, PutImage(c, i)
  PROVE  ImageInv'
<1>. DEFINE u == upload[c]
<1>1. /\ u \in [pc : {"idle", "put", "refused"}, files : SUBSET Images, left : SUBSET Images]
      /\ u.pc = "put" /\ i \in u.left /\ u.left \subseteq u.files
      /\ store' = store \union {i} /\ UploadIsSound(c)
      /\ UNCHANGED <<now, uploadedAt, requestedAt, shownAt, cleanup>>
  BY DEF PutImage, ImageInv, ImageShape, UploadIsSound
<1>2. \A j \in Images : Due(j)' = Due(j)
  BY <1>1, DueStays
<1>3. PICK q \in [pc : {"idle", "put"}, files : SUBSET u.files, left : SUBSET u.left] :
        /\ upload' = [upload EXCEPT ![c] = q]
        /\ q.left \subseteq q.files
        /\ q.pc = "put" => q.files = u.files /\ q.left = u.left \ {i} /\ q.left # {}
  <2>1. CASE u.left = {i}
    <3>. DEFINE q == [pc |-> "idle", files |-> {}, left |-> {}]
    <3>1. /\ q \in [pc : {"idle", "put"}, files : SUBSET u.files, left : SUBSET u.left]
          /\ q.pc # "put" /\ q.left \subseteq q.files
      OBVIOUS
    <3>. QED  BY <2>1, <3>1 DEF PutImage, UploadTo
  <2>2. CASE u.left # {i}
    <3>. DEFINE q == [pc |-> "put", files |-> u.files, left |-> u.left \ {i}]
    <3>1. upload' = [upload EXCEPT ![c] = q]
      BY <2>2 DEF PutImage, UploadTo
    <3>. HIDE DEF u
    <3>2. /\ q \in [pc : {"idle", "put"}, files : SUBSET u.files, left : SUBSET u.left]
          /\ q.files = u.files /\ q.left = u.left \ {i} /\ q.left # {}
      BY <1>1, <2>2
    <3>. QED  BY <1>1, <3>1, <3>2
  <2>. QED  BY <2>1, <2>2
<1>4. given' = given \/ (given' = given \union u.files /\ u.left = {i})
  BY DEF PutImage
<1>. HIDE DEF u
<1>5. /\ upload' \in [Uploads -> [pc : {"idle", "put", "refused"},
                                  files : SUBSET Images, left : SUBSET Images]]
      /\ \A x \in Uploads : upload'[x] = IF x = c THEN q ELSE upload[x]
  BY <1>1, <1>3 DEF ImageInv, ImageShape
<1>6. u.files \subseteq Images /\ \A j \in u.files : uploadedAt[j] # Never
  BY <1>1 DEF u, UploadIsSound
<1>7. ImageShape'
  BY <1>1, <1>4, <1>5, <1>6 DEF ImageInv, ImageShape
<1>8. StoreIsSound'
  <2>1. StoreIsSound
    BY DEF ImageInv
  <2>2. u.left = {i} => \A j \in u.files \ {i} : j \notin store => Due(j) <= now
    BY <1>1 DEF u, UploadIsSound
  <2>3. \A j \in given' \ store' : j \in Images /\ Due(j) <= now
    BY <1>1, <1>4, <1>6, <2>1, <2>2 DEF StoreIsSound, ImageInv, ImageShape
  <2>. QED  BY <1>1, <1>2, <1>4, <1>6, <2>1, <2>3 DEF StoreIsSound
<1>9. ASSUME NEW x \in Uploads
      PROVE  UploadIsSound(x)'
  <2>1. \A y \in Uploads : upload'[y].files \subseteq upload[y].files
    BY <1>3, <1>5 DEF u
  <2>2. UploadIsSound(x) /\ upload[x].files \subseteq Images
    BY DEF ImageInv, ImageShape
  <2>3. \A y \in Uploads \ {x} : upload'[y].files \cap upload'[x].files = {}
    BY <2>1, <2>2 DEF UploadIsSound
  <2>4. CASE x = c
    <3>1. upload'[x] = q
      BY <1>5, <2>4
    <3>2. q.pc = "put" => \A j \in q.files \ q.left : j \notin store' => Due(j)' <= now'
      BY <1>1, <1>2, <1>3, <2>4 DEF u, UploadIsSound
    <3>. QED  BY <1>1, <1>3, <1>6, <2>3, <3>1, <3>2 DEF UploadIsSound
  <2>5. CASE x # c
    <3>1. upload'[x] = upload[x]
      BY <1>5, <2>5
    <3>2. i \notin upload[x].files
      BY <1>1, <2>2, <2>5 DEF u, UploadIsSound
    <3>. QED  BY <1>1, <1>2, <2>2, <2>3, <3>1, <3>2 DEF UploadIsSound
  <2>. QED  BY <2>4, <2>5
<1>10. ASSUME NEW r \in Cleanups
       PROVE  CleanupIsSound(r)'
  BY <1>1, <1>2 DEF ImageInv, CleanupIsSound, ImageShape
<1>. QED  BY <1>7, <1>8, <1>9, <1>10 DEF ImageInv

LEMMA UploadFails ==
  ASSUME ImageInv, NEW c \in Uploads, FailUpload(c)
  PROVE  ImageInv'
<1>. DEFINE q == [pc |-> "idle", files |-> {}, left |-> {}]
<1>1. /\ upload' \in [Uploads -> [pc : {"idle", "put", "refused"},
                                  files : SUBSET Images, left : SUBSET Images]]
      /\ \A x \in Uploads : upload'[x] = IF x = c THEN q ELSE upload[x]
      /\ q.pc = "idle" /\ q.files = {} /\ q.left = {}
  BY DEF FailUpload, UploadTo, ImageInv, ImageShape
<1>. HIDE DEF q
<1>2. UNCHANGED <<now, store, given, uploadedAt, requestedAt, shownAt, cleanup>>
  BY DEF FailUpload
<1>3. ASSUME NEW x \in Uploads
      PROVE  UploadIsSound(x)'
  BY <1>1, <1>2 DEF ImageInv, UploadIsSound, Due
<1>4. ImageShape' /\ StoreIsSound'
  BY <1>1, <1>2 DEF ImageInv, ImageShape, StoreIsSound, Due
<1>5. \A r \in Cleanups : CleanupIsSound(r)'
  BY <1>2 DEF ImageInv, CleanupIsSound, Due
<1>. QED  BY <1>3, <1>4, <1>5 DEF ImageInv

(* A row may name an image whose object is gone, but then it is late.      *)
LEMMA ImageNamed ==
  ASSUME ImageInv, NEW i \in Images, RequestWith(i) \/ ShowWith(i)
  PROVE  ImageInv'
<1>1. /\ UNCHANGED <<now, store, given, uploadedAt, upload, cleanup>> /\ i \in given
      /\ requestedAt' = requestedAt \/ requestedAt' = [requestedAt EXCEPT ![i] = now]
      /\ shownAt' = shownAt \/ shownAt' = [shownAt EXCEPT ![i] = now]
  BY DEF RequestWith, ShowWith
<1>2. ImageShape'
  BY <1>1 DEF ImageInv, ImageShape
<1>3. /\ \A j \in Images : requestedAt'[j] = requestedAt[j] \/ (j = i /\ requestedAt'[j] = now)
      /\ \A j \in Images : j # i => requestedAt'[j] = requestedAt[j]
      /\ \A j \in Images : uploadedAt[j] # Never => Due(j) \in Int
      /\ now \in Int
  BY <1>1, DueIsLate DEF ImageInv, ImageShape, Times
<1>4. \A j \in Images : Due(j)' = Due(j)
  BY <1>1, DueStays
<1>5. StoreIsSound'
  <2>1. StoreIsSound /\ uploadedAt[i] # Never /\ given \subseteq Images
    BY <1>1 DEF ImageInv, ImageShape, StoreIsSound
  <2>2. \A j \in Images : requestedAt'[j] # Never => j \in given
    BY <1>1, <1>3, <2>1 DEF StoreIsSound
  <2>3. i \notin store => ~(now < Due(i))
    BY <1>1, <1>3, <2>1 DEF StoreIsSound
  <2>4. \A j \in Images : requestedAt'[j] # Never /\ requestedAt'[j] < Due(j) => j \in store
    BY <1>3, <2>1, <2>3 DEF StoreIsSound
  <2>. QED  BY <1>1, <1>4, <2>1, <2>2, <2>4 DEF StoreIsSound
<1>6. \A c \in Uploads : UploadIsSound(c)'
  BY <1>1 DEF ImageInv, UploadIsSound, Due
<1>7. ASSUME NEW r \in Cleanups
      PROVE  CleanupIsSound(r)'
  <2>1. CleanupIsSound(r) /\ cleanup[r].keys \subseteq Images
    BY DEF ImageInv, ImageShape
  <2>. QED  BY <1>1, <1>3, <1>4, <2>1 DEF CleanupIsSound
<1>. QED  BY <1>2, <1>5, <1>6, <1>7 DEF ImageInv

-----------------------------------------------------------------------------
(* A step of the job that moves one run to sound keys and deletes none.    *)
LEMMA OneCleanupMoves ==
  ASSUME ImageInv, NEW r \in Cleanups, NEW pc \in {"idle", "find", "delete"},
         NEW keys \in SUBSET Images, CleanupTo(r, pc, keys),
         \A i \in keys : /\ uploadedAt[i] # Never /\ Due(i) <= now
                         /\ pc = "delete" => requestedAt[i] = Never \/ Due(i) <= requestedAt[i],
         UNCHANGED <<now, store, given, uploadedAt, requestedAt, shownAt, upload>>
  PROVE  ImageInv'
<1>. DEFINE q == [pc |-> pc, keys |-> keys]
<1>1. /\ cleanup' \in [Cleanups -> [pc : {"idle", "find", "delete"}, keys : SUBSET Images]]
      /\ \A x \in Cleanups : cleanup'[x] = IF x = r THEN q ELSE cleanup[x]
      /\ q.pc = pc /\ q.keys = keys
  BY DEF CleanupTo, ImageInv, ImageShape
<1>. HIDE DEF q
<1>2. ASSUME NEW x \in Cleanups
      PROVE  CleanupIsSound(x)'
  <2>1. CASE x = r
    BY <1>1, <2>1 DEF CleanupIsSound, Due
  <2>2. CASE x # r
    BY <1>1, <2>2 DEF CleanupIsSound, Due, ImageInv
  <2>. QED  BY <2>1, <2>2
<1>3. ImageShape' /\ StoreIsSound'
  BY <1>1 DEF ImageInv, ImageShape, StoreIsSound, Due
<1>4. \A c \in Uploads : UploadIsSound(c)'
  BY DEF ImageInv, UploadIsSound, Due
<1>. QED  BY <1>2, <1>3, <1>4 DEF ImageInv

LEMMA KeysListed ==
  ASSUME ImageInv, NEW r \in Cleanups, ListKeys(r)
  PROVE  ImageInv'
<1>. DEFINE keys == {i \in store : UtcDate(uploadedAt[i]) = TargetDate(now)}
<1>1. CleanupTo(r, "find", keys) /\ (now + 9) % 24 = 2
  BY DEF ListKeys
<1>2. now \in Int /\ keys \subseteq Images /\ keys \subseteq store
  BY DEF ImageInv, ImageShape, Times
<1>3. ASSUME NEW i \in keys
      PROVE  uploadedAt[i] # Never /\ Due(i) <= now
  <2>1. CleanupHour(TargetDate(now)) = now
    BY <1>1, <1>2, ListedHour
  <2>2. Due(i) = now
    BY <2>1 DEF Due
  <2>. QED  BY <1>2, <2>2 DEF ImageInv, StoreIsSound
<1>. HIDE DEF keys
<1>. QED  BY <1>1, <1>2, <1>3, OneCleanupMoves DEF ListKeys

LEMMA UnusedFound ==
  ASSUME ImageInv, NEW r \in Cleanups, FindUnused(r) \/ EndCleanup(r)
  PROVE  ImageInv'
<1>. DEFINE keys == {i \in cleanup[r].keys : requestedAt[i] = Never}
<1>1. /\ CleanupIsSound(r) /\ keys \subseteq Images
      /\ \A i \in keys : i \in cleanup[r].keys /\ requestedAt[i] = Never
  BY DEF ImageInv, ImageShape
<1>2. CASE FindUnused(r)
  <2>1. CleanupTo(r, "delete", keys)
    BY <1>2 DEF FindUnused
  <2>. HIDE DEF keys
  <2>2. \A i \in keys : uploadedAt[i] # Never /\ Due(i) <= now
    BY <1>1 DEF CleanupIsSound
  <2>. QED  BY <1>1, <1>2, <2>1, <2>2, OneCleanupMoves DEF FindUnused
<1>3. CASE EndCleanup(r)
  BY <1>3, OneCleanupMoves DEF EndCleanup
<1>. QED  BY <1>2, <1>3

(* Deleting: what goes is due, and no row named it in time.                *)
LEMMA ChunkDeleted ==
  ASSUME ImageInv, NEW r \in Cleanups, DeleteChunk(r)
  PROVE  ImageInv' /\ FreshImagesStay
<1>1. PICK chunk \in SUBSET cleanup[r].keys, failed \in SUBSET Images :
        /\ CleanupTo(r, "delete", cleanup[r].keys \ chunk)
        /\ store' = store \ (chunk \ failed)
  <2>1. cleanup[r].keys \subseteq Images
    BY DEF ImageInv, ImageShape
  <2>. QED  BY <2>1 DEF DeleteChunk
<1>2. /\ UNCHANGED <<now, given, uploadedAt, requestedAt, shownAt, upload>>
      /\ cleanup[r].pc = "delete" /\ CleanupIsSound(r) /\ cleanup[r].keys \subseteq Images
      /\ now \in Int
  BY DEF DeleteChunk, ImageInv, ImageShape, Times
<1>3. ASSUME NEW i \in store \ store'
      PROVE  /\ i \in Images /\ uploadedAt[i] # Never /\ Due(i) <= now
             /\ requestedAt[i] = Never \/ Due(i) <= requestedAt[i]
  BY <1>1, <1>2 DEF CleanupIsSound
<1>4. \A j \in Images : Due(j)' = Due(j)
  BY <1>2, DueStays
<1>5. FreshImagesStay
  <2>. SUFFICES ASSUME NEW i \in store \ store' PROVE now - uploadedAt[i] > 17
    BY DEF FreshImagesStay
  <2>1. uploadedAt[i] \in Int /\ Due(i) \in Int /\ Due(i) > uploadedAt[i] + 17 /\ Due(i) <= now
    BY <1>3, DueIsLate DEF ImageInv, ImageShape, Times, Never
  <2>. QED  BY <1>2, <2>1
<1>. DEFINE q == [pc |-> "delete", keys |-> cleanup[r].keys \ chunk]
<1>6. /\ cleanup' \in [Cleanups -> [pc : {"idle", "find", "delete"}, keys : SUBSET Images]]
      /\ \A x \in Cleanups : cleanup'[x] = IF x = r THEN q ELSE cleanup[x]
      /\ q.pc = "delete" /\ q.keys \subseteq cleanup[r].keys
  BY <1>1, <1>2 DEF CleanupTo, ImageInv, ImageShape
<1>. HIDE DEF q
<1>7. ImageShape'
  BY <1>1, <1>2, <1>6 DEF ImageInv, ImageShape
<1>8. StoreIsSound'
  <2>1. StoreIsSound /\ store \subseteq Images /\ store' \subseteq store
    BY <1>1 DEF ImageInv, ImageShape
  <2>2. \A i \in given \ store' : i \in Images /\ Due(i) <= now
    BY <1>3, <2>1 DEF StoreIsSound, ImageInv, ImageShape
  <2>3. ASSUME NEW i \in Images, requestedAt[i] # Never, requestedAt[i] < Due(i)
        PROVE  i \in store'
    <3>1. i \in store /\ requestedAt[i] \in Int
      BY <2>1, <2>3 DEF StoreIsSound, ImageInv, ImageShape, Times
    <3>2. i \in given
      BY <2>1, <2>3 DEF StoreIsSound
    <3>3. Due(i) \in Int
      BY <2>1, <3>2, DueIsLate DEF StoreIsSound, ImageInv
    <3>. QED  BY <1>3, <2>3, <3>1, <3>3
  <2>. QED  BY <1>2, <1>4, <2>1, <2>2, <2>3 DEF StoreIsSound
<1>9. ASSUME NEW c \in Uploads
      PROVE  UploadIsSound(c)'
  <2>1. UploadIsSound(c) /\ upload[c].files \subseteq Images /\ store' \subseteq store
    BY <1>1 DEF ImageInv, ImageShape
  <2>. QED  BY <1>2, <1>3, <1>4, <2>1 DEF UploadIsSound
<1>10. ASSUME NEW x \in Cleanups
       PROVE  CleanupIsSound(x)'
  <2>1. CleanupIsSound(x) /\ cleanup[x].keys \subseteq Images
    BY DEF ImageInv, ImageShape
  <2>2. CASE x = r
    BY <1>2, <1>4, <1>6, <2>1, <2>2 DEF CleanupIsSound
  <2>3. CASE x # r
    BY <1>2, <1>4, <1>6, <2>1, <2>3 DEF CleanupIsSound
  <2>. QED  BY <2>2, <2>3
<1>. QED  BY <1>5, <1>7, <1>8, <1>9, <1>10 DEF ImageInv

LEMMA ClockGoesOn ==
  ASSUME ImageInv, Tick
  PROVE  ImageInv'
<1>1. /\ UNCHANGED <<store, given, uploadedAt, requestedAt, shownAt, upload, cleanup>>
      /\ now' \in Times /\ now' > now /\ now \in Times
  BY DEF Tick, ImageInv, ImageShape
<1>2. /\ \A j \in Images : Due(j)' = Due(j)
      /\ \A j \in Images : uploadedAt[j] # Never => Due(j) \in Int
      /\ now \in Int /\ now' \in Int
  BY <1>1, DueStays, DueIsLate DEF ImageInv, Times
<1>3. \A j \in Images : uploadedAt[j] # Never /\ Due(j) <= now => Due(j)' <= now'
  BY <1>1, <1>2
<1>4. ImageShape'
  BY <1>1 DEF ImageInv, ImageShape
<1>5. StoreIsSound'
  BY <1>1, <1>2, <1>3 DEF ImageInv, ImageShape, StoreIsSound
<1>6. ASSUME NEW c \in Uploads
      PROVE  UploadIsSound(c)'
  <2>1. UploadIsSound(c) /\ upload[c].files \subseteq Images
    BY DEF ImageInv, ImageShape
  <2>. QED  BY <1>1, <1>2, <1>3, <2>1 DEF UploadIsSound
<1>7. ASSUME NEW r \in Cleanups
      PROVE  CleanupIsSound(r)'
  <2>1. CleanupIsSound(r) /\ cleanup[r].keys \subseteq Images
    BY DEF ImageInv, ImageShape
  <2>. QED  BY <1>1, <1>2, <1>3, <2>1 DEF CleanupIsSound
<1>. QED  BY <1>4, <1>5, <1>6, <1>7 DEF ImageInv

-----------------------------------------------------------------------------
LEMMA BucketMoves == ImageInv /\ [ImageNext]_imageVars => ImageInv' /\ FreshImagesStay
<1>. SUFFICES ASSUME ImageInv, [ImageNext]_imageVars PROVE ImageInv' /\ FreshImagesStay
  OBVIOUS
<1>1. ASSUME NEW c \in Uploads, NEW files \in SUBSET Images, NEW bad \in SUBSET files,
             BeginUpload(c, files, bad)
      PROVE  ImageInv' /\ FreshImagesStay
  BY <1>1, UploadBegins DEF BeginUpload, FreshImagesStay
<1>2. ASSUME NEW c \in Uploads, NEW i \in Images, PutImage(c, i)
      PROVE  ImageInv' /\ FreshImagesStay
  BY <1>2, ImagePut DEF PutImage, FreshImagesStay
<1>3. ASSUME NEW c \in Uploads, FailUpload(c)
      PROVE  ImageInv' /\ FreshImagesStay
  BY <1>3, UploadFails DEF FailUpload, FreshImagesStay
<1>4. ASSUME NEW i \in Images, RequestWith(i) \/ ShowWith(i)
      PROVE  ImageInv' /\ FreshImagesStay
  BY <1>4, ImageNamed DEF RequestWith, ShowWith, FreshImagesStay
<1>5. ASSUME NEW r \in Cleanups, ListKeys(r) \/ FindUnused(r) \/ EndCleanup(r)
      PROVE  ImageInv' /\ FreshImagesStay
  BY <1>5, KeysListed, UnusedFound DEF ListKeys, FindUnused, EndCleanup, FreshImagesStay
<1>6. ASSUME NEW r \in Cleanups, DeleteChunk(r)
      PROVE  ImageInv' /\ FreshImagesStay
  BY <1>6, ChunkDeleted
<1>7. CASE Tick
  BY <1>7, ClockGoesOn DEF Tick, FreshImagesStay
<1>8. CASE UNCHANGED imageVars
  BY <1>8 DEF imageVars, FreshImagesStay, ImageInv, ImageShape, StoreIsSound, UploadIsSound,
              CleanupIsSound, Due
<1>. QED  BY <1>1, <1>2, <1>3, <1>4, <1>5, <1>6, <1>7, <1>8 DEF ImageNext

LEMMA BucketIsSound == ImageInv => RequestedImagesStay /\ RefusedLeavesNothing /\ ImageTypeOK
BY DEF ImageInv, ImageShape, StoreIsSound, UploadIsSound, Due, RequestedImagesStay,
       RefusedLeavesNothing, ImageTypeOK

(* Whatever uploads, requests, runs of the job and hours follow one        *)
(* another: no image is deleted within seventeen hours, none whose request *)
(* was stored in time, and a refused upload leaves nothing                 *)
(* (image.scheduler.ts:24, image.service.ts:70).                           *)
THEOREM BucketStaysRight == ImageSpec => BucketIsRight
<1>1. ImageInv' => RequestedImagesStay' /\ RefusedLeavesNothing'
  BY DEF ImageInv, StoreIsSound, UploadIsSound, Due, RequestedImagesStay, RefusedLeavesNothing
<1>. QED  BY <1>1, BucketStart, BucketMoves, PTL DEF ImageSpec, BucketIsRight

(* The image store keeps its types.                                        *)
THEOREM ImagesTyped == ImageSpec => []ImageTypeOK
BY BucketStart, BucketMoves, BucketIsSound, PTL DEF ImageSpec
=============================================================================
