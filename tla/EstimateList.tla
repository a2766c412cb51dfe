----------------------------- MODULE EstimateList -----------------------------
(***************************************************************************)
(* What a user sees of the answers to one estimate request: the sorted     *)
(* list of them with the shops that have not answered                      *)
(* (EstimateResponseService.getList) and the card of the request           *)
(* (EstimateRequestService.getEstimatesByStatus).  The answers arrive      *)
(* meanwhile; how, is in EstimateResponse.                                 *)
(*                                                                         *)
(* Ratings are in stars, distances in kilometres, prices in ten thousands  *)
(* of won, so that recommendationScore is in whole numbers.                *)
(***************************************************************************)
EXTENDS Integers, SequencesExt

CONSTANTS
  Asked,        \* the shops the request went to
  Stars,        \* Stars[s]: shops.rating
  Kilometres,   \* Kilometres[s]: calculateDistanceMeters
  Prices,      \* prices the parser may read
  OfferTimes,   \* earliest proposed times
  Readers,      \* requests handled at a time
  Missing       \* null

ASSUME ListAssumption ==
  /\ IsFiniteSet(Asked) /\ IsFiniteSet(OfferTimes) /\ OfferTimes # {}
  /\ Prices \subseteq Nat /\ OfferTimes \subseteq Nat
  /\ Stars \in [Asked -> Nat] /\ Kilometres \in [Asked -> Nat]
  /\ Missing \notin Nat

VARIABLES
  located,   \* the request has coordinates
  answers,   \* answers[s]: the row of estimate_responses of shop s
  reader     \* reader[c]: where a request for the list stands

resultVars == <<located, answers, reader>>

-----------------------------------------------------------------------------
(* id: 0 without a row; can, price: can_provide_service, total_price;      *)
(* first: the earliest of its proposed times.                              *)
AnswerRow ==
  [id : 0..Cardinality(Asked), can : BOOLEAN,
   price : Prices \union {Missing}, first : OfferTimes \union {Missing}]

(* What processSmsMessage saves: an offer is complete, a refusal may name  *)
(* a price and keep times.                                                 *)
Complete(a) == a.can => a.price # Missing /\ a.first # Missing

Sorts == {"RECOMMENDED", "LOWEST_PRICE", "NEAREST", "EARLIEST_AVAILABLE"}

ReaderRecord ==
  [pc : {"answered", "list", "averages"},
   listed : SUBSET Asked, waiting : SUBSET Asked]

ResultTypeOK ==
  /\ located \in BOOLEAN
  /\ answers \in [Asked -> AnswerRow]
  /\ \A s, t \in Asked : answers[s].id = answers[t].id => answers[s].id = 0 \/ s = t
  /\ reader \in [Readers -> ReaderRecord]

NoAnswer == [id |-> 0, can |-> FALSE, price |-> Missing, first |-> Missing]

Unread == [pc |-> "answered", listed |-> {}, waiting |-> Asked]

ResultInit ==
  /\ located \in BOOLEAN
  /\ answers = [s \in Asked |-> NoAnswer]
  /\ reader = [c \in Readers |-> Unread]

-----------------------------------------------------------------------------
Responded == {s \in Asked : answers[s].id # 0}

(* Whether the price of a counts when prices are compared. *)
OnOffer(a) == a.can /\ a.price # Missing

(* Math.min of S, Missing for none. *)
Lowest(S) == IF S = {} THEN Missing ELSE Min(S)

(* minPrice of getList. *)
MinPrice == Lowest({answers[s].price : s \in {t \in Responded : OnOffer(answers[t])}})

(* isLowestPrice *)
MarkedLowest == {s \in Responded : OnOffer(answers[s]) /\ answers[s].price = MinPrice}

(* Variant: null counts as 0, as it does in a subtraction. *)
ComparePricesAsNumbers(s, t) ==
  LET number(x) == IF answers[x].price = Missing THEN 0 ELSE answers[x].price
  IN number(s) - number(t)

(* compareNullablePrices: negative if s comes first, 0 if it decides       *)
(* nothing.                                                                *)
ComparePrices(s, t) ==
  LET a == answers[s]
      b == answers[t]
  IN CASE OnOffer(a) /\ OnOffer(b) -> a.price - b.price
       [] ~OnOffer(a) /\ OnOffer(b) -> 1
       [] OnOffer(a) /\ ~OnOffer(b) -> -1
       [] OTHER -> 0

(* distanceMeters, with the stand-ins of the comparators for null. *)
DistanceOr(s, other) == IF located THEN Kilometres[s] ELSE other

Far == 1 + Max({Kilometres[s] : s \in Asked} \union {10})

(* recommendationScore of an offer; without one it is negative infinity. *)
Score(s) == 20 * Stars[s] - answers[s].price - DistanceOr(s, 10)

(* scoreB - scoreA; infinity minus infinity is not a number and decides    *)
(* nothing either.                                                         *)
CompareScores(s, t) ==
  IF OnOffer(answers[s]) /\ OnOffer(answers[t]) THEN Score(t) - Score(s)
  ELSE ComparePrices(s, t)

FirstTime(s) == IF answers[s].first = Missing THEN Max(OfferTimes) + 1 ELSE answers[s].first

(* The comparator of sortResults. *)
ListedBefore(sort, s, t) ==
  LET order == CASE sort = "LOWEST_PRICE" -> ComparePrices(s, t)
                 [] sort = "NEAREST" -> DistanceOr(s, Far) - DistanceOr(t, Far)
                 [] sort = "EARLIEST_AVAILABLE" -> FirstTime(s) - FirstTime(t)
                 [] OTHER -> CompareScores(s, t)
  IN order < 0 \/ (order = 0 /\ answers[s].id < answers[t].id)

(* items.sort: as many come before the one at i as i says. *)
Results(sort) ==
  [i \in 1..Cardinality(Responded) |->
     CHOOSE s \in Responded :
       i = 1 + Cardinality({t \in Responded : ListedBefore(sort, t, s)})]

(* minPrice of getEstimatesByStatus, which does not ask whether the shop   *)
(* can do it.                                                              *)
CardPrice ==
  Lowest({answers[s].price : s \in {t \in Responded : answers[t].price # Missing}})

-----------------------------------------------------------------------------
(* A parsing saves the answer of shop s, the first or a later one          *)
(* (EstimateResponse, Save).                                               *)
SaveAnswer(s, can, price, first) ==
  LET row == [id |-> IF s \in Responded THEN answers[s].id
                     ELSE Cardinality(Responded) + 1,
              can |-> can, price |-> price, first |-> first]
  IN /\ Complete(row)
     /\ answers' = [answers EXCEPT ![s] = row]
     /\ UNCHANGED <<located, reader>>

ReaderTo(c, r) == reader' = [reader EXCEPT ![c] = r]

(* findRequestOwner and findRequestContext for the owner: 404 and 403      *)
(* otherwise.                                                              *)
BeginList(c) ==
  /\ reader[c].pc = "answered"
  /\ ReaderTo(c, [pc |-> "list", listed |-> {}, waiting |-> Asked])
  /\ UNCHANGED <<located, answers>>

(* findList, and the shops of the context that are not in it. *)
FindList(c) ==
  LET r == reader[c] IN
  /\ r.pc = "list"
  /\ ReaderTo(c, [r EXCEPT !.pc = "averages", !.listed = Responded,
                           !.waiting = @ \ Responded])
  /\ UNCHANGED <<located, answers>>

(* Variant: who is waited for is looked up again with the averages. *)
FindAveragesAgain(c) ==
  LET r == reader[c] IN
  /\ r.pc = "averages"
  /\ ReaderTo(c, [r EXCEPT !.pc = "answered", !.waiting = Asked \ Responded])
  /\ UNCHANGED <<located, answers>>

(* findAverageResponseMinutes, at least a minute, an hour for a shop that   *)
(* never answered; and the answer.                                         *)
FindAverages(c) ==
  LET r == reader[c] IN
  /\ r.pc = "averages"
  /\ ReaderTo(c, [r EXCEPT !.pc = "answered"])
  /\ UNCHANGED <<located, answers>>

(* A statement fails, or the server dies. *)
FailList(c) ==
  /\ reader[c].pc # "answered"
  /\ ReaderTo(c, Unread)
  /\ UNCHANGED <<located, answers>>

ResultNext ==
  \/ \E s \in Asked, can \in BOOLEAN, price \in Prices \union {Missing},
        first \in OfferTimes \union {Missing} : SaveAnswer(s, can, price, first)
  \/ \E c \in Readers :
       \/ BeginList(c) \/ FindList(c) \/ FindAverages(c) \/ FailList(c)

ResultSpec == ResultInit /\ [][ResultNext]_resultVars

-----------------------------------------------------------------------------
(* Every shop that was asked is in the answer once: among those that       *)
(* answered or among those that have not, also when it answers while the   *)
(* list is being read (estimate-response.service.ts:243-246).              *)
EveryShopOnce ==
  \A c \in Readers :
    LET r == reader[c] IN
    r.pc # "list" => r.listed = Asked \ r.waiting

(* However the list is sorted, what lacks the price, the time or the       *)
(* distance it is sorted by comes last; sorted by a distance nobody knows, *)
(* the answer that came first leads (estimate-response.service.ts:316-325).*)
UnknownLast ==
  \A sort \in Sorts :
    LET l == Results(sort)
        known(s) == CASE sort = "EARLIEST_AVAILABLE" -> answers[s].first # Missing
                      [] sort = "NEAREST" -> located \/ answers[s].id = 1
                      [] OTHER -> OnOffer(answers[s])
    IN \A i, j \in DOMAIN l : known(l[i]) /\ ~known(l[j]) => i < j

(* If there is an offer, one of those marked as lowest heads the list      *)
(* sorted by price, and nothing on offer is cheaper than what is marked.   *)
LowestHeadsTheList ==
  (\E s \in Responded : OnOffer(answers[s])) =>
    /\ Results("LOWEST_PRICE")[1] \in MarkedLowest
    /\ \A s \in MarkedLowest, t \in Responded :
         OnOffer(answers[t]) => answers[s].price <= answers[t].price

(* An offer that is as well rated, as cheap and as near as another one,    *)
(* and better in one of the three, is recommended before it, whatever      *)
(* else is in the list.                                                    *)
BetterIsRecommended ==
  LET l == Results("RECOMMENDED") IN
  \A i, j \in DOMAIN l :
    LET s == l[i]
        t == l[j]
        better == /\ Stars[s] >= Stars[t] /\ answers[s].price <= answers[t].price
                  /\ located => Kilometres[s] <= Kilometres[t]
                  /\ \/ Stars[s] > Stars[t] \/ answers[s].price < answers[t].price
                     \/ located /\ Kilometres[s] < Kilometres[t]
    IN OnOffer(answers[s]) /\ OnOffer(answers[t]) /\ better => i < j

(* The card of a request and its list name the same lowest price, unless a *)
(* refusal names a price, which the card alone counts.                     *)
CardAgreesWithList ==
  (\A s \in Responded : answers[s].can \/ answers[s].price = Missing)
    => CardPrice = MinPrice

(* The best offer comes first, by every order and on the card.             *)
OffersInOrder ==
  UnknownLast /\ LowestHeadsTheList /\ BetterIsRecommended /\ CardAgreesWithList
=============================================================================
