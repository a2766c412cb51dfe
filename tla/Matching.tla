------------------------------ MODULE Matching ------------------------------
(***************************************************************************)
(* Which shops a user is offered for a request (ShopMatchingService and    *)
(* its two queries), over tables that change: shops are switched on and    *)
(* off by their administrators, and their answers to earlier requests      *)
(* decide who counts as cheap.  A query is one statement, so an answer is  *)
(* a function of the tables.                                               *)
(***************************************************************************)
EXTENDS Integers, SequencesExt

CONSTANTS
  Candidates,  \* positive integers
  Distance,    \* Distance[s]: ST_Distance_Sphere from where the user stands
  Policy,      \* SHOP_MATCHING_POLICIES: radius and limit of every type
  Quotes,      \* prices of answers
  NoPrice,     \* null
  MaxQuotes    \* bound: answers in all

Types == {"CLOSE", "BALANCED", "WIDE", "CHEAP"}

ASSUME MatchingAssumption ==
  /\ IsFiniteSet(Candidates) /\ Candidates \subseteq Nat /\ Distance \in [Candidates -> Nat]
  /\ Policy \in [Types -> [radius : Nat, limit : Nat]]
  /\ Policy["CLOSE"].radius <= Policy["BALANCED"].radius
  /\ Policy["BALANCED"].radius <= Policy["WIDE"].radius
  /\ Policy["CLOSE"].limit <= Policy["BALANCED"].limit
  /\ Policy["BALANCED"].limit <= Policy["WIDE"].limit
  /\ Policy["CHEAP"] = Policy["WIDE"]
  /\ Quotes \subseteq Nat /\ NoPrice \notin Nat /\ MaxQuotes \in Nat

VARIABLES
  listed,   \* listed[s]: shops.is_data_active
  quotes    \* quotes[s]: the estimate_responses of s, oldest first

matchingVars == <<listed, quotes>>

-----------------------------------------------------------------------------
(* can_provide_service and total_price; a refusal may name a price too. *)
Quote == [can : BOOLEAN, price : Quotes \union {NoPrice}]

MatchingInit ==
  /\ listed \in [Candidates -> BOOLEAN]
  /\ quotes = [s \in Candidates |-> <<>>]

(* The answers there are. *)
Priced == UNION {{s} \X DOMAIN quotes[s] : s \in Candidates}

(* An answer of s is saved (EstimateResponse, Save). *)
AddQuote(s, quote) ==
  /\ Cardinality(Priced) < MaxQuotes
  /\ quotes' = [quotes EXCEPT ![s] = Append(@, quote)]
  /\ UNCHANGED listed

(* deactivate of an administrator, or an import that finds s again. *)
Switch(s) ==
  /\ listed' = [listed EXCEPT ![s] = ~@]
  /\ UNCHANGED quotes

MatchingNext ==
  \E s \in Candidates : Switch(s) \/ \E quote \in Quote : AddQuote(s, quote)

MatchingSpec == MatchingInit /\ [][MatchingNext]_matchingVars

-----------------------------------------------------------------------------
(* Variant: every answer that names a price counts. *)
PricesNamed(s) ==
  {i \in DOMAIN quotes[s] : quotes[s][i].price # NoPrice}

(* What AVG(CASE WHEN ...) ranges over. *)
PricesOf(s) ==
  {i \in DOMAIN quotes[s] : quotes[s][i].can /\ quotes[s][i].price # NoPrice}

Total(s) ==
  SumFunctionOnSet([i \in DOMAIN quotes[s] |-> quotes[s][i].price], PricesOf(s))

(* ORDER BY distanceMeters, id. *)
Nearer(s, t) ==
  \/ Distance[s] < Distance[t]
  \/ Distance[s] = Distance[t] /\ s < t

(* ORDER BY averagePrice IS NULL, averagePrice, distanceMeters, id. *)
Cheaper(s, t) ==
  LET m == Cardinality(PricesOf(s))
      n == Cardinality(PricesOf(t))
  IN \/ m # 0 /\ n = 0
     \/ m # 0 /\ n # 0 /\ Total(s) * n < Total(t) * m
     \/ /\ (m = 0 /\ n = 0) \/ (m # 0 /\ n # 0 /\ Total(s) * n = Total(t) * m)
        /\ Nearer(s, t)

(* WHERE is_data_active AND distanceMeters <= radius. *)
InReach(type) == {s \in Candidates : listed[s] /\ Distance[s] <= Policy[type].radius}

(* ORDER BY: as many come before the one at i as i says. *)
Sorted(S, Ahead(_, _)) ==
  [i \in 1..Cardinality(S) |->
     CHOOSE s \in S : i = 1 + Cardinality({t \in S : Ahead(t, s)})]

(* LIMIT *)
FirstOf(l, limit) == SubSeq(l, 1, IF Len(l) < limit THEN Len(l) ELSE limit)

(* findCheapShops *)
CheapShops(type) ==
  FirstOf(Sorted(InReach(type), Cheaper), Policy[type].limit)

(* findNearbyShops *)
NearbyShops(type) ==
  FirstOf(Sorted(InReach(type), Nearer), Policy[type].limit)

(* match *)
Match(type) == IF type = "CHEAP" THEN CheapShops(type) ELSE NearbyShops(type)

-----------------------------------------------------------------------------
(* The tables, and what every search returns: active shops within its      *)
(* radius, as many as there are up to its limit, none of them twice.       *)
MatchingTypeOK ==
  /\ listed \in [Candidates -> BOOLEAN]
  /\ quotes \in [Candidates -> Seq(Quote)] /\ Cardinality(Priced) <= MaxQuotes
  /\ \A type \in Types :
       LET l == Match(type)
           there == {s \in Candidates : listed[s] /\ Distance[s] <= Policy[type].radius}
       IN /\ ToSet(l) \subseteq there
          /\ Cardinality(ToSet(l)) = Len(l)
          /\ Len(l) = Min({Cardinality(there), Policy[type].limit})

(* A wider search begins with what the closer one found: nobody who was    *)
(* offered drops out when the user asks for more (shop-matching.service.ts *)
(* :11-28).                                                                *)
WiderKeepsCloser ==
  /\ IsPrefix(Match("CLOSE"), Match("BALANCED"))
  /\ IsPrefix(Match("BALANCED"), Match("WIDE"))

(* What the cheap search leaves out, among all the active shops of the     *)
(* wide radius and not just the nearest, has never offered a price or      *)
(* offers a higher one on average than everything the search returns, or   *)
(* the same from no nearer; a shop that only ever refused is no cheap one, *)
(* whatever price its refusals named.                                      *)
CheapLeavesOutDearer ==
  LET found == ToSet(Match("CHEAP"))
      offers(s) == {i \in DOMAIN quotes[s] : quotes[s][i].can /\ quotes[s][i].price # NoPrice}
      sum(s) == FoldFunctionOnSet(+, 0, [i \in DOMAIN quotes[s] |-> quotes[s][i].price], offers(s))
      n(s) == Cardinality(offers(s))
  IN \A s \in found, t \in InReach("WIDE") \ found :
       n(t) # 0 =>
         /\ n(s) # 0
         /\ \/ sum(s) * n(t) < sum(t) * n(s)
            \/ sum(s) * n(t) = sum(t) * n(s) /\ Distance[s] <= Distance[t]

(* Each search offers the best there is, and more is never less.           *)
OffersTheBest == WiderKeepsCloser /\ CheapLeavesOutDearer
=============================================================================
