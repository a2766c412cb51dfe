------------------------------ MODULE MCEstimate ------------------------------
(***************************************************************************)
(* The answers to estimate requests, in one run: how they arrive           *)
(* (EstimateResponse) and how they are listed (EstimateList).  The list    *)
(* takes their arrival as an external step, so a behaviour is one of a     *)
(* single part.  The arrival is looked at twice: "repeats" has one shop,   *)
(* whose texts are delivered again and again, and "prices" two shops whose *)
(* offers differ in price, with no more than two deliveries.               *)
(***************************************************************************)
EXTENDS MCEstimateResponse, EstimateList

CONSTANTS
  m3,          \* a message of the second shop
  a1, a2, a3   \* shops that answer one request

VARIABLE part

(* A good shop, a near one, and one that is neither. *)
MCStars == a1 :> 3 @@ a2 :> 2 @@ a3 :> 2
MCKilometres == a1 :> 4 @@ a2 :> 1 @@ a3 :> 4

MCSenders == m1 :> s1 @@ m2 :> s1 @@ m3 :> s2

FullOffers == {o \in Offers : o.price # None /\ o.times # {}}

(* One SMS went out, to an active shop that names one price, whatever else *)
(* it writes; the notices fail.                                            *)
Repeats ==
  /\ Len(sent) <= 1 /\ received[m3] = None /\ notices = {}
  /\ \A d \in Deliveries :
       /\ delivery[d].pc # "idle" => delivery[d].row.shop # None
       /\ delivery[d].offer.price # 2

(* Two deliveries at most, of full offers, about a request that stays open *)
(* and has no reservation yet.                                             *)
FewDeliveries ==
  /\ Cardinality({d \in Deliveries : delivery[d].pc # "idle"}) <= 2
  /\ \A d \in Deliveries :
       delivery[d].pc \in {"lowest", "wait"} => delivery[d].offer \in FullOffers
  /\ expired = {} /\ \A k \in Keys : selected[k] = {}

MCInit ==
  /\ part \in {"repeats", "prices", "results"}
  /\ Init /\ ResultInit
  /\ part # "results" => located

MCNext ==
  /\ UNCHANGED part
  /\ \/ part = "repeats" /\ Next /\ Repeats'
     \/ part = "prices" /\ Next /\ FewDeliveries'
     \/ part = "results" /\ UNCHANGED vars
  /\ IF part = "results" THEN ResultNext ELSE UNCHANGED resultVars

MCSpec == MCInit /\ [][MCNext]_<<part, vars, resultVars>>

-----------------------------------------------------------------------------
(* Both parts keep their types.                                            *)
EstimatesTypeOK == TypeOK /\ ResultTypeOK
=============================================================================
