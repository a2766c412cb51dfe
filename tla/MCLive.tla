-------------------------------- MODULE MCLive --------------------------------
(***************************************************************************)
(* What must come to an end, in one run: the POSTs of EstimateRequest, the *)
(* webhook calls of EstimateResponse, the requests of Reservation, and the *)
(* calls to other services.  A behaviour is one of a single part; the      *)
(* fairness of the others asks for nothing, since none of their requests   *)
(* has begun.                                                              *)
(***************************************************************************)
EXTENDS EstimateRequest, Outbound, TLC

CONSTANTS
  b1, b2, u1, u2, p1, k1, v1,   \* of Reservation
  r1, r2, s1, m1, t1, d1, d2

ASSUME LiveAssumption == None \notin {r1, r2, s1, m1} \union Nat

VARIABLES
  part,
  proposals, slots, reservation, rowLock, booking, cancel, bookingNotices,
  sent, expired, received, texts, response, selected, open, processing, delivery,
  estimateNotices

(* A full offer, and one that lacks the price. *)
MCOffers == {[can |-> TRUE, price |-> p, times |-> {t1}] : p \in {1, None}}

(* One proposal with one slot, its owner and somebody else. *)
Booked == INSTANCE Reservation WITH
  Creates <- {b1, b2},
  Users <- {u1, u2}, Proposals <- {p1}, Owner <- p1 :> u1,
  Slots <- {s1}, Times <- {t1}, Cancels <- {k1}, Savers <- {v1},
  create <- booking, notices <- bookingNotices

(* Two requests to a shop, one message of it, delivered twice. *)
Answered == INSTANCE EstimateResponse WITH
  Requests <- {r1, r2}, Shops <- {s1}, Messages <- {m1}, Sender <- [m \in {m1} |-> s1],
  Deliveries <- {d1, d2}, Times <- {t1}, Offers <- MCOffers, MaxSent <- 2,
  sms <- texts, notices <- estimateNotices

reservationVars ==
  <<proposals, slots, reservation, rowLock, booking, cancel, bookingNotices>>
responseVars ==
  <<sent, expired, received, texts, response, selected, open, processing, delivery,
    estimateNotices>>
MCVars == <<vars, part, reservationVars, responseVars, outboundVars>>

MCInit ==
  /\ part \in {"request", "response", "reservation", "outbound"}
  /\ OutboundInit /\ Init /\ Booked!Init /\ Answered!Init
  /\ part # "request" => smsEnabled

MCNext ==
  /\ UNCHANGED part
  /\ IF part = "request" THEN Next ELSE UNCHANGED vars
  /\ IF part = "response" THEN Answered!Next ELSE UNCHANGED responseVars
  /\ IF part = "reservation" THEN Booked!Next ELSE UNCHANGED reservationVars
  /\ IF part = "outbound" THEN OutboundNext ELSE UNCHANGED outboundVars

MCSpec ==
  /\ MCInit /\ [][MCNext]_MCVars
  /\ Fairness /\ Booked!Fairness /\ Answered!Fairness /\ OutboundFairness

-----------------------------------------------------------------------------
(* The properties of the other two modules, as they are stated there.      *)
RequestsEnd == Booked!RequestsEnd
MessagesKept == Answered!MessagesKept
CallsEnd == Answered!CallsEnd
=============================================================================
