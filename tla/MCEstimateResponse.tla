-------------------------- MODULE MCEstimateResponse --------------------------
(***************************************************************************)
(* Model values for the runs of EstimateResponse.                          *)
(***************************************************************************)
EXTENDS EstimateResponse, TLC

CONSTANTS s1, s2, m1, m2, t1

(* All messages come from one shop. *)
MCOneSender == [m \in Messages |-> s1]

(* Two shops, one message each. *)
MCTwoSenders == m1 :> s1 @@ m2 :> s2

(* A full offer and a cheaper one, one that lacks a time, and a refusal. *)
MCOffers ==
  {[can |-> TRUE, price |-> 2, times |-> {t1}],
   [can |-> TRUE, price |-> 1, times |-> {t1}],
   [can |-> TRUE, price |-> 1, times |-> {}],
   [can |-> FALSE, price |-> None, times |-> {}]}

(* A full offer and a refusal that names a lower price. *)
MCRefusals ==
  {[can |-> TRUE, price |-> 2, times |-> {t1}],
   [can |-> FALSE, price |-> 1, times |-> {}]}

MCSymmetry == Permutations(Deliveries)
=============================================================================
