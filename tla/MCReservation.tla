---------------------------- MODULE MCReservation ----------------------------
(***************************************************************************)
(* Model values for the runs of Reservation.                               *)
(***************************************************************************)
EXTENDS Reservation, Naturals, FiniteSets, TLC

CONSTANTS
  u1, u2, p1, p2,
  MaxRequests   \* bound on the requests that arrive, of both kinds together

(* Every proposal answers a request of u1; u2 is somebody else. *)
MCOwner == [p \in Proposals |-> u1]

MCSymmetry ==
  Permutations(Slots) \union Permutations(Times)
    \union Permutations(Creates) \union Permutations(Cancels)

(* How many requests have arrived.                                         *)
Begun ==
  Cardinality({c \in Creates : create[c].pc # "idle"})
    + Cardinality({k \in Cancels : cancel[k].pc # "idle"})

MCSpec == Init /\ [][Next /\ Begun' <= MaxRequests]_vars
=============================================================================
