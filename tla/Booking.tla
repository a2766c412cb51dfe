------------------------------- MODULE Booking -------------------------------
(***************************************************************************)
(* What the reservation component promises, and nothing of how: a proposal *)
(* (an estimate response of a shop) carries at most one open booking at a  *)
(* time, a cancelled booking never comes back, and a new booking is        *)
(* possible only once the previous one of the same proposal is cancelled.  *)
(*                                                                         *)
(* A booking is identified by the reservation row that records it.         *)
(***************************************************************************)
CONSTANTS
  Proposals,   \* estimate responses
  Rows         \* identities of reservation rows

VARIABLES
  booked,      \* booked[p]: the bookings of proposal p that are not cancelled
  released     \* the bookings that were cancelled

vars == <<booked, released>>

TypeOK ==
  /\ booked \in [Proposals -> SUBSET Rows]
  /\ released \in SUBSET Rows

Init ==
  /\ booked = [p \in Proposals |-> {}]
  /\ released = {}

(* A proposal without an open booking is booked under a fresh identity. *)
Book(p, r) ==
  /\ booked[p] = {}
  /\ r \notin released
  /\ \A q \in Proposals : r \notin booked[q]
  /\ booked' = [booked EXCEPT ![p] = {r}]
  /\ UNCHANGED released

(* An open booking is cancelled, which makes the proposal bookable again. *)
Release(p, r) ==
  /\ r \in booked[p]
  /\ booked' = [booked EXCEPT ![p] = {}]
  /\ released' = released \union {r}

Next == \E p \in Proposals, r \in Rows : Book(p, r) \/ Release(p, r)

Spec == Init /\ [][Next]_vars
=============================================================================
