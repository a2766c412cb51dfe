----------------------------- MODULE Reservation -----------------------------
(***************************************************************************)
(* Creating and cancelling reservations: ReservationService and the        *)
(* transactions of PrismaReservationRepository.                            *)
(*                                                                         *)
(* Every HTTP request runs as a process that is suspended at each await,   *)
(* so every database statement is a step of its own and the requests       *)
(* interleave between statements.  MySQL runs at REPEATABLE READ: a step   *)
(* outside a transaction sees committed rows; createReservation's          *)
(* transaction takes its snapshot at its first plain read, which is after  *)
(* it got the lock on the proposal row.  What a transaction wrote is seen  *)
(* by nobody before Commit, so its writes are applied there.               *)
(*                                                                         *)
(* A reservation row is named by the request that inserts it (a request    *)
(* inserts at most one row and AUTO_INCREMENT never reuses an id).         *)
(*                                                                         *)
(* A "Variant" states a plausible bug in the operation that follows it; no *)
(* specification uses it (README.md, section Variants).                    *)
(*                                                                         *)
(* The time slots of a proposal are rewritten by another component, the    *)
(* transaction that saves a parsed SMS (saveParsedEstimateResponse).  Here *)
(* it is an environment that locks the proposal row, replaces the slots    *)
(* nobody selected and unlocks.                                            *)
(***************************************************************************)
CONSTANTS
  Users,      \* users who send requests
  Proposals,  \* estimate responses (table estimate_responses)
  Owner,      \* Owner[p]: the user whose estimate request p answers
  Slots,      \* row ids of shop_proposal_times
  Times,      \* the date-times a slot can stand for
  Creates,    \* POST /reservations requests, and the rows they insert
  Cancels,    \* cancel requests
  Savers,     \* transactions of saveParsedEstimateResponse
  None        \* no value: SQL NULL, nobody holds the lock

ASSUME OwnerAssumption == Owner \in [Proposals -> Users]
ASSUME NoneAssumption ==
  None \notin Users \union Proposals \union Slots \union Times
                    \union Creates \union Savers
ASSUME TransactionsAssumption == Creates \intersect Savers = {}

VARIABLES
  proposals,    \* the proposals that exist
  slots,        \* shop_proposal_times
  reservation,  \* reservations
  rowLock,      \* rowLock[p]: the transaction that holds p's row exclusively
  create,       \* create[c]: where a create request stands
  cancel,       \* cancel[k]: where a cancel request stands
  notices       \* notification rows about reservations

vars == <<proposals, slots, reservation, rowLock, create, cancel, notices>>

-----------------------------------------------------------------------------
(* Types *)

SlotRow ==
  [state: {"unused", "live", "deleted"}, proposal: Proposals \union {None},
   at: Times \union {None}, selected: BOOLEAN]

ReservationRow ==
  [status: {"none", "CONFIRMED", "COMPLETED", "CANCELLED"},
   proposal: Proposals \union {None}, user: Users \union {None},
   at: Times \union {None}]

(* The transaction of create() is open exactly at these points. *)
InTransaction == {"count", "insert", "select", "commit"}

CreatePoint ==
  {"idle", "readSlot", "precheck", "lock", "notify", "done"} \union InTransaction

(* "failed" and "unconfirmed" are the same 500 to the client: before the   *)
(* write took effect, and after it.                                        *)
CreateOutcome ==
  {"none", "created", "proposalNotFound", "timeNotFound", "alreadyReserved",
   "failed", "unconfirmed", "lost"}

CreateRequest ==
  [pc: CreatePoint, user: Users \union {None}, proposal: Proposals \union {None},
   slot: Slots \union {None}, at: Times \union {None}, outcome: CreateOutcome]

CancelRequest ==
  [pc: {"idle", "update", "reread", "notify", "done"}, user: Users \union {None},
   row: Creates \union {None},
   outcome: {"none", "cancelled", "notFound", "alreadyFinalized", "failed",
             "unconfirmed", "lost"}]

Notice ==
  [type: {"RESERVATION_CONFIRMED"}, row: Creates, from: Creates]
    \union [type: {"RESERVATION_CANCELLED"}, row: Creates, from: Cancels]

TypeOK ==
  /\ proposals \in SUBSET Proposals
  /\ slots \in [Slots -> SlotRow]
  /\ reservation \in [Creates -> ReservationRow]
  /\ rowLock \in [Proposals -> Creates \union Savers \union {None}]
  /\ create \in [Creates -> CreateRequest]
  /\ cancel \in [Cancels -> CancelRequest]
  /\ notices \in SUBSET Notice

-----------------------------------------------------------------------------
(* Rows *)

UnusedSlot == [state |-> "unused", proposal |-> None, at |-> None, selected |-> FALSE]

NoReservation == [status |-> "none", proposal |-> None, user |-> None, at |-> None]

Exists(r) == reservation[r].status # "none"

(* A reservation that counts against its proposal: status not CANCELLED. *)
Active(r) == reservation[r].status \in {"CONFIRMED", "COMPLETED"}

ActiveOf(p) == {r \in Creates : Active(r) /\ reservation[r].proposal = p}

LiveSlotOf(s, p) == slots[s].state = "live" /\ slots[s].proposal = p

Init ==
  /\ proposals = {}
  /\ slots = [s \in Slots |-> UnusedSlot]
  /\ reservation = [c \in Creates |-> NoReservation]
  /\ rowLock = [p \in Proposals |-> None]
  /\ create = [c \in Creates |->
       [pc |-> "idle", user |-> None, proposal |-> None, slot |-> None,
        at |-> None, outcome |-> "none"]]
  /\ cancel = [k \in Cancels |->
       [pc |-> "idle", user |-> None, row |-> None, outcome |-> "none"]]
  /\ notices = {}

-----------------------------------------------------------------------------
(* createReservation *)

Tables == <<proposals, slots, reservation>>

GoTo(c, pc) == create' = [create EXCEPT ![c].pc = pc]

AnswerCreate(c, outcome) ==
  create' = [create EXCEPT ![c].pc = "done", ![c].outcome = outcome]

Unlock(p) == rowLock' = [rowLock EXCEPT ![p] = None]

(* The request arrives; findProposalById; a proposal of somebody else is   *)
(* reported as missing.                                                    *)
BeginCreate(c, u, p, s) ==
  /\ create[c].pc = "idle"
  /\ LET found == p \in proposals /\ Owner[p] = u
     IN  create' = [create EXCEPT ![c] =
           [pc |-> IF found THEN "readSlot" ELSE "done",
            user |-> u, proposal |-> p, slot |-> s, at |-> None,
            outcome |-> IF found THEN "none" ELSE "proposalNotFound"]]
  /\ UNCHANGED <<Tables, rowLock, cancel, notices>>

(* findProposalTimeById: a slot of this proposal, remembered with its time.*)
(* A slot whose time has passed is refused; the clock is not modelled, so  *)
(* any slot may be refused.                                                *)
ReadSlot(c) ==
  /\ create[c].pc = "readSlot"
  /\ \/ /\ LiveSlotOf(create[c].slot, create[c].proposal)
        /\ create' = [create EXCEPT ![c].pc = "precheck",
                                    ![c].at = slots[create[c].slot].at]
     \/ AnswerCreate(c, "timeNotFound")
  /\ UNCHANGED <<Tables, rowLock, cancel, notices>>

(* existsByProposalId, outside the transaction: only a fast path. *)
PreCheck(c) ==
  /\ create[c].pc = "precheck"
  /\ IF ActiveOf(create[c].proposal) = {}
     THEN GoTo(c, "lock")
     ELSE AnswerCreate(c, "alreadyReserved")
  /\ UNCHANGED <<Tables, rowLock, cancel, notices>>

(* Variant: a plain SELECT, which locks nothing. *)
LockProposalShared(c) ==
  /\ create[c].pc = "lock"
  /\ GoTo(c, "count")
  /\ UNCHANGED <<Tables, rowLock, cancel, notices>>

(* SELECT id FROM estimate_responses WHERE id = ... FOR UPDATE *)
LockProposal(c) ==
  LET p == create[c].proposal IN
  /\ create[c].pc = "lock"
  /\ rowLock[p] = None
  /\ rowLock' = [rowLock EXCEPT ![p] = c]
  /\ GoTo(c, "count")
  /\ UNCHANGED <<Tables, cancel, notices>>

(* Variant: the conflict is answered without ending the transaction. *)
CountActiveNoRollback(c) ==
  /\ create[c].pc = "count"
  /\ IF ActiveOf(create[c].proposal) = {}
     THEN GoTo(c, "insert")
     ELSE AnswerCreate(c, "alreadyReserved")
  /\ UNCHANGED <<Tables, rowLock, cancel, notices>>

(* The count under the lock; a conflict throws and rolls back. *)
CountActive(c) ==
  LET p == create[c].proposal IN
  /\ create[c].pc = "count"
  /\ \/ /\ ActiveOf(p) = {}
        /\ GoTo(c, "insert")
        /\ UNCHANGED rowLock
     \/ /\ ActiveOf(p) # {}
        /\ AnswerCreate(c, "alreadyReserved")
        /\ Unlock(p)
  /\ UNCHANGED <<Tables, cancel, notices>>

(* Variant: the insert runs outside the transaction. *)
InsertReservationOutside(c) ==
  /\ create[c].pc = "insert"
  /\ GoTo(c, "select")
  /\ reservation' = [reservation EXCEPT ![c] =
       [status |-> "CONFIRMED", proposal |-> create[c].proposal,
        user |-> create[c].user, at |-> create[c].at]]
  /\ UNCHANGED <<proposals, slots, rowLock, cancel, notices>>

(* INSERT INTO reservations: written, not yet visible. *)
InsertReservation(c) ==
  /\ create[c].pc = "insert"
  /\ GoTo(c, "select")
  /\ UNCHANGED <<Tables, rowLock, cancel, notices>>

(* Variant: updateMany, which does not mind that the slot is gone. *)
SelectSlotMany(c) ==
  /\ create[c].pc = "select"
  /\ GoTo(c, "commit")
  /\ UNCHANGED <<Tables, rowLock, cancel, notices>>

(* UPDATE shop_proposal_times SET is_selected: if a re-parse deleted the   *)
(* slot meanwhile, P2025 rolls the insert back.                            *)
SelectSlot(c) ==
  LET p == create[c].proposal IN
  /\ create[c].pc = "select"
  /\ \/ /\ LiveSlotOf(create[c].slot, p)
        /\ GoTo(c, "commit")
        /\ UNCHANGED rowLock
     \/ /\ ~LiveSlotOf(create[c].slot, p)
        /\ AnswerCreate(c, "timeNotFound")
        /\ Unlock(p)
  /\ UNCHANGED <<Tables, cancel, notices>>

(* COMMIT publishes the row and the selected slot and frees the lock; its  *)
(* acknowledgement may get lost, and the answer is 500.                    *)
Commit(c) ==
  /\ create[c].pc = "commit"
  /\ reservation' = [reservation EXCEPT ![c] =
       [status |-> "CONFIRMED", proposal |-> create[c].proposal,
        user |-> create[c].user, at |-> create[c].at]]
  /\ slots' = [slots EXCEPT ![create[c].slot].selected = TRUE]
  /\ Unlock(create[c].proposal)
  /\ GoTo(c, "notify") \/ AnswerCreate(c, "unconfirmed")
  /\ UNCHANGED <<proposals, cancel, notices>>

(* Prisma ends an interactive transaction that waits or runs too long, and *)
(* the database may refuse it (deadlock, lost connection): rolled back.    *)
AbortCreate(c) ==
  LET p == create[c].proposal IN
  /\ create[c].pc \in InTransaction \union {"lock"}
  /\ AnswerCreate(c, "failed")
  /\ IF create[c].pc = "lock" THEN UNCHANGED rowLock ELSE Unlock(p)
  /\ UNCHANGED <<Tables, cancel, notices>>

(* safeNotify: a failure is swallowed, the answer is 201 all the same. *)
NotifyCreated(c) ==
  /\ create[c].pc = "notify"
  /\ AnswerCreate(c, "created")
  /\ \/ notices' = notices \union
          {[type |-> "RESERVATION_CONFIRMED", row |-> c, from |-> c]}
     \/ UNCHANGED notices
  /\ UNCHANGED <<Tables, rowLock, cancel>>

CreateStep(c) ==
  \/ ReadSlot(c) \/ PreCheck(c) \/ LockProposal(c) \/ CountActive(c)
  \/ InsertReservation(c) \/ SelectSlot(c) \/ Commit(c) \/ AbortCreate(c)
  \/ NotifyCreated(c)

-----------------------------------------------------------------------------
(* cancelReservation *)

AnswerCancel(k, outcome) ==
  cancel' = [cancel EXCEPT ![k].pc = "done", ![k].outcome = outcome]

(* findStatusByIdAndUserId and the check of the status it returned. *)
BeginCancel(k, u, r) ==
  LET own == Exists(r) /\ reservation[r].user = u
      open == own /\ reservation[r].status = "CONFIRMED"
  IN
  /\ cancel[k].pc = "idle"
  /\ cancel' = [cancel EXCEPT ![k] =
       [pc |-> IF open THEN "update" ELSE "done", user |-> u, row |-> r,
        outcome |-> IF open THEN "none"
                    ELSE IF own THEN "alreadyFinalized" ELSE "notFound"]]
  /\ UNCHANGED <<Tables, rowLock, create, notices>>

(* Variant: the update is not conditional on the status. *)
CancelUpdateAlways(k) ==
  /\ cancel[k].pc = "update"
  /\ reservation' = [reservation EXCEPT ![cancel[k].row].status = "CANCELLED"]
  /\ cancel' = [cancel EXCEPT ![k].pc = "reread"]
  /\ UNCHANGED <<proposals, slots, rowLock, create, notices>>

(* Variant: the update clears the row's columns instead of its status. *)
CancelUpdateClears(k) ==
  /\ cancel[k].pc = "update"
  /\ reservation' = [reservation EXCEPT ![cancel[k].row].status = None]
  /\ cancel' = [cancel EXCEPT ![k].pc = "reread"]
  /\ UNCHANGED <<proposals, slots, rowLock, create, notices>>

(* updateMany ... WHERE id AND userId AND status = 'CONFIRMED', committed  *)
(* at once.  The slot stays selected.                                      *)
CancelUpdate(k) ==
  LET r == cancel[k].row IN
  /\ cancel[k].pc = "update"
  /\ \/ /\ reservation[r].status = "CONFIRMED"
        /\ reservation[r].user = cancel[k].user
        /\ reservation' = [reservation EXCEPT ![r].status = "CANCELLED"]
        /\ cancel' = [cancel EXCEPT ![k].pc = "reread"]
     \/ /\ \/ reservation[r].status # "CONFIRMED"
           \/ reservation[r].user # cancel[k].user
        /\ AnswerCancel(k, "alreadyFinalized")
        /\ UNCHANGED reservation
  /\ UNCHANGED <<proposals, slots, rowLock, create, notices>>

(* findUniqueOrThrow, for the row that was just cancelled. *)
ReadCancelled(k) ==
  /\ cancel[k].pc = "reread"
  /\ Exists(cancel[k].row)
  /\ cancel' = [cancel EXCEPT ![k].pc = "notify"]
  /\ UNCHANGED <<Tables, rowLock, create, notices>>

(* The update fails (connection, deadlock), or the read after it, when the *)
(* reservation is cancelled already: RESERVATION_FAILED, and no notice.    *)
CancelFails(k) ==
  /\ \/ cancel[k].pc = "update" /\ AnswerCancel(k, "failed")
     \/ cancel[k].pc = "reread" /\ AnswerCancel(k, "unconfirmed")
  /\ UNCHANGED <<Tables, rowLock, create, notices>>

NotifyCancelled(k) ==
  /\ cancel[k].pc = "notify"
  /\ AnswerCancel(k, "cancelled")
  /\ \/ notices' = notices \union
          {[type |-> "RESERVATION_CANCELLED", row |-> cancel[k].row, from |-> k]}
     \/ UNCHANGED notices
  /\ UNCHANGED <<Tables, rowLock, create>>

CancelStep(k) ==
  CancelUpdate(k) \/ ReadCancelled(k) \/ CancelFails(k) \/ NotifyCancelled(k)

-----------------------------------------------------------------------------
(* The environment *)

(* A visit took place.  No code under src/ sets COMPLETED, though reviews  *)
(* and the lists rely on it: it is set in the database by hand.            *)
CompleteVisit(r) ==
  /\ reservation[r].status = "CONFIRMED"
  /\ reservation' = [reservation EXCEPT ![r].status = "COMPLETED"]
  /\ UNCHANGED <<proposals, slots, rowLock, create, cancel, notices>>

(* The upsert of saveParsedEstimateResponse locks the proposal row. *)
SaverLocks(v, p) ==
  /\ rowLock[p] = None
  /\ rowLock' = [rowLock EXCEPT ![p] = v]
  /\ UNCHANGED <<Tables, create, cancel, notices>>

(* Its commit: the proposal exists, its unselected slots are gone and new  *)
(* slots, at[s] for s in added, have taken unused ids.                     *)
SaverCommits(v, p, added, at) ==
  /\ rowLock[p] = v
  /\ \A s \in added : slots[s].state = "unused"
  /\ slots' = [s \in Slots |->
       IF s \in added
       THEN [state |-> "live", proposal |-> p, at |-> at[s], selected |-> FALSE]
       ELSE IF LiveSlotOf(s, p) /\ ~slots[s].selected
            THEN [slots[s] EXCEPT !.state = "deleted"]
            ELSE slots[s]]
  /\ proposals' = proposals \union {p}
  /\ Unlock(p)
  /\ UNCHANGED <<reservation, create, cancel, notices>>

SaverAborts(v, p) ==
  /\ rowLock[p] = v
  /\ Unlock(p)
  /\ UNCHANGED <<Tables, create, cancel, notices>>

SaverEnds(v, p) ==
  \/ \E added \in SUBSET Slots : \E at \in [added -> Times] :
       SaverCommits(v, p, added, at)
  \/ SaverAborts(v, p)

(* The server process dies: requests in flight are never answered, the     *)
(* database rolls open transactions back.                                  *)
ServerCrash ==
  /\ create' = [c \in Creates |->
       IF create[c].pc \in {"idle", "done"} THEN create[c]
       ELSE [create[c] EXCEPT !.pc = "done", !.outcome = "lost"]]
  /\ cancel' = [k \in Cancels |->
       IF cancel[k].pc \in {"idle", "done"} THEN cancel[k]
       ELSE [cancel[k] EXCEPT !.pc = "done", !.outcome = "lost"]]
  /\ rowLock' = [p \in Proposals |-> None]
  /\ UNCHANGED <<Tables, notices>>

Environment ==
  \/ \E r \in Creates : CompleteVisit(r)
  \/ \E v \in Savers, p \in Proposals : SaverLocks(v, p) \/ SaverEnds(v, p)
  \/ ServerCrash

Next ==
  \/ \E c \in Creates :
       \/ \E u \in Users, p \in Proposals, s \in Slots : BeginCreate(c, u, p, s)
       \/ CreateStep(c)
  \/ \E k \in Cancels :
       \/ \E u \in Users, r \in Creates : BeginCancel(k, u, r)
       \/ CancelStep(k)
  \/ Environment

Spec == Init /\ [][Next]_vars

(* A request that arrived goes on: Node resumes it when its statement      *)
(* returns, and waiting for the lock ends, at the latest by the transaction*)
(* timeout.  A saver's transaction ends for the same reason.  Arrivals,    *)
(* visits and crashes are not fair.                                        *)
Fairness ==
  /\ \A c \in Creates : WF_vars(CreateStep(c))
  /\ \A k \in Cancels : WF_vars(CancelStep(k))
  /\ \A v \in Savers, p \in Proposals : WF_vars(SaverEnds(v, p))

FairSpec == Spec /\ Fairness

-----------------------------------------------------------------------------
(* Properties *)

(* However create requests for one proposal interleave with each other,    *)
(* with cancellations and with re-parses, the proposal has at most one     *)
(* reservation that is not cancelled: what the schema gave up enforcing    *)
(* when proposalId lost its unique constraint.                             *)
OneActivePerProposal ==
  \A c, d \in Creates :
    /\ Active(c)
    /\ Active(d)
    /\ reservation[c].proposal = reservation[d].proposal
    => c = d

(* The slot a reservation was made for is still there, selected and at the *)
(* reserved time, whatever re-parses came between reading the slot and     *)
(* committing, or later.  (The row keeps the time, not the slot.)          *)
ReservedSlotKept ==
  \A c \in Creates : Exists(c) =>
    \E s \in Slots :
      /\ LiveSlotOf(s, reservation[c].proposal)
      /\ slots[s].selected
      /\ slots[s].at = reservation[c].at

(* No slot is marked selected by a transaction that rolled back: each      *)
(* selected slot has a reservation of its proposal at its time.            *)
SelectionHasReservation ==
  \A s \in Slots : slots[s].selected =>
    \E c \in Creates :
      /\ Exists(c)
      /\ reservation[c].proposal = slots[s].proposal
      /\ reservation[c].at = slots[s].at

(* The times of a proposal and its reservations say the same: what was     *)
(* reserved is selected, and only what was reserved is.                    *)
SlotsMatchReservations == ReservedSlotKept /\ SelectionHasReservation

(* 201 is answered only for a row that is there, an error only when there  *)
(* is none; but for the 500 that follows a commit the server was not told  *)
(* of, which finds the row there.                                          *)
AnswerMatchesDatabase ==
  \A c \in Creates :
    /\ create[c].outcome \in {"created", "unconfirmed"} => Exists(c)
    /\ create[c].outcome \in {"proposalNotFound", "timeNotFound",
                              "alreadyReserved", "failed"} => ~Exists(c)

(* Of all concurrent cancel requests for a reservation at most one         *)
(* succeeds, and is told so, or 500 if the read after its update failed;   *)
(* 409 is answered only if the reservation is over.                        *)
CancelledOnce ==
  /\ \A k, l \in Cancels :
       /\ {cancel[k].outcome, cancel[l].outcome} \subseteq {"cancelled", "unconfirmed"}
       /\ cancel[k].row = cancel[l].row
       => k = l
  /\ \A k \in Cancels :
       /\ cancel[k].outcome \in {"cancelled", "unconfirmed"} =>
            reservation[cancel[k].row].status = "CANCELLED"
       /\ cancel[k].outcome = "alreadyFinalized" =>
            reservation[cancel[k].row].status \in {"COMPLETED", "CANCELLED"}

(* A cancelled row has a request that did it, which has answered so, is    *)
(* about to, or broke off after the update (500, crash): nobody is refused *)
(* because of the very cancellation that he made.                          *)
OwnsUp(k) ==
  \/ cancel[k].pc \in {"reread", "notify"}
  \/ cancel[k].outcome \in {"cancelled", "unconfirmed", "lost"}

NoSilentCancellation ==
  \A c \in Creates : reservation[c].status = "CANCELLED" =>
    \E k \in Cancels : cancel[k].row = c /\ OwnsUp(k)

(* A user is notified of a reservation once and of its cancellation once,  *)
(* of the latter only by the request that answers "cancelled", and both    *)
(* are true.  That a notice arrives is not promised.                       *)
NoticesTrue ==
  /\ \A n, m \in notices : n.type = m.type /\ n.row = m.row => n = m
  /\ \A n \in notices :
       /\ Exists(n.row)
       /\ n.type = "RESERVATION_CANCELLED" =>
            /\ reservation[n.row].status = "CANCELLED"
            /\ cancel[n.from].outcome = "cancelled"

(* What clients are told is true, of creations and of cancellations, by    *)
(* answers and by notices, through timeouts, conflicts, lost races and     *)
(* failures after the write.                                               *)
ClientsToldTheTruth ==
  AnswerMatchesDatabase /\ CancelledOnce /\ NoSilentCancellation /\ NoticesTrue

(* A reservation belongs to the user whose estimate request the proposal   *)
(* answers, and only that user cancelled it: although ownership is read    *)
(* once and the write comes many statements later.                         *)
OwnersOnly ==
  \A c \in Creates :
    /\ Exists(c) => reservation[c].user = Owner[reservation[c].proposal]
    /\ reservation[c].status = "CANCELLED" =>
         \E k \in Cancels :
           cancel[k].row = c /\ cancel[k].user = reservation[c].user

(* A finished reservation is final: a cancel request that read CONFIRMED   *)
(* before the visit was completed, or before another request cancelled,    *)
(* changes nothing; and no row ever disappears or changes hands.           *)
FinalStatusStep ==
  \A c \in Creates :
    /\ reservation[c].status \in {"COMPLETED", "CANCELLED"} =>
         reservation'[c].status = reservation[c].status
    /\ Exists(c) =>
         /\ Exists(c)'
         /\ reservation'[c].proposal = reservation[c].proposal
         /\ reservation'[c].user = reservation[c].user
         /\ reservation'[c].at = reservation[c].at
FinalStatusFrozen == [][FinalStatusStep]_vars

(* Every request that arrived is answered (or lost in a crash).  *)
EveryRequestAnswered ==
  /\ \A c \in Creates : create[c].pc # "idle" ~> create[c].pc = "done"
  /\ \A k \in Cancels : cancel[k].pc # "idle" ~> cancel[k].pc = "done"

(* No path out of a transaction keeps the proposal row locked. *)
LockReleased ==
  \A p \in Proposals : []<>(rowLock[p] = None)

(* A request for a reservation, or of a cancellation, comes to its end and *)
(* leaves no lock behind, whatever fails on the way.                       *)
RequestsEnd == EveryRequestAnswered /\ LockReleased

(* The component implements the abstract booking of Booking.tla. *)
Bookings == INSTANCE Booking WITH
  Rows <- Creates,
  booked <- [p \in Proposals |-> ActiveOf(p)],
  released <- {r \in Creates : reservation[r].status = "CANCELLED"}
ImplementsBooking == Bookings!Spec

(* "A user can choose only one of the time slots a shop proposed"          *)
(* (ai/PROJECT.md): refuted, because cancelling leaves the slot selected   *)
(* and a new reservation of the same proposal selects another one.         *)
OneSelectedSlotPerProposal ==
  \A s, t \in Slots :
    /\ slots[s].selected /\ slots[t].selected
    /\ slots[s].proposal = slots[t].proposal
    => s = t
=============================================================================
