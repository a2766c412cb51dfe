-------------------------- MODULE ReservationProofs ---------------------------
(***************************************************************************)
(* Theorems about Reservation for any number of users, proposals, slots    *)
(* and concurrent requests: first that no booking is made twice            *)
(* (BookingInv), then, on top of it, what a reservation promises to the    *)
(* two sides (RowInv).                                                     *)
(***************************************************************************)
EXTENDS Reservation, TLAPS

-----------------------------------------------------------------------------
(* A request that arrived carries its parameters.                          *)
Arrived ==
  /\ \A c \in Creates : create[c].pc # "idle" =>
       /\ create[c].user \in Users
       /\ create[c].proposal \in Proposals
       /\ create[c].slot \in Slots
  /\ \A k \in Cancels : cancel[k].pc # "idle" => cancel[k].row \in Creates

LEMMA ArrivedStep == TypeOK /\ Arrived /\ [Next]_vars => Arrived'
<1> SUFFICES ASSUME TypeOK, Arrived, [Next]_vars PROVE Arrived'
  OBVIOUS
<1> USE DEF TypeOK, Arrived
<1>1. ASSUME NEW c \in Creates, NEW u \in Users, NEW p \in Proposals,
             NEW s \in Slots, BeginCreate(c, u, p, s)
      PROVE  Arrived'
  BY <1>1 DEF BeginCreate
<1>2. ASSUME NEW c \in Creates, CreateStep(c) PROVE Arrived'
  <2>1. /\ create[c].pc # "idle"
        /\ \A d \in Creates :
             /\ d # c => create'[d] = create[d]
             /\ create'[d].user = create[d].user
             /\ create'[d].proposal = create[d].proposal
             /\ create'[d].slot = create[d].slot
        /\ cancel' = cancel
    BY <1>2 DEF CreateStep, ReadSlot, PreCheck, LockProposal, CountActive,
         InsertReservation, SelectSlot, Commit, AbortCreate, NotifyCreated,
         GoTo, AnswerCreate, InTransaction, CreateRequest
  <2>2. QED
    BY <2>1
<1>3. ASSUME NEW k \in Cancels, NEW u \in Users, NEW r \in Creates,
             BeginCancel(k, u, r)
      PROVE  Arrived'
  BY <1>3 DEF BeginCancel
<1>4. ASSUME NEW k \in Cancels, CancelStep(k) PROVE Arrived'
  <2>1. /\ cancel[k].pc # "idle"
        /\ \A l \in Cancels :
             /\ l # k => cancel'[l] = cancel[l]
             /\ cancel'[l].row = cancel[l].row
        /\ create' = create
    BY <1>4 DEF CancelStep, CancelUpdate, ReadCancelled, CancelFails, NotifyCancelled,
         AnswerCancel, CancelRequest
  <2>2. QED
    BY <2>1
<1>5. CASE Environment
  <2>1. CASE ServerCrash
    <3>1. \A c \in Creates :
            /\ create'[c].user = create[c].user
            /\ create'[c].proposal = create[c].proposal
            /\ create'[c].slot = create[c].slot
            /\ create'[c].pc # "idle" => create[c].pc # "idle"
      BY <2>1 DEF ServerCrash, CreateRequest
    <3>2. \A k \in Cancels :
            /\ cancel'[k].row = cancel[k].row
            /\ cancel'[k].pc # "idle" => cancel[k].pc # "idle"
      BY <2>1 DEF ServerCrash, CancelRequest
    <3>3. QED
      BY <3>1, <3>2
  <2>2. CASE create' = create /\ cancel' = cancel
    BY <2>2
  <2>3. QED
    BY <1>5, <2>1, <2>2 DEF Environment, CompleteVisit, SaverLocks, SaverEnds,
         SaverCommits, SaverAborts
<1>6. CASE UNCHANGED vars
  BY <1>6 DEF vars
<1>7. QED
  BY <1>1, <1>2, <1>3, <1>4, <1>5, <1>6 DEF Next

(* What each step may write to the variables, used by the type proof: an   *)
(* answer or a change of program point keeps a request a request.          *)
LEMMA GoToType ==
  ASSUME TypeOK, NEW c \in Creates, NEW pc \in CreatePoint, GoTo(c, pc)
  PROVE  create' \in [Creates -> CreateRequest]
BY DEF TypeOK, GoTo, CreateRequest, CreatePoint

LEMMA AnswerCreateType ==
  ASSUME TypeOK, NEW c \in Creates, NEW o \in CreateOutcome, AnswerCreate(c, o)
  PROVE  create' \in [Creates -> CreateRequest]
<1>1. [create[c] EXCEPT !.pc = "done", !.outcome = o] \in CreateRequest
  BY DEF TypeOK, CreateRequest, CreatePoint
<1>2. create' = [create EXCEPT ![c] = [create[c] EXCEPT !.pc = "done", !.outcome = o]]
  BY DEF AnswerCreate
<1>3. QED
  BY <1>1, <1>2 DEF TypeOK

LEMMA AnswerCancelType ==
  ASSUME TypeOK, NEW k \in Cancels,
         NEW o \in {"cancelled", "alreadyFinalized", "failed", "unconfirmed"},
         AnswerCancel(k, o)
  PROVE  cancel' \in [Cancels -> CancelRequest]
<1>1. [cancel[k] EXCEPT !.pc = "done", !.outcome = o] \in CancelRequest
  BY DEF TypeOK, CancelRequest
<1>2. cancel' = [cancel EXCEPT ![k] = [cancel[k] EXCEPT !.pc = "done", !.outcome = o]]
  BY DEF AnswerCancel
<1>3. QED
  BY <1>1, <1>2 DEF TypeOK

(* Type correctness is inductive.                                          *)
LEMMA TypeStep == TypeOK /\ Arrived /\ [Next]_vars => TypeOK'
<1> SUFFICES ASSUME TypeOK, Arrived, [Next]_vars PROVE TypeOK'
  OBVIOUS
<1> USE DEF Tables
<1>1. ASSUME NEW c \in Creates, NEW u \in Users, NEW p \in Proposals,
             NEW s \in Slots, BeginCreate(c, u, p, s)
      PROVE  TypeOK'
  BY <1>1 DEF BeginCreate, TypeOK, CreateRequest, CreatePoint, CreateOutcome
<1>2. ASSUME NEW c \in Creates, ReadSlot(c) PROVE TypeOK'
  <2>1. CASE AnswerCreate(c, "timeNotFound")
    BY <1>2, <2>1, AnswerCreateType DEF ReadSlot, TypeOK, CreateOutcome
  <2>2. CASE /\ create[c].pc = "readSlot"
             /\ LiveSlotOf(create[c].slot, create[c].proposal)
             /\ create' = [create EXCEPT ![c].pc = "precheck",
                                         ![c].at = slots[create[c].slot].at]
    <3>1. create[c].slot \in Slots
      BY <2>2 DEF Arrived
    <3>2. slots[create[c].slot].at \in Times \union {None}
      BY <1>2, <2>2, <3>1 DEF TypeOK, SlotRow
    <3>3. [create[c] EXCEPT !.pc = "precheck", !.at = slots[create[c].slot].at]
            \in CreateRequest
      BY <3>2 DEF TypeOK, CreateRequest, CreatePoint
    <3>4. create' = [create EXCEPT ![c] =
            [create[c] EXCEPT !.pc = "precheck", !.at = slots[create[c].slot].at]]
      BY <2>2
    <3>5. QED
      BY <1>2, <3>3, <3>4 DEF ReadSlot, TypeOK
  <2>3. QED
    BY <1>2, <2>1, <2>2 DEF ReadSlot
<1>3. ASSUME NEW c \in Creates, PreCheck(c) PROVE TypeOK'
  BY <1>3, GoToType, AnswerCreateType
     DEF PreCheck, TypeOK, CreatePoint, CreateOutcome
<1>4. ASSUME NEW c \in Creates, LockProposal(c) PROVE TypeOK'
  BY <1>4, GoToType DEF LockProposal, TypeOK, CreatePoint, InTransaction
<1>5. ASSUME NEW c \in Creates, CountActive(c) PROVE TypeOK'
  BY <1>5, GoToType, AnswerCreateType
     DEF CountActive, Unlock, TypeOK, CreatePoint, InTransaction, CreateOutcome
<1>6. ASSUME NEW c \in Creates, InsertReservation(c) PROVE TypeOK'
  BY <1>6, GoToType DEF InsertReservation, TypeOK, CreatePoint, InTransaction
<1>7. ASSUME NEW c \in Creates, SelectSlot(c) PROVE TypeOK'
  BY <1>7, GoToType, AnswerCreateType
     DEF SelectSlot, Unlock, TypeOK, CreatePoint, InTransaction, CreateOutcome
<1>8. ASSUME NEW c \in Creates, Commit(c) PROVE TypeOK'
  <2>1. create' \in [Creates -> CreateRequest]
    BY <1>8, GoToType, AnswerCreateType DEF Commit, CreatePoint, CreateOutcome
  <2>2. reservation' \in [Creates -> ReservationRow]
    BY <1>8 DEF Commit, TypeOK, ReservationRow, CreateRequest
  <2>3. slots' \in [Slots -> SlotRow]
    BY <1>8, ZenonT(60) DEF Commit, TypeOK, SlotRow
  <2>4. QED
    BY <1>8, <2>1, <2>2, <2>3 DEF Commit, Unlock, TypeOK
<1>9. ASSUME NEW c \in Creates, AbortCreate(c) PROVE TypeOK'
  BY <1>9, AnswerCreateType DEF AbortCreate, Unlock, TypeOK, CreateOutcome
<1>10. ASSUME NEW c \in Creates, NotifyCreated(c) PROVE TypeOK'
  BY <1>10, AnswerCreateType DEF NotifyCreated, TypeOK, CreateOutcome, Notice
<1>11. ASSUME NEW k \in Cancels, NEW u \in Users, NEW r \in Creates,
              BeginCancel(k, u, r)
       PROVE  TypeOK'
  BY <1>11 DEF BeginCancel, TypeOK, CancelRequest
<1>12. ASSUME NEW k \in Cancels, CancelUpdate(k) PROVE TypeOK'
  <2>1. cancel' \in [Cancels -> CancelRequest]
    BY <1>12, AnswerCancelType DEF CancelUpdate, TypeOK, CancelRequest
  <2>2. reservation' \in [Creates -> ReservationRow]
    BY <1>12, SMTT(30) DEF CancelUpdate, TypeOK, Arrived, ReservationRow
  <2>3. QED
    BY <1>12, <2>1, <2>2 DEF CancelUpdate, TypeOK
<1>13. ASSUME NEW k \in Cancels, CancelFails(k) PROVE TypeOK'
  BY <1>13, AnswerCancelType DEF CancelFails, TypeOK
<1>14. ASSUME NEW k \in Cancels, NotifyCancelled(k) PROVE TypeOK'
  <2>1. cancel' \in [Cancels -> CancelRequest]
    BY <1>14, AnswerCancelType DEF NotifyCancelled
  <2>2. QED
    BY <1>14, <2>1 DEF NotifyCancelled, TypeOK, Arrived, Notice
<1>15. ASSUME NEW r \in Creates, CompleteVisit(r) PROVE TypeOK'
  BY <1>15 DEF CompleteVisit, TypeOK, ReservationRow
<1>16. ASSUME NEW v \in Savers, NEW p \in Proposals, SaverLocks(v, p)
       PROVE  TypeOK'
  BY <1>16 DEF SaverLocks, TypeOK
<1>17. ASSUME NEW v \in Savers, NEW p \in Proposals, NEW added \in SUBSET Slots,
              NEW at \in [added -> Times], SaverCommits(v, p, added, at)
       PROVE  TypeOK'
  <2>1. slots' \in [Slots -> SlotRow]
    BY <1>17 DEF SaverCommits, TypeOK, SlotRow
  <2>2. QED
    BY <1>17, <2>1 DEF SaverCommits, Unlock, TypeOK
<1>18. ASSUME NEW v \in Savers, NEW p \in Proposals, SaverAborts(v, p)
       PROVE  TypeOK'
  BY <1>18 DEF SaverAborts, Unlock, TypeOK
<1>19. CASE ServerCrash
  <2>1. create' \in [Creates -> CreateRequest]
    <3>1. \A c \in Creates :
            [create[c] EXCEPT !.pc = "done", !.outcome = "lost"] \in CreateRequest
      BY DEF TypeOK, CreateRequest, CreatePoint, CreateOutcome
    <3>2. QED
      BY <1>19, <3>1 DEF ServerCrash, TypeOK
  <2>2. cancel' \in [Cancels -> CancelRequest]
    <3>1. \A k \in Cancels :
            [cancel[k] EXCEPT !.pc = "done", !.outcome = "lost"] \in CancelRequest
      BY DEF TypeOK, CancelRequest
    <3>2. QED
      BY <1>19, <3>1 DEF ServerCrash, TypeOK
  <2>3. QED
    BY <1>19, <2>1, <2>2 DEF ServerCrash, TypeOK
<1>20. CASE UNCHANGED vars
  BY <1>20 DEF vars, TypeOK
<1>21. ASSUME NEW k \in Cancels, ReadCancelled(k) PROVE TypeOK'
  BY <1>21 DEF ReadCancelled, TypeOK, CancelRequest
<1>22. QED
  BY <1>1, <1>2, <1>3, <1>4, <1>5, <1>6, <1>7, <1>8, <1>9, <1>10, <1>11, <1>12,
     <1>13, <1>14, <1>15, <1>16, <1>17, <1>18, <1>19, <1>20, <1>21
     DEF Next, CreateStep, CancelStep, Environment, SaverEnds

LEMMA InitTyped == Init => TypeOK /\ Arrived
BY DEF Init, TypeOK, Arrived, SlotRow, UnusedSlot, ReservationRow, NoReservation,
       CreateRequest, CreatePoint, CreateOutcome, CancelRequest

(* Every variable keeps its type in every reachable state.                 *)
THEOREM TypeCorrect == Spec => []TypeOK
<1>1. TypeOK /\ Arrived /\ [Next]_vars => (TypeOK /\ Arrived)'
  BY TypeStep, ArrivedStep
<1>2. QED
  BY <1>1, InitTyped, PTL DEF Spec

-----------------------------------------------------------------------------
(* One reservation per proposal.  The counting is done in the transaction  *)
(* and the row appears at its commit; what keeps the count true in between *)
(* is the lock: whoever holds a transaction open on a proposal is the one  *)
(* whose name is on the proposal row (Locking), and only such a            *)
(* transaction makes a reservation of that proposal appear.                *)

Locking ==
  \A c \in Creates :
    create[c].pc \in InTransaction => rowLock[create[c].proposal] = c

CountStillHolds ==
  \A c \in Creates :
    create[c].pc \in {"insert", "select", "commit"} =>
      ActiveOf(create[c].proposal) = {}

RowMatchesRequest ==
  \A c \in Creates : Exists(c) =>
    /\ create[c].pc \in {"notify", "done"}
    /\ create[c].proposal \in Proposals
    /\ reservation[c].proposal = create[c].proposal
    /\ reservation[c].user = create[c].user
    /\ reservation[c].at = create[c].at

BookingInv ==
  /\ TypeOK
  /\ Arrived
  /\ Locking
  /\ CountStillHolds
  /\ RowMatchesRequest
  /\ OneActivePerProposal

(* What a change of program point, or an answer, leaves alone.             *)
LEMMA GoToEffect ==
  ASSUME TypeOK, NEW c \in Creates, NEW pc, GoTo(c, pc)
  PROVE  /\ \A d \in Creates : d # c => create'[d] = create[d]
         /\ create'[c].pc = pc
         /\ create'[c].user = create[c].user
         /\ create'[c].proposal = create[c].proposal
         /\ create'[c].slot = create[c].slot
         /\ create'[c].at = create[c].at
BY DEF GoTo, TypeOK, CreateRequest

LEMMA AnswerEffect ==
  ASSUME TypeOK, NEW c \in Creates, NEW o, AnswerCreate(c, o)
  PROVE  /\ \A d \in Creates : d # c => create'[d] = create[d]
         /\ create'[c].pc = "done"
         /\ create'[c].user = create[c].user
         /\ create'[c].proposal = create[c].proposal
         /\ create'[c].slot = create[c].slot
         /\ create'[c].at = create[c].at
BY DEF AnswerCreate, TypeOK, CreateRequest

LEMMA LockingStep == BookingInv /\ [Next]_vars => Locking'
<1> SUFFICES ASSUME BookingInv, [Next]_vars PROVE Locking'
  OBVIOUS
<1> USE DEF BookingInv, TypeOK, Locking, InTransaction, Tables
<1>1. ASSUME NEW c \in Creates, NEW u \in Users, NEW p \in Proposals,
             NEW s \in Slots, BeginCreate(c, u, p, s)
      PROVE  Locking'
  BY <1>1 DEF BeginCreate
<1>2. ASSUME NEW c \in Creates, ReadSlot(c) PROVE Locking'
  BY <1>2, AnswerEffect DEF ReadSlot, CreateRequest
<1>3. ASSUME NEW c \in Creates, PreCheck(c) PROVE Locking'
  BY <1>3, GoToEffect, AnswerEffect DEF PreCheck
<1>4. ASSUME NEW c \in Creates, LockProposal(c) PROVE Locking'
  BY <1>4, GoToEffect, NoneAssumption DEF LockProposal, Arrived
<1>5. ASSUME NEW c \in Creates, create[c].pc \in InTransaction,
             Unlock(create[c].proposal),
             \A d \in Creates : d # c => create'[d] = create[d],
             create'[c].pc \notin InTransaction
      PROVE  Locking'
  BY <1>5 DEF Unlock, Arrived
<1>6. ASSUME NEW c \in Creates, NEW pc \in InTransaction, GoTo(c, pc),
             create[c].pc \in InTransaction, UNCHANGED rowLock
      PROVE  Locking'
  BY <1>6, GoToEffect
<1>7. ASSUME NEW c \in Creates,
             CountActive(c) \/ InsertReservation(c) \/ SelectSlot(c)
      PROVE  Locking'
  BY <1>7, <1>5, <1>6, AnswerEffect DEF CountActive, InsertReservation, SelectSlot
<1>8. ASSUME NEW c \in Creates, Commit(c) PROVE Locking'
  BY <1>8, <1>5, GoToEffect, AnswerEffect DEF Commit
<1>9. ASSUME NEW c \in Creates, AbortCreate(c) PROVE Locking'
  BY <1>9, <1>5, AnswerEffect DEF AbortCreate
<1>10. ASSUME NEW c \in Creates, NotifyCreated(c) PROVE Locking'
  BY <1>10, AnswerEffect DEF NotifyCreated
<1>11. CASE UNCHANGED <<create, rowLock>>
  BY <1>11
<1>12. ASSUME NEW v \in Savers, NEW p \in Proposals, SaverLocks(v, p) PROVE Locking'
  BY <1>12, NoneAssumption DEF SaverLocks
<1>13. ASSUME NEW v \in Savers, NEW p \in Proposals, rowLock[p] = v, Unlock(p),
              UNCHANGED create
       PROVE  Locking'
  BY <1>13, TransactionsAssumption DEF Unlock
<1>14. CASE ServerCrash
  <2>1. \A c \in Creates : create'[c].pc \in {"idle", "done"}
    BY <1>14 DEF ServerCrash, CreateRequest
  <2>2. QED
    BY <2>1
<1>15. QED
  BY <1>1, <1>2, <1>3, <1>4, <1>7, <1>8, <1>9, <1>10, <1>11, <1>12, <1>13, <1>14
     DEF Next, CreateStep, CancelStep, Environment, SaverEnds, vars, BeginCancel,
       CancelUpdate, ReadCancelled, CancelFails, NotifyCancelled, CompleteVisit,
       SaverCommits, SaverAborts

(* Apart from Commit, a step changes nothing of a row but its status, and  *)
(* that only away from CONFIRMED.                                          *)
RowsOnlyClose ==
  \A r \in Creates :
    /\ reservation'[r].proposal = reservation[r].proposal
    /\ reservation'[r].user = reservation[r].user
    /\ reservation'[r].at = reservation[r].at
    /\ \/ reservation'[r].status = reservation[r].status
       \/ /\ reservation[r].status = "CONFIRMED"
          /\ reservation'[r].status \in {"COMPLETED", "CANCELLED"}

RowCloses(r, to) ==
  /\ reservation[r].status = "CONFIRMED"
  /\ reservation' = [reservation EXCEPT ![r].status = to]

LEMMA RowsStep ==
  ASSUME TypeOK, Arrived, [Next]_vars
  PROVE  \/ \E c \in Creates : Commit(c)
         \/ UNCHANGED reservation
         \/ \E r \in Creates, to \in {"COMPLETED", "CANCELLED"} : RowCloses(r, to)
<1>1. ASSUME NEW k \in Cancels, CancelUpdate(k)
      PROVE  \/ UNCHANGED reservation
             \/ \E r \in Creates : RowCloses(r, "CANCELLED")
  BY <1>1 DEF CancelUpdate, Arrived, RowCloses
<1>2. ASSUME NEW r \in Creates, CompleteVisit(r) PROVE RowCloses(r, "COMPLETED")
  BY <1>2 DEF CompleteVisit, RowCloses
<1>3. QED
  BY <1>1, <1>2
     DEF Next, CreateStep, CancelStep, Environment, SaverEnds, vars, Tables,
       BeginCreate, ReadSlot, PreCheck, LockProposal, CountActive,
       InsertReservation, SelectSlot, AbortCreate, NotifyCreated, BeginCancel,
       ReadCancelled, CancelFails, NotifyCancelled, SaverLocks, SaverCommits,
       SaverAborts, ServerCrash

LEMMA RowsCommitOrClose ==
  ASSUME TypeOK, Arrived, [Next]_vars
  PROVE  (\E c \in Creates : Commit(c)) \/ RowsOnlyClose
<1>1. CASE UNCHANGED reservation
  BY <1>1 DEF RowsOnlyClose
<1>2. ASSUME NEW r \in Creates, NEW to \in {"COMPLETED", "CANCELLED"}, RowCloses(r, to)
      PROVE  RowsOnlyClose
  BY <1>2 DEF RowCloses, RowsOnlyClose, TypeOK, ReservationRow
<1>3. QED
  BY <1>1, <1>2, RowsStep

LEMMA RowsOnlyCloseActive ==
  ASSUME TypeOK, RowsOnlyClose
  PROVE  /\ \A r \in Creates : Active(r)' => Active(r)
         /\ \A r \in Creates : Exists(r)' <=> Exists(r)
         /\ \A p : ActiveOf(p)' \subseteq ActiveOf(p)
BY DEF RowsOnlyClose, Active, Exists, ActiveOf, TypeOK, ReservationRow

(* The effect of Commit on the reservations.                               *)
LEMMA CommitEffect ==
  ASSUME TypeOK, Arrived, NEW c \in Creates, Commit(c)
  PROVE  /\ \A r \in Creates : r # c => reservation'[r] = reservation[r]
         /\ reservation'[c].status = "CONFIRMED"
         /\ reservation'[c].proposal = create[c].proposal
         /\ reservation'[c].user = create[c].user
         /\ reservation'[c].at = create[c].at
         /\ create'[c].pc \in {"notify", "done"}
         /\ create'[c].proposal = create[c].proposal
         /\ create'[c].user = create[c].user
         /\ create'[c].slot = create[c].slot
         /\ create'[c].at = create[c].at
         /\ \A d \in Creates : d # c => create'[d] = create[d]
         /\ create[c].pc = "commit"
BY GoToEffect, AnswerEffect DEF Commit, TypeOK, ReservationRow

(* How the program point of a create request moves.                        *)
LEMMA CreateMoves ==
  ASSUME TypeOK, Arrived, [Next]_vars, NEW c \in Creates,
         create[c].pc # "idle"
  PROVE  /\ create'[c].user = create[c].user
         /\ create'[c].proposal = create[c].proposal
         /\ create'[c].slot = create[c].slot
         /\ \/ create'[c].pc = create[c].pc
            \/ create'[c].pc = "done"
            \/ ReadSlot(c) \/ PreCheck(c) \/ LockProposal(c) \/ CountActive(c)
            \/ InsertReservation(c) \/ SelectSlot(c) \/ Commit(c)
<1>1. CASE UNCHANGED create
  BY <1>1
<1>2. ASSUME NEW d \in Creates, NEW u \in Users, NEW p \in Proposals,
             NEW s \in Slots, BeginCreate(d, u, p, s)
      PROVE  create'[c] = create[c]
  BY <1>2 DEF BeginCreate, TypeOK
<1>3. ASSUME NEW d \in Creates, CreateStep(d), d # c
      PROVE  create'[c] = create[c]
  BY <1>3 DEF CreateStep, ReadSlot, PreCheck, LockProposal, CountActive,
       InsertReservation, SelectSlot, Commit, AbortCreate, NotifyCreated,
       GoTo, AnswerCreate, TypeOK
<1>4. ASSUME NEW o, AnswerCreate(c, o)
      PROVE  /\ create'[c].user = create[c].user
             /\ create'[c].proposal = create[c].proposal
             /\ create'[c].slot = create[c].slot
             /\ create'[c].pc = "done"
  BY <1>4, AnswerEffect
<1>5. ASSUME CreateStep(c)
      PROVE  /\ create'[c].user = create[c].user
             /\ create'[c].proposal = create[c].proposal
             /\ create'[c].slot = create[c].slot
  <2>1. ASSUME NEW pc, GoTo(c, pc)
        PROVE  /\ create'[c].user = create[c].user
               /\ create'[c].proposal = create[c].proposal
               /\ create'[c].slot = create[c].slot
    BY <2>1, GoToEffect
  <2>2. ASSUME ReadSlot(c)
        PROVE  /\ create'[c].user = create[c].user
               /\ create'[c].proposal = create[c].proposal
               /\ create'[c].slot = create[c].slot
    BY <2>2, <1>4 DEF ReadSlot, TypeOK, CreateRequest
  <2>3. QED
    BY <1>4, <1>5, <2>1, <2>2 DEF CreateStep, PreCheck, LockProposal,
       CountActive, InsertReservation, SelectSlot, Commit, AbortCreate, NotifyCreated
<1>6. CASE ServerCrash
  BY <1>6 DEF ServerCrash, TypeOK, CreateRequest
<1>7. CASE AbortCreate(c) \/ NotifyCreated(c)
  BY <1>7, <1>4 DEF AbortCreate, NotifyCreated
<1>8. QED
  BY <1>1, <1>2, <1>3, <1>5, <1>6, <1>7
     DEF Next, CreateStep, CancelStep, Environment, SaverEnds, vars, BeginCancel,
       CancelUpdate, ReadCancelled, CancelFails, NotifyCancelled, CompleteVisit,
       SaverLocks, SaverCommits, SaverAborts

(* While a transaction is past its count, nobody else can make a           *)
(* reservation of its proposal appear: Commit needs the lock it holds.     *)
LEMMA CountStep == BookingInv /\ [Next]_vars => CountStillHolds'
<1> SUFFICES ASSUME BookingInv, [Next]_vars, NEW c \in Creates,
                    create'[c].pc \in {"insert", "select", "commit"}
             PROVE  ActiveOf(create[c].proposal)' = {}
  BY DEF CountStillHolds
<1> USE DEF BookingInv
<1>1. ActiveOf(create[c].proposal) = {} /\ create'[c].proposal = create[c].proposal
  <2>1. create[c].pc # "idle"
    <3> SUFFICES ASSUME create[c].pc = "idle"
                 PROVE  create'[c].pc \in {"idle", "readSlot", "done"}
      OBVIOUS
    <3>1. ASSUME NEW d \in Creates, NEW u \in Users, NEW p \in Proposals,
                 NEW s \in Slots, BeginCreate(d, u, p, s)
          PROVE  create'[c].pc \in {"idle", "readSlot", "done"}
      BY <3>1 DEF BeginCreate, TypeOK
    <3>2. ASSUME NEW d \in Creates, CreateStep(d) PROVE create'[c] = create[c]
      <4>1. c # d
        BY <3>2 DEF CreateStep, ReadSlot, PreCheck, LockProposal, CountActive,
             InsertReservation, SelectSlot, Commit, AbortCreate, NotifyCreated,
             InTransaction
      <4>2. QED
        BY <3>2, <4>1 DEF CreateStep, ReadSlot, PreCheck, LockProposal,
             CountActive, InsertReservation, SelectSlot, Commit, AbortCreate,
             NotifyCreated, GoTo, AnswerCreate, TypeOK
    <3>3. CASE ServerCrash
      BY <3>3 DEF ServerCrash, TypeOK, CreateRequest
    <3>4. CASE create' = create
      BY <3>4
    <3>5. QED
      BY <3>1, <3>2, <3>3, <3>4
         DEF Next, CancelStep, Environment, SaverEnds, vars, BeginCancel,
           CancelUpdate, ReadCancelled, CancelFails, NotifyCancelled, CompleteVisit,
           SaverLocks, SaverCommits, SaverAborts
  <2>2. CASE create'[c].pc = create[c].pc
    BY <2>1, <2>2, CreateMoves DEF CountStillHolds
  <2>3. ASSUME create'[c].pc # create[c].pc
        PROVE  ActiveOf(create[c].proposal) = {}
    <3>1. ReadSlot(c) => create'[c].pc \in {"precheck", "done"}
      BY AnswerEffect DEF ReadSlot, TypeOK, CreateRequest
    <3>2. PreCheck(c) => create'[c].pc \in {"lock", "done"}
      BY AnswerEffect, GoToEffect DEF PreCheck
    <3>3. LockProposal(c) => create'[c].pc = "count"
      BY GoToEffect DEF LockProposal
    <3>4. Commit(c) => create'[c].pc \in {"notify", "done"}
      BY GoToEffect, AnswerEffect DEF Commit
    <3>5. CountActive(c) => ActiveOf(create[c].proposal) = {}
      BY AnswerEffect DEF CountActive
    <3>6. InsertReservation(c) \/ SelectSlot(c) => ActiveOf(create[c].proposal) = {}
      BY DEF InsertReservation, SelectSlot, CountStillHolds
    <3>7. QED
      BY <2>1, <2>3, <3>1, <3>2, <3>3, <3>4, <3>5, <3>6, CreateMoves
  <2>4. QED
    BY <2>1, <2>2, <2>3, CreateMoves
<1>2. CASE RowsOnlyClose
  BY <1>1, <1>2, RowsOnlyCloseActive
<1>3. ASSUME NEW d \in Creates, Commit(d)
      PROVE  ActiveOf(create[c].proposal)' = {}
  <2>1. c # d /\ create'[c] = create[c]
    BY <1>3, CommitEffect
  <2>2. create[c].proposal # create[d].proposal
    BY <1>3, <2>1, CommitEffect DEF Locking, InTransaction
  <2>3. QED
    BY <1>1, <1>3, <2>2, CommitEffect DEF ActiveOf, Active
<1>4. QED
  BY <1>1, <1>2, <1>3, RowsCommitOrClose

LEMMA RowMatchesStep == BookingInv /\ [Next]_vars => RowMatchesRequest'
<1> SUFFICES ASSUME BookingInv, [Next]_vars PROVE RowMatchesRequest'
  OBVIOUS
<1> USE DEF BookingInv
<1>1. ASSUME NEW d \in Creates, Commit(d) PROVE RowMatchesRequest'
  BY <1>1, CommitEffect DEF RowMatchesRequest, Exists, Arrived
<1>2. ASSUME RowsOnlyClose, NEW c \in Creates, Exists(c)
      PROVE  /\ create'[c].pc \in {"notify", "done"}
             /\ create'[c].proposal = create[c].proposal
             /\ create'[c].user = create[c].user
             /\ create'[c].at = create[c].at
  <2>1. create[c].pc \in {"notify", "done"}
    BY <1>2 DEF RowMatchesRequest
  <2>2. /\ ~ReadSlot(c) /\ ~PreCheck(c) /\ ~LockProposal(c) /\ ~CountActive(c)
        /\ ~InsertReservation(c) /\ ~SelectSlot(c) /\ ~Commit(c)
    BY <2>1 DEF ReadSlot, PreCheck, LockProposal, CountActive, InsertReservation,
         SelectSlot, Commit
  <2>3. create'[c].at = create[c].at
    <3>1. CASE create' = create
      BY <3>1
    <3>2. ASSUME NEW d \in Creates, NEW u \in Users, NEW p \in Proposals,
                 NEW s \in Slots, BeginCreate(d, u, p, s)
          PROVE  create'[c] = create[c]
      BY <3>2, <2>1 DEF BeginCreate, TypeOK
    <3>3. ASSUME NEW d \in Creates, CreateStep(d), d # c
          PROVE  create'[c] = create[c]
      BY <3>3 DEF CreateStep, ReadSlot, PreCheck, LockProposal, CountActive,
           InsertReservation, SelectSlot, Commit, AbortCreate, NotifyCreated,
           GoTo, AnswerCreate, TypeOK
    <3>4. CASE CreateStep(c)
      BY <2>1, <2>2, <3>4, AnswerEffect DEF CreateStep, AbortCreate, NotifyCreated
    <3>5. CASE ServerCrash
      BY <3>5 DEF ServerCrash, TypeOK, CreateRequest
    <3>6. QED
      BY <3>1, <3>2, <3>3, <3>4, <3>5
         DEF Next, CancelStep, Environment, SaverEnds, vars, BeginCancel,
           CancelUpdate, ReadCancelled, CancelFails, NotifyCancelled, CompleteVisit,
           SaverLocks, SaverCommits, SaverAborts
  <2>4. QED
    BY <2>1, <2>2, <2>3, CreateMoves
<1>3. CASE RowsOnlyClose
  BY <1>2, <1>3, RowsOnlyCloseActive DEF RowMatchesRequest, RowsOnlyClose
<1>4. QED
  BY <1>1, <1>3, RowsCommitOrClose

LEMMA OneActiveStep == BookingInv /\ [Next]_vars => OneActivePerProposal'
<1> SUFFICES ASSUME BookingInv, [Next]_vars PROVE OneActivePerProposal'
  OBVIOUS
<1> USE DEF BookingInv, OneActivePerProposal
<1>1. CASE RowsOnlyClose
  BY <1>1, RowsOnlyCloseActive DEF RowsOnlyClose
<1>2. ASSUME NEW d \in Creates, Commit(d) PROVE OneActivePerProposal'
  <2>1. \A r \in Creates : ~(Active(r) /\ reservation[r].proposal = create[d].proposal)
    BY <1>2, CommitEffect DEF CountStillHolds, ActiveOf
  <2>2. QED
    BY <1>2, <2>1, CommitEffect DEF Active
<1>3. QED
  BY <1>1, <1>2, RowsCommitOrClose

LEMMA BookingInvariant == Spec => []BookingInv
<1>1. Init => BookingInv
  BY InitTyped DEF Init, BookingInv, Locking, CountStillHolds, RowMatchesRequest,
    OneActivePerProposal, InTransaction, Exists, Active, NoReservation
<1>2. BookingInv /\ [Next]_vars => BookingInv'
  BY TypeStep, ArrivedStep, LockingStep, CountStep, RowMatchesStep, OneActiveStep
     DEF BookingInv
<1>3. QED
  BY <1>1, <1>2, PTL DEF Spec

(* No interleaving of create requests, cancellations, re-parses, timeouts  *)
(* and crashes leaves a proposal with two reservations that are not        *)
(* cancelled.                                                              *)
THEOREM OneActive == Spec => []OneActivePerProposal
BY BookingInvariant, PTL DEF BookingInv

(* A completed or cancelled reservation never changes again, and no row    *)
(* disappears or changes its proposal, user or time.                       *)
THEOREM FinalStatus == Spec => FinalStatusFrozen
<1>1. BookingInv /\ [Next]_vars => [FinalStatusStep]_vars
  <2> SUFFICES ASSUME BookingInv, [Next]_vars PROVE FinalStatusStep
    OBVIOUS
  <2> USE DEF BookingInv, FinalStatusStep, Exists, TypeOK, ReservationRow
  <2>1. CASE RowsOnlyClose
    BY <2>1 DEF RowsOnlyClose
  <2>2. ASSUME NEW d \in Creates, Commit(d) PROVE FinalStatusStep
    <3>1. ~Exists(d)
      BY <2>2, CommitEffect DEF RowMatchesRequest
    <3>2. QED
      BY <2>2, <3>1, CommitEffect
  <2>3. QED
    BY <2>1, <2>2, RowsCommitOrClose
<1>2. QED
  BY <1>1, BookingInvariant, PTL DEF Spec, FinalStatusFrozen

-----------------------------------------------------------------------------
(* The component implements Booking: a commit books, a cancellation        *)
(* releases, and every other step leaves the bookings as they are.         *)

LEMMA BookStep ==
  ASSUME BookingInv, NEW c \in Creates, Commit(c)
  PROVE  Bookings!Next
<1> USE DEF BookingInv
<1> DEFINE p == create[c].proposal
<1>1. p \in Proposals /\ ActiveOf(p) = {} /\ ~Exists(c)
  BY CommitEffect DEF Arrived, CountStillHolds, RowMatchesRequest
<1>2. /\ c \notin {r \in Creates : reservation[r].status = "CANCELLED"}
      /\ \A q \in Proposals : c \notin ActiveOf(q)
  BY <1>1 DEF Exists, ActiveOf, Active
<1>3. \A q \in Proposals : ActiveOf(q)' = IF q = p THEN {c} ELSE ActiveOf(q)
  BY <1>1, <1>2, CommitEffect DEF ActiveOf, Active
<1>4. {r \in Creates : reservation'[r].status = "CANCELLED"}
        = {r \in Creates : reservation[r].status = "CANCELLED"}
  BY <1>2, CommitEffect
<1>5. Bookings!Book(p, c)
  BY <1>1, <1>2, <1>3, <1>4 DEF Bookings!Book
<1>6. QED
  BY <1>1, <1>5 DEF Bookings!Next

LEMMA ReleaseStep ==
  ASSUME BookingInv, NEW r \in Creates, RowCloses(r, "CANCELLED")
  PROVE  Bookings!Next
<1> USE DEF BookingInv
<1> DEFINE p == reservation[r].proposal
<1>1. p \in Proposals /\ Active(r)
  BY DEF RowMatchesRequest, RowCloses, Active, Exists
<1>2. ActiveOf(p) = {r}
  BY <1>1 DEF OneActivePerProposal, ActiveOf
<1>3. /\ reservation'[r].status = "CANCELLED"
      /\ \A d \in Creates : /\ d # r => reservation'[d] = reservation[d]
                            /\ reservation'[d].proposal = reservation[d].proposal
  BY DEF RowCloses, TypeOK, ReservationRow
<1>4. \A q \in Proposals : ActiveOf(q)' = IF q = p THEN {} ELSE ActiveOf(q)
  BY <1>1, <1>2, <1>3 DEF ActiveOf, Active
<1>5. {d \in Creates : reservation'[d].status = "CANCELLED"}
        = {d \in Creates : reservation[d].status = "CANCELLED"} \union {r}
  BY <1>3
<1>6. Bookings!Release(p, r)
  BY <1>1, <1>2, <1>4, <1>5 DEF Bookings!Release
<1>7. QED
  BY <1>1, <1>6 DEF Bookings!Next

LEMMA CompleteStep ==
  ASSUME BookingInv, NEW r \in Creates, RowCloses(r, "COMPLETED")
  PROVE  UNCHANGED Bookings!vars
<1>1. /\ reservation'[r].status = "COMPLETED"
      /\ reservation[r].status = "CONFIRMED"
      /\ \A d \in Creates : /\ d # r => reservation'[d] = reservation[d]
                            /\ reservation'[d].proposal = reservation[d].proposal
  BY DEF RowCloses, BookingInv, TypeOK, ReservationRow
<1>2. \A q \in Proposals : ActiveOf(q)' = ActiveOf(q)
  BY <1>1 DEF ActiveOf, Active
<1>3. {d \in Creates : reservation'[d].status = "CANCELLED"}
        = {d \in Creates : reservation[d].status = "CANCELLED"}
  BY <1>1
<1>4. QED
  BY <1>2, <1>3 DEF Bookings!vars

(* Seen through its rows, the reservation component is Booking.            *)
THEOREM Refinement == Spec => ImplementsBooking
<1>1. Init => Bookings!Init
  BY DEF Init, Bookings!Init, ActiveOf, Active, NoReservation
<1>2. BookingInv /\ [Next]_vars => [Bookings!Next]_(Bookings!vars)
  <2> SUFFICES ASSUME BookingInv, [Next]_vars
               PROVE  Bookings!Next \/ UNCHANGED Bookings!vars
    OBVIOUS
  <2>1. CASE UNCHANGED reservation
    BY <2>1 DEF Bookings!vars, ActiveOf, Active
  <2>2. QED
    BY <2>1, RowsStep, BookStep, ReleaseStep, CompleteStep DEF BookingInv
<1>3. QED
  BY <1>1, <1>2, BookingInvariant, PTL DEF Spec, ImplementsBooking, Bookings!Spec

-----------------------------------------------------------------------------
(***************************************************************************)
(* That the slot of a reservation is kept, that its owner alone made and   *)
(* cancelled it, and that requests are answered with the truth.            *)
(*                                                                         *)
(* Between reading a slot and committing, a request relies on a slot that  *)
(* re-parses may delete but never reuse (SlotKnown); from the moment it    *)
(* selects it the row lock keeps the savers away (SlotHeld).               *)
(***************************************************************************)

Pending == {"precheck", "lock"} \union InTransaction

SlotPart ==
  /\ \A c \in Creates :                                   \* SlotKnown
       create[c].pc \in Pending =>
         /\ slots[create[c].slot].state # "unused"
         /\ slots[create[c].slot].proposal = create[c].proposal
         /\ slots[create[c].slot].at = create[c].at
  /\ \A c \in Creates :                                   \* SlotHeld
       create[c].pc = "commit" => slots[create[c].slot].state = "live"
  /\ \A s \in Slots : slots[s].selected => slots[s].state = "live"
  /\ ReservedSlotKept /\ SelectionHasReservation

AnswerPart ==
  /\ \A c \in Creates : create[c].pc # "done" => create[c].outcome = "none"
  /\ \A c \in Creates : create[c].pc = "notify" => Exists(c)
  /\ AnswerMatchesDatabase

OwnerPart ==
  /\ \A c \in Creates :
       create[c].pc \notin {"idle", "done"} => create[c].user = Owner[create[c].proposal]
  /\ \A c \in Creates : Exists(c) => reservation[c].user = Owner[reservation[c].proposal]
  /\ \A c \in Creates : reservation[c].status = "CANCELLED" =>
       \E k \in Cancels :
         /\ cancel[k].pc # "idle" /\ cancel[k].row = c
         /\ cancel[k].user = reservation[c].user /\ OwnsUp(k)

(* The cancel request whose update found the row CONFIRMED. *)
Winner(k) ==
  cancel[k].pc \in {"reread", "notify"} \/ cancel[k].outcome \in {"cancelled", "unconfirmed"}

(* Whoever goes to update has read a reservation of his own, and the count *)
(* of the update is 0 only if that reservation is over.                    *)
ReadBefore(k) ==
  /\ cancel[k].pc = "update" =>
       /\ cancel[k].row \in Creates /\ Exists(cancel[k].row)
       /\ reservation[cancel[k].row].user = cancel[k].user
  /\ cancel[k].outcome = "alreadyFinalized" =>
       /\ cancel[k].row \in Creates
       /\ reservation[cancel[k].row].status \in {"COMPLETED", "CANCELLED"}

CancelPart ==
  /\ \A k \in Cancels : cancel[k].pc # "done" => cancel[k].outcome = "none"
  /\ \A k \in Cancels : Winner(k) =>
       cancel[k].row \in Creates /\ reservation[cancel[k].row].status = "CANCELLED"
  /\ \A k, l \in Cancels : Winner(k) /\ Winner(l) /\ cancel[k].row = cancel[l].row => k = l
  /\ \A k \in Cancels : ReadBefore(k)
  /\ \A n \in notices : n.type = "RESERVATION_CONFIRMED" => n.from = n.row /\ Exists(n.row)
  /\ \A n \in notices : n.type = "RESERVATION_CANCELLED" =>
       /\ n.from \in Cancels /\ cancel[n.from].outcome = "cancelled"
       /\ cancel[n.from].row = n.row

RowInv == BookingInv /\ SlotPart /\ AnswerPart /\ OwnerPart /\ CancelPart

-----------------------------------------------------------------------------
(* The steps of a create request c other than its commit: they leave the   *)
(* rows alone, and what they do to the record of c.                        *)
BeforeCommit(c) ==
  \/ ReadSlot(c) \/ PreCheck(c) \/ LockProposal(c) \/ CountActive(c)
  \/ InsertReservation(c) \/ SelectSlot(c) \/ AbortCreate(c)

LEMMA AnswerOutcome ==
  ASSUME TypeOK, NEW c \in Creates, NEW o, AnswerCreate(c, o)
  PROVE  create'[c].outcome = o
BY DEF AnswerCreate, TypeOK, CreateRequest

LEMMA GoToOutcome ==
  ASSUME TypeOK, NEW c \in Creates, NEW pc, GoTo(c, pc)
  PROVE  create'[c].outcome = create[c].outcome
BY DEF GoTo, TypeOK, CreateRequest

Errors == {"proposalNotFound", "timeNotFound", "alreadyReserved", "failed"}

LEMMA BeforeCommitEffect ==
  ASSUME RowInv, NEW c \in Creates, BeforeCommit(c)
  PROVE  /\ UNCHANGED <<slots, reservation, cancel, notices>>
         /\ \A d \in Creates : d # c => create'[d] = create[d]
         /\ create[c].pc \in {"readSlot"} \union Pending
         /\ create'[c].user = create[c].user /\ create'[c].proposal = create[c].proposal
         /\ create'[c].slot = create[c].slot
         /\ \/ create'[c].pc = "done" /\ create'[c].outcome \in Errors
            \/ /\ create'[c].pc \in Pending /\ create'[c].outcome = create[c].outcome
               /\ slots[create[c].slot].state # "unused"
               /\ slots[create[c].slot].proposal = create[c].proposal
               /\ slots[create[c].slot].at = create'[c].at
               /\ create'[c].pc = "commit" => slots[create[c].slot].state = "live"
<1>0. TypeOK /\ create[c] \in CreateRequest
  BY DEF RowInv, BookingInv, TypeOK
<1>1. ASSUME NEW o \in Errors, AnswerCreate(c, o)
      PROVE  /\ \A d \in Creates : d # c => create'[d] = create[d]
             /\ create'[c].user = create[c].user /\ create'[c].proposal = create[c].proposal
             /\ create'[c].slot = create[c].slot
             /\ create'[c].pc = "done" /\ create'[c].outcome \in Errors
  BY <1>0, <1>1, AnswerEffect, AnswerOutcome
<1>2. ASSUME NEW pc \in Pending, GoTo(c, pc), create[c].pc \in Pending,
             pc = "commit" => slots[create[c].slot].state = "live"
      PROVE  /\ \A d \in Creates : d # c => create'[d] = create[d]
             /\ create'[c].user = create[c].user /\ create'[c].proposal = create[c].proposal
             /\ create'[c].slot = create[c].slot
             /\ create'[c].pc \in Pending /\ create'[c].outcome = create[c].outcome
             /\ slots[create[c].slot].state # "unused"
             /\ slots[create[c].slot].proposal = create[c].proposal
             /\ slots[create[c].slot].at = create'[c].at
             /\ create'[c].pc = "commit" => slots[create[c].slot].state = "live"
  <2>1. /\ slots[create[c].slot].state # "unused"
        /\ slots[create[c].slot].proposal = create[c].proposal
        /\ slots[create[c].slot].at = create[c].at
    BY <1>2 DEF RowInv, SlotPart
  <2> QED
    BY <1>0, <1>2, <2>1, GoToEffect, GoToOutcome
<1>3. CASE ReadSlot(c)
  <2>0. UNCHANGED <<slots, reservation, cancel, notices>> /\ create[c].pc = "readSlot"
    BY <1>3 DEF ReadSlot, Tables
  <2>1. CASE AnswerCreate(c, "timeNotFound")
    BY <1>1, <2>0, <2>1 DEF Errors
  <2>2. CASE /\ LiveSlotOf(create[c].slot, create[c].proposal)
             /\ create' = [create EXCEPT ![c].pc = "precheck",
                                         ![c].at = slots[create[c].slot].at]
    <3> DEFINE r == [create[c] EXCEPT !.pc = "precheck", !.at = slots[create[c].slot].at]
    <3>1. create' = [create EXCEPT ![c] = r]
      BY <1>0, <2>2 DEF TypeOK
    <3>2. /\ r.pc = "precheck" /\ r.at = slots[create[c].slot].at
          /\ r.user = create[c].user /\ r.proposal = create[c].proposal
          /\ r.slot = create[c].slot /\ r.outcome = create[c].outcome
      BY <1>0 DEF CreateRequest
    <3> HIDE DEF r
    <3>3. create'[c] = r /\ \A d \in Creates : d # c => create'[d] = create[d]
      BY <1>0, <3>1 DEF TypeOK
    <3> QED
      BY <2>0, <2>2, <3>2, <3>3 DEF LiveSlotOf, Pending
  <2> QED
    BY <1>3, <2>1, <2>2 DEF ReadSlot
<1>4. CASE PreCheck(c) \/ LockProposal(c) \/ CountActive(c) \/ InsertReservation(c)
  <2>1. UNCHANGED <<slots, reservation, cancel, notices>> /\ create[c].pc \in Pending
    BY <1>4 DEF PreCheck, LockProposal, CountActive, InsertReservation, Tables, Pending,
            InTransaction
  <2>2. \/ AnswerCreate(c, "alreadyReserved")
        \/ \E pc \in Pending : GoTo(c, pc) /\ pc # "commit"
    BY <1>4 DEF PreCheck, LockProposal, CountActive, InsertReservation, Pending, InTransaction
  <2> QED
    BY <1>1, <1>2, <2>1, <2>2 DEF Errors
<1>5. CASE SelectSlot(c)
  <2>1. UNCHANGED <<slots, reservation, cancel, notices>> /\ create[c].pc \in Pending
    BY <1>5 DEF SelectSlot, Tables, Pending, InTransaction
  <2>2. CASE AnswerCreate(c, "timeNotFound")
    BY <1>1, <2>1, <2>2 DEF Errors
  <2>3. CASE LiveSlotOf(create[c].slot, create[c].proposal) /\ GoTo(c, "commit")
    BY <1>2, <2>1, <2>3 DEF LiveSlotOf, Pending, InTransaction
  <2> QED
    BY <1>5, <2>2, <2>3 DEF SelectSlot
<1>6. CASE AbortCreate(c)
  <2>1. /\ UNCHANGED <<slots, reservation, cancel, notices>> /\ create[c].pc \in Pending
        /\ AnswerCreate(c, "failed")
    BY <1>6 DEF AbortCreate, Tables, Pending
  <2> QED
    BY <1>1, <2>1 DEF Errors
<1> QED
  BY <1>3, <1>4, <1>5, <1>6 DEF BeforeCommit

(* What can be done to the rows and slots a step leaves as they are. *)
LEMMA SlotPartKept ==
  ASSUME SlotPart, UNCHANGED <<slots, reservation>>,
         \A c \in Creates :
           \/ create'[c] = create[c]
           \/ create'[c].pc \notin Pending
           \/ /\ slots[create'[c].slot].state # "unused"
              /\ slots[create'[c].slot].proposal = create'[c].proposal
              /\ slots[create'[c].slot].at = create'[c].at
              /\ create'[c].pc = "commit" => slots[create'[c].slot].state = "live"
  PROVE  SlotPart'
<1>1. "commit" \in Pending
  BY DEF Pending, InTransaction
<1>2. ReservedSlotKept' /\ SelectionHasReservation'
  BY DEF SlotPart, ReservedSlotKept, SelectionHasReservation, Exists, LiveSlotOf
<1> QED
  BY <1>1, <1>2 DEF SlotPart, Pending, InTransaction

LEMMA CancelPartKept ==
  ASSUME CancelPart, UNCHANGED <<reservation, cancel, notices>> PROVE CancelPart'
  BY DEF CancelPart, Winner, ReadBefore, Exists

(* A step that closes rows, or makes them, takes nothing from what the     *)
(* cancel requests have read.                                              *)
LEMMA ReadBeforeKept ==
  ASSUME RowInv, NEW k \in Cancels, cancel'[k] = cancel[k],
         \A r \in Creates : Exists(r) =>
           /\ Exists(r)' /\ reservation'[r].user = reservation[r].user
           /\ reservation[r].status \in {"COMPLETED", "CANCELLED"} =>
                reservation'[r].status = reservation[r].status
  PROVE  ReadBefore(k)'
<1>1. ReadBefore(k)
  BY DEF RowInv, CancelPart
<1> QED
  BY <1>1 DEF ReadBefore, Exists

LEMMA BeginCreateStep ==
  ASSUME RowInv, NEW c \in Creates, NEW u \in Users, NEW p \in Proposals, NEW s \in Slots,
         BeginCreate(c, u, p, s)
  PROVE  SlotPart' /\ AnswerPart' /\ OwnerPart' /\ CancelPart'
<1>1. /\ UNCHANGED <<slots, reservation, cancel, notices>> /\ create[c].pc = "idle"
      /\ \A d \in Creates : d # c => create'[d] = create[d]
      /\ \/ /\ create'[c].pc = "readSlot" /\ create'[c].outcome = "none"
            /\ create'[c].user = Owner[create'[c].proposal]
         \/ create'[c].pc = "done" /\ create'[c].outcome = "proposalNotFound"
  BY DEF BeginCreate, Tables, RowInv, BookingInv, TypeOK
<1>2. ~Exists(c)
  BY <1>1 DEF RowInv, BookingInv, RowMatchesRequest
<1>3. create'[c].pc \notin Pending
  BY <1>1 DEF Pending, InTransaction
<1>4. SlotPart' /\ CancelPart'
  BY <1>1, <1>3, SlotPartKept, CancelPartKept DEF RowInv
<1>5. AnswerPart'
  BY <1>1, <1>2 DEF RowInv, AnswerPart, AnswerMatchesDatabase, Exists
<1>6. OwnerPart'
  BY <1>1 DEF RowInv, OwnerPart, OwnsUp, Exists
<1> QED
  BY <1>4, <1>5, <1>6

LEMMA BeforeCommitStep ==
  ASSUME RowInv, NEW c \in Creates, BeforeCommit(c)
  PROVE  SlotPart' /\ AnswerPart' /\ OwnerPart' /\ CancelPart'
<1>1. create[c].pc \notin {"idle", "done", "notify"}
  BY BeforeCommitEffect DEF Pending, InTransaction
<1>2. ~Exists(c) /\ create[c].outcome = "none"
  BY <1>1 DEF RowInv, BookingInv, RowMatchesRequest, AnswerPart
<1>3. SlotPart' /\ CancelPart'
  <2>1. UNCHANGED <<slots, reservation, cancel, notices>>
    BY BeforeCommitEffect
  <2>2. ASSUME NEW d \in Creates
        PROVE  \/ create'[d] = create[d]
               \/ create'[d].pc \notin Pending
               \/ /\ slots[create'[d].slot].state # "unused"
                  /\ slots[create'[d].slot].proposal = create'[d].proposal
                  /\ slots[create'[d].slot].at = create'[d].at
                  /\ create'[d].pc = "commit" => slots[create'[d].slot].state = "live"
    <3>1. "done" \notin Pending
      BY DEF Pending, InTransaction
    <3> QED
      BY <3>1, BeforeCommitEffect
  <2>3. SlotPart /\ CancelPart
    BY DEF RowInv
  <2> QED
    BY <2>1, <2>2, <2>3, SlotPartKept, CancelPartKept
<1>4. AnswerPart'
  <2>1. create'[c].pc # "notify"
    BY BeforeCommitEffect DEF Pending, InTransaction
  <2>2. create'[c].outcome \notin {"created", "unconfirmed"}
    BY BeforeCommitEffect, <1>2 DEF Errors
  <2>3. create'[c].pc # "done" => create'[c].outcome = "none"
    BY BeforeCommitEffect, <1>2
  <2>4. \A d \in Creates : d # c => create'[d] = create[d]
    BY BeforeCommitEffect
  <2>5. reservation' = reservation
    BY BeforeCommitEffect
  <2> QED
    BY <1>2, <2>1, <2>2, <2>3, <2>4, <2>5 DEF RowInv, AnswerPart, AnswerMatchesDatabase, Exists
<1>5. OwnerPart'
  BY <1>1, BeforeCommitEffect DEF RowInv, OwnerPart, OwnsUp, Exists
<1> QED
  BY <1>3, <1>4, <1>5

(* The commit selects the slot that was read, which is live and at the     *)
(* time the row gets.                                                      *)
LEMMA CommitStep ==
  ASSUME RowInv, NEW c \in Creates, Commit(c)
  PROVE  SlotPart' /\ AnswerPart' /\ OwnerPart' /\ CancelPart'
<1> DEFINE s == create[c].slot
           p == create[c].proposal
<1>0. /\ TypeOK /\ Arrived /\ create[c].pc = "commit"
      /\ cancel' = cancel /\ notices' = notices
  BY DEF RowInv, BookingInv, Commit
<1>1. /\ s \in Slots /\ slots[s].state = "live" /\ slots[s].proposal = p
      /\ slots[s].at = create[c].at /\ ~Exists(c) /\ create[c].outcome = "none"
      /\ create[c].user = Owner[p]
  BY <1>0 DEF RowInv, SlotPart, Arrived, Pending, InTransaction, BookingInv,
              RowMatchesRequest, AnswerPart, OwnerPart
<1>2. /\ \A t \in Slots : /\ slots'[t].state = slots[t].state /\ slots'[t].at = slots[t].at
                          /\ slots'[t].proposal = slots[t].proposal
                          /\ t # s => slots'[t] = slots[t]
      /\ slots'[s].selected = TRUE
  <2>1. slots \in [Slots -> SlotRow] /\ slots' = [slots EXCEPT ![s].selected = TRUE]
    BY <1>0 DEF Commit, TypeOK
  <2> QED
    BY <1>1, <2>1 DEF SlotRow
<1>3. /\ \A r \in Creates : r # c => reservation'[r] = reservation[r]
      /\ reservation'[c].status = "CONFIRMED" /\ reservation'[c].proposal = p
      /\ reservation'[c].user = create[c].user /\ reservation'[c].at = create[c].at
      /\ create'[c].pc \in {"notify", "done"}
      /\ \A d \in Creates : d # c => create'[d] = create[d]
  BY <1>0, CommitEffect
<1>4. /\ create'[c].user = Owner[create'[c].proposal]
      /\ \/ create'[c].outcome = "none" /\ create'[c].pc = "notify"
         \/ create'[c].outcome = "unconfirmed" /\ create'[c].pc = "done"
  <2>1. create'[c].user = Owner[create'[c].proposal]
    BY <1>0, <1>1, CommitEffect
  <2>2. CASE GoTo(c, "notify")
    <3>1. create'[c].pc = "notify" /\ create'[c].outcome = create[c].outcome
      BY <1>0, <2>2, GoToEffect, GoToOutcome
    <3> QED
      BY <1>1, <2>1, <3>1
  <2>3. CASE AnswerCreate(c, "unconfirmed")
    <3>1. create'[c].pc = "done" /\ create'[c].outcome = "unconfirmed"
      BY <1>0, <2>3, AnswerEffect, AnswerOutcome
    <3> QED
      BY <2>1, <3>1
  <2> QED
    BY <2>2, <2>3 DEF Commit
<1> HIDE DEF s, p
<1>5. SlotPart'
  <2>1. \A d \in Creates : create'[d].pc \in Pending => create'[d] = create[d] /\ create[d].slot \in Slots
    BY <1>0, <1>3 DEF Arrived, Pending, InTransaction
  <2>2. \A t \in Slots : slots'[t].selected => slots[t].selected \/ t = s
    BY <1>2
  <2>3. ReservedSlotKept'
    <3> SUFFICES ASSUME NEW d \in Creates, Exists(d)'
                 PROVE  \E t \in Slots :
                          /\ LiveSlotOf(t, reservation[d].proposal)'
                          /\ slots'[t].selected /\ slots'[t].at = reservation'[d].at
      BY DEF ReservedSlotKept
    <3>1. CASE d = c
      BY <1>1, <1>2, <1>3, <3>1 DEF LiveSlotOf
    <3>2. CASE d # c
      <4>1. PICK t \in Slots :
              LiveSlotOf(t, reservation[d].proposal) /\ slots[t].selected
              /\ slots[t].at = reservation[d].at
        BY <1>3, <3>2 DEF RowInv, SlotPart, ReservedSlotKept, Exists
      <4>2. slots'[t].selected
        BY <1>2, <4>1
      <4> QED
        BY <1>2, <1>3, <3>2, <4>1, <4>2 DEF LiveSlotOf
    <3> QED
      BY <3>1, <3>2
  <2>4. SelectionHasReservation'
    <3> SUFFICES ASSUME NEW t \in Slots, slots'[t].selected
                 PROVE  \E d \in Creates :
                          /\ Exists(d)' /\ reservation'[d].proposal = slots'[t].proposal
                          /\ reservation'[d].at = slots'[t].at
      BY DEF SelectionHasReservation
    <3>1. CASE t = s
      BY <1>1, <1>2, <1>3, <3>1 DEF Exists
    <3>2. CASE slots[t].selected
      <4>1. PICK d \in Creates : /\ Exists(d) /\ reservation[d].proposal = slots[t].proposal
                                 /\ reservation[d].at = slots[t].at
        BY <3>2 DEF RowInv, SlotPart, SelectionHasReservation
      <4> QED
        BY <1>1, <1>2, <1>3, <4>1 DEF Exists
    <3> QED
      BY <2>2, <3>1, <3>2
  <2>5. \A t \in Slots : slots'[t].selected => slots'[t].state = "live"
    BY <1>1, <1>2, <2>2 DEF RowInv, SlotPart
  <2>6. "commit" \in Pending
    BY DEF Pending, InTransaction
  <2>7. \A d \in Creates : create'[d].pc \in Pending =>
          /\ slots'[create'[d].slot].state # "unused"
          /\ slots'[create'[d].slot].proposal = create'[d].proposal
          /\ slots'[create'[d].slot].at = create'[d].at
          /\ create'[d].pc = "commit" => slots'[create'[d].slot].state = "live"
    BY <1>2, <2>1 DEF RowInv, SlotPart
  <2> QED
    BY <2>3, <2>4, <2>5, <2>6, <2>7 DEF SlotPart, Pending, InTransaction
<1>6. AnswerPart'
  BY <1>1, <1>3, <1>4 DEF RowInv, AnswerPart, AnswerMatchesDatabase, Exists
<1>7. OwnerPart'
  BY <1>0, <1>1, <1>3, <1>4 DEF RowInv, OwnerPart, OwnsUp, Exists, p
<1>8. CancelPart'
  <2>1. \A r \in Creates : reservation[r].status = "CANCELLED" => reservation'[r] = reservation[r]
    BY <1>1, <1>3 DEF Exists
  <2>2. \A r \in Creates : Exists(r) => reservation'[r] = reservation[r]
    BY <1>1, <1>3
  <2>3. \A k \in Cancels : ReadBefore(k)'
    BY <1>0, <2>2, ReadBeforeKept DEF Exists
  <2>4. \A n \in notices : n.type = "RESERVATION_CONFIRMED" => n.from = n.row /\ Exists(n.row)'
    <3>1. \A n \in notices : n.row \in Creates
      BY <1>0 DEF TypeOK, Notice
    <3> QED
      BY <2>2, <3>1 DEF RowInv, CancelPart, Exists
  <2> QED
    BY <1>0, <2>1, <2>3, <2>4 DEF RowInv, CancelPart, Winner
<1> QED
  BY <1>5, <1>6, <1>7, <1>8

LEMMA NotifyCreatedStep ==
  ASSUME RowInv, NEW c \in Creates, NotifyCreated(c)
  PROVE  SlotPart' /\ AnswerPart' /\ OwnerPart' /\ CancelPart'
<1> DEFINE n == [type |-> "RESERVATION_CONFIRMED", row |-> c, from |-> c]
<1>1. /\ UNCHANGED <<slots, reservation, cancel>> /\ create[c].pc = "notify"
      /\ AnswerCreate(c, "created") /\ notices' \in {notices, notices \union {n}}
      /\ TypeOK
  BY DEF NotifyCreated, Tables, RowInv, BookingInv
<1>2. /\ create'[c].pc = "done" /\ create'[c].outcome = "created"
      /\ \A d \in Creates : d # c => create'[d] = create[d]
  BY <1>1, AnswerEffect, AnswerOutcome
<1>3. Exists(c)
  BY <1>1 DEF RowInv, AnswerPart
<1>4. SlotPart'
  BY <1>1, <1>2, SlotPartKept DEF RowInv, Pending, InTransaction
<1>5. AnswerPart'
  BY <1>1, <1>2, <1>3 DEF RowInv, AnswerPart, AnswerMatchesDatabase, Exists
<1>6. OwnerPart'
  BY <1>1, <1>2 DEF RowInv, OwnerPart, OwnsUp, Exists
<1>7. CancelPart'
  <2>1. n.type = "RESERVATION_CONFIRMED" /\ n.from = n.row /\ Exists(n.row)
    BY <1>3
  <2> HIDE DEF n
  <2> QED
    BY <1>1, <2>1 DEF RowInv, CancelPart, Winner, ReadBefore, Exists
<1> QED
  BY <1>4, <1>5, <1>6, <1>7

-----------------------------------------------------------------------------
(* Cancel requests. *)

LEMMA AnswerCancelEffect ==
  ASSUME TypeOK, NEW k \in Cancels, NEW o, AnswerCancel(k, o)
  PROVE  /\ \A l \in Cancels : l # k => cancel'[l] = cancel[l]
         /\ cancel'[k].pc = "done" /\ cancel'[k].outcome = o
         /\ cancel'[k].row = cancel[k].row /\ cancel'[k].user = cancel[k].user
BY DEF AnswerCancel, TypeOK, CancelRequest

(* A step of k that only changes where k stands, not to a winner. *)
LEMMA CancelMoves ==
  ASSUME RowInv, NEW k \in Cancels, UNCHANGED <<slots, reservation, create, notices>>,
         \A l \in Cancels : l # k => cancel'[l] = cancel[l],
         ~OwnsUp(k), ~Winner(k)', ReadBefore(k)', cancel'[k].pc # "idle",
         cancel'[k].pc # "done" => cancel'[k].outcome = "none",
         cancel[k].pc # "idle" =>
           cancel'[k].row = cancel[k].row /\ cancel'[k].user = cancel[k].user
  PROVE  SlotPart' /\ AnswerPart' /\ OwnerPart' /\ CancelPart'
<1>1. SlotPart'
  BY SlotPartKept DEF RowInv
<1>2. AnswerPart'
  BY DEF RowInv, AnswerPart, AnswerMatchesDatabase, Exists
<1>3. OwnerPart'
  <2>1. ASSUME NEW c \in Creates, reservation[c].status = "CANCELLED"
        PROVE  \E l \in Cancels : /\ cancel'[l].pc # "idle" /\ cancel'[l].row = c
                                  /\ cancel'[l].user = reservation[c].user /\ OwnsUp(l)'
    <3>1. PICK l \in Cancels : /\ cancel[l].pc # "idle" /\ cancel[l].row = c
                               /\ cancel[l].user = reservation[c].user /\ OwnsUp(l)
      BY <2>1 DEF RowInv, OwnerPart
    <3>2. cancel'[l] = cancel[l]
      BY <3>1
    <3> QED
      BY <3>1, <3>2 DEF OwnsUp
  <2> QED
    BY <2>1 DEF RowInv, OwnerPart, Exists
<1>4. CancelPart'
  <2>1. \A l \in Cancels : Winner(l)' => l # k /\ Winner(l) /\ cancel'[l] = cancel[l]
    BY DEF Winner
  <2>2. cancel[k].outcome # "cancelled"
    BY DEF OwnsUp
  <2>3. \A n \in notices : n.type = "RESERVATION_CANCELLED" => n.from \in Cancels /\ n.from # k
    BY <2>2 DEF RowInv, CancelPart
  <2>4. \A l \in Cancels : ReadBefore(l)'
    BY ReadBeforeKept DEF Exists
  <2>5. \A n \in notices : n.type = "RESERVATION_CONFIRMED" => n.from = n.row /\ Exists(n.row)'
    BY DEF RowInv, CancelPart, Exists
  <2> QED
    BY <2>1, <2>3, <2>4, <2>5 DEF RowInv, CancelPart
<1> QED
  BY <1>1, <1>2, <1>3, <1>4

LEMMA BeginCancelStep ==
  ASSUME RowInv, NEW k \in Cancels, NEW u \in Users, NEW r \in Creates, BeginCancel(k, u, r)
  PROVE  SlotPart' /\ AnswerPart' /\ OwnerPart' /\ CancelPart'
<1>1. /\ UNCHANGED <<slots, reservation, create, notices>> /\ cancel[k].pc = "idle"
      /\ \A l \in Cancels : l # k => cancel'[l] = cancel[l]
      /\ \/ cancel'[k].pc = "update" /\ cancel'[k].outcome = "none"
         \/ cancel'[k].pc = "done" /\ cancel'[k].outcome \in {"alreadyFinalized", "notFound"}
  BY DEF BeginCancel, Tables, RowInv, BookingInv, TypeOK
<1>2. cancel[k].outcome = "none"
  BY <1>1 DEF RowInv, CancelPart
<1>3. ~OwnsUp(k) /\ ~Winner(k)'
  BY <1>1, <1>2 DEF Winner, OwnsUp
<1>4. cancel'[k].pc # "idle" /\ (cancel'[k].pc # "done" => cancel'[k].outcome = "none")
  BY <1>1
<1>5. ReadBefore(k)'
  <2>1. /\ cancel'[k].row = r /\ cancel'[k].user = u
        /\ cancel'[k].pc = "update" => Exists(r) /\ reservation[r].user = u
        /\ cancel'[k].outcome = "alreadyFinalized" =>
             Exists(r) /\ reservation[r].status # "CONFIRMED"
    BY DEF BeginCancel, RowInv, BookingInv, TypeOK
  <2> QED
    BY <1>1, <2>1 DEF ReadBefore, Exists, RowInv, BookingInv, TypeOK, ReservationRow
<1> QED
  BY <1>1, <1>3, <1>4, <1>5, CancelMoves

(* Of two requests that both read CONFIRMED, the update of one finds it    *)
(* so; nobody has won the row before, as it would be CANCELLED.            *)
LEMMA CancelUpdateStep ==
  ASSUME RowInv, NEW k \in Cancels, CancelUpdate(k)
  PROVE  SlotPart' /\ AnswerPart' /\ OwnerPart' /\ CancelPart'
<1> DEFINE r == cancel[k].row
<1>0. /\ TypeOK /\ r \in Creates /\ cancel[k].pc = "update" /\ cancel[k].outcome = "none"
      /\ UNCHANGED <<slots, create, notices>> /\ ~OwnsUp(k)
      /\ Exists(r) /\ reservation[r].user = cancel[k].user
  BY DEF RowInv, BookingInv, Arrived, CancelPart, CancelUpdate, OwnsUp, ReadBefore
<1>1. CASE /\ reservation[r].status # "CONFIRMED" \/ reservation[r].user # cancel[k].user
           /\ AnswerCancel(k, "alreadyFinalized") /\ UNCHANGED reservation
  <2>1. /\ \A l \in Cancels : l # k => cancel'[l] = cancel[l]
        /\ cancel'[k].pc = "done" /\ cancel'[k].outcome = "alreadyFinalized"
        /\ cancel'[k].row = cancel[k].row /\ cancel'[k].user = cancel[k].user
    BY <1>0, <1>1, AnswerCancelEffect
  <2>2. ~Winner(k)'
    BY <2>1 DEF Winner
  <2>3. ReadBefore(k)'
    BY <1>0, <1>1, <2>1 DEF ReadBefore, Exists, TypeOK, ReservationRow
  <2> QED
    BY <1>0, <1>1, <2>1, <2>2, <2>3, CancelMoves
<1>2. CASE /\ reservation[r].status = "CONFIRMED" /\ reservation[r].user = cancel[k].user
           /\ reservation' = [reservation EXCEPT ![r].status = "CANCELLED"]
           /\ cancel' = [cancel EXCEPT ![k].pc = "reread"]
  <2>1. /\ \A d \in Creates : /\ d # r => reservation'[d] = reservation[d]
                              /\ reservation'[d].proposal = reservation[d].proposal
                              /\ reservation'[d].user = reservation[d].user
                              /\ reservation'[d].at = reservation[d].at
        /\ reservation'[r].status = "CANCELLED"
    BY <1>0, <1>2 DEF TypeOK, ReservationRow
  <2>2. /\ \A l \in Cancels : l # k => cancel'[l] = cancel[l]
        /\ cancel'[k].pc = "reread" /\ cancel'[k].outcome = "none"
        /\ cancel'[k].row = r /\ cancel'[k].user = cancel[k].user
    BY <1>0, <1>2 DEF TypeOK, CancelRequest
  <2> HIDE DEF r
  <2>3. \A d \in Creates : Exists(d)' <=> Exists(d)
    BY <1>2, <2>1 DEF Exists
  <2>4. SlotPart'
    <3>1. ReservedSlotKept' /\ SelectionHasReservation'
      BY <1>0, <2>1, <2>3
      DEF RowInv, SlotPart, ReservedSlotKept, SelectionHasReservation, LiveSlotOf
    <3> QED
      BY <1>0, <3>1 DEF RowInv, SlotPart
  <2>5. AnswerPart'
    BY <1>0, <2>3 DEF RowInv, AnswerPart, AnswerMatchesDatabase
  <2>6. OwnerPart'
    <3>1. ASSUME NEW c \in Creates, reservation'[c].status = "CANCELLED"
          PROVE  \E l \in Cancels : /\ cancel'[l].pc # "idle" /\ cancel'[l].row = c
                                    /\ cancel'[l].user = reservation'[c].user /\ OwnsUp(l)'
      <4>1. CASE c = r
        BY <1>2, <2>1, <2>2, <4>1 DEF OwnsUp
      <4>2. CASE c # r
        <5>1. PICK l \in Cancels : /\ cancel[l].pc # "idle" /\ cancel[l].row = c
                                   /\ cancel[l].user = reservation[c].user /\ OwnsUp(l)
          BY <2>1, <3>1, <4>2 DEF RowInv, OwnerPart
        <5>2. l # k
          BY <4>2, <5>1 DEF r
        <5>3. cancel'[l] = cancel[l]
          BY <2>2, <5>2
        <5> QED
          BY <2>1, <4>2, <5>1, <5>3 DEF OwnsUp
      <4> QED
        BY <4>1, <4>2
    <3>2. \A c \in Creates : Exists(c)' => reservation'[c].user = Owner[reservation'[c].proposal]
      BY <2>1, <2>3 DEF RowInv, OwnerPart
    <3>3. \A c \in Creates : create'[c].pc \notin {"idle", "done"} =>
            create'[c].user = Owner[create'[c].proposal]
      BY <1>0 DEF RowInv, OwnerPart
    <3> QED
      BY <3>1, <3>2, <3>3 DEF OwnerPart
  <2>7. CancelPart'
    <3>1. \A l \in Cancels : Winner(l) => cancel[l].row # r
      <4>1. \A l \in Cancels : Winner(l) => reservation[cancel[l].row].status = "CANCELLED"
        BY DEF RowInv, CancelPart
      <4> QED
        BY <1>2, <4>1
    <3>2. ASSUME NEW l \in Cancels, l # k
          PROVE  cancel'[l] = cancel[l] /\ (Winner(l)' => Winner(l))
      <4>1. cancel'[l] = cancel[l]
        BY <2>2, <3>2
      <4> QED
        BY <4>1 DEF Winner
    <3>3. \A n \in notices : n.type = "RESERVATION_CANCELLED" => n.from # k
      BY <1>0 DEF RowInv, CancelPart
    <3>4. \A l \in Cancels : Winner(l)' =>
            cancel'[l].row \in Creates /\ reservation'[cancel'[l].row].status = "CANCELLED"
      <4> SUFFICES ASSUME NEW l \in Cancels, Winner(l)'
                   PROVE  cancel'[l].row \in Creates
                          /\ reservation'[cancel'[l].row].status = "CANCELLED"
        OBVIOUS
      <4>1. CASE l = k
        BY <1>0, <2>1, <2>2, <4>1 DEF r
      <4>2. CASE l # k
        BY <2>1, <3>1, <3>2, <4>2 DEF RowInv, CancelPart
      <4> QED
        BY <4>1, <4>2
    <3>5. \A l, m \in Cancels : Winner(l)' /\ Winner(m)' /\ cancel'[l].row = cancel'[m].row => l = m
      BY <2>2, <3>1, <3>2 DEF RowInv, CancelPart
    <3>6. \A l \in Cancels : ReadBefore(l)'
      <4> SUFFICES ASSUME NEW l \in Cancels PROVE ReadBefore(l)'
        OBVIOUS
      <4>1. CASE l = k
        BY <2>2, <4>1 DEF ReadBefore
      <4>2. CASE l # k
        <5>1. \A d \in Creates : Exists(d) =>
                /\ Exists(d)' /\ reservation'[d].user = reservation[d].user
                /\ reservation[d].status \in {"COMPLETED", "CANCELLED"} =>
                     reservation'[d].status = reservation[d].status
          BY <1>2, <2>1, <2>3
        <5> QED
          BY <2>2, <4>2, <5>1, ReadBeforeKept
      <4> QED
        BY <4>1, <4>2
    <3>7. \A n \in notices : n.type = "RESERVATION_CONFIRMED" => n.from = n.row /\ Exists(n.row)'
      <4>1. \A n \in notices : n.row \in Creates
        BY <1>0 DEF TypeOK, Notice
      <4> QED
        BY <2>3, <4>1 DEF RowInv, CancelPart
    <3> QED
      BY <1>0, <2>2, <3>3, <3>4, <3>5, <3>6, <3>7 DEF RowInv, CancelPart
  <2> QED
    BY <2>4, <2>5, <2>6, <2>7
<1> QED
  BY <1>1, <1>2 DEF CancelUpdate

(* A winner goes on, or breaks off, and stays one. *)
LEMMA WinnerMoves ==
  ASSUME RowInv, NEW k \in Cancels, UNCHANGED <<slots, reservation, create>>,
         \A l \in Cancels : l # k => cancel'[l] = cancel[l],
         Winner(k), Winner(k)', cancel'[k].row = cancel[k].row,
         cancel'[k].user = cancel[k].user, cancel[k].pc # "done", cancel'[k].pc # "update",
         cancel'[k].outcome # "alreadyFinalized", cancel'[k].pc # "idle",
         cancel'[k].pc # "done" => cancel'[k].outcome = "none",
         NEW n,
         n.type = "RESERVATION_CANCELLED" /\ n.row = cancel[k].row /\ n.from = k,
         \/ notices' = notices
         \/ notices' = notices \union {n} /\ cancel'[k].outcome = "cancelled"
  PROVE  SlotPart' /\ AnswerPart' /\ OwnerPart' /\ CancelPart'
<1>1. SlotPart'
  BY SlotPartKept DEF RowInv
<1>2. AnswerPart'
  BY DEF RowInv, AnswerPart, AnswerMatchesDatabase, Exists
<1>3. \A l \in Cancels : /\ cancel'[l].row = cancel[l].row /\ cancel'[l].user = cancel[l].user
                         /\ Winner(l)' <=> Winner(l)
                         /\ OwnsUp(l) => OwnsUp(l)'
                         /\ cancel[l].pc # "idle" => cancel'[l].pc # "idle"
                         /\ cancel[l].outcome = "cancelled" => cancel'[l].outcome = "cancelled"
                         /\ cancel'[l].pc # "done" => cancel'[l].outcome = "none"
                         /\ ReadBefore(l)'
  <2> SUFFICES ASSUME NEW l \in Cancels
               PROVE  /\ cancel'[l].row = cancel[l].row /\ cancel'[l].user = cancel[l].user
                      /\ Winner(l)' <=> Winner(l)
                      /\ OwnsUp(l) => OwnsUp(l)'
                      /\ cancel[l].pc # "idle" => cancel'[l].pc # "idle"
                      /\ cancel[l].outcome = "cancelled" => cancel'[l].outcome = "cancelled"
                      /\ cancel'[l].pc # "done" => cancel'[l].outcome = "none"
                      /\ ReadBefore(l)'
    OBVIOUS
  <2>1. CASE l = k
    <3>1. cancel[k].outcome = "none"
      BY DEF RowInv, CancelPart
    <3>2. OwnsUp(k)' /\ ReadBefore(k)'
      BY DEF Winner, OwnsUp, ReadBefore
    <3> QED
      BY <2>1, <3>1, <3>2
  <2>2. CASE l # k
    <3>1. cancel'[l] = cancel[l]
      BY <2>2
    <3>2. ReadBefore(l)'
      BY <3>1, ReadBeforeKept DEF Exists
    <3> QED
      BY <3>1, <3>2 DEF Winner, OwnsUp, RowInv, CancelPart
  <2> QED
    BY <2>1, <2>2
<1>4. OwnerPart'
  BY <1>3 DEF RowInv, OwnerPart, Exists
<1>5. CancelPart'
  <2>1. \A m \in notices' : m.type = "RESERVATION_CONFIRMED" => m.from = m.row /\ Exists(m.row)'
    BY DEF RowInv, CancelPart, Exists
  <2>2. \A m \in notices' : m.type = "RESERVATION_CANCELLED" =>
          /\ m.from \in Cancels /\ cancel'[m.from].outcome = "cancelled"
          /\ cancel'[m.from].row = m.row
    BY <1>3 DEF RowInv, CancelPart
  <2> QED
    BY <1>3, <2>1, <2>2 DEF RowInv, CancelPart
<1> QED
  BY <1>1, <1>2, <1>4, <1>5

NoticeOf(k) == [type |-> "RESERVATION_CANCELLED", row |-> cancel[k].row, from |-> k]

LEMMA ReadCancelledStep ==
  ASSUME RowInv, NEW k \in Cancels, ReadCancelled(k)
  PROVE  SlotPart' /\ AnswerPart' /\ OwnerPart' /\ CancelPart'
<1>1. /\ cancel[k].pc = "reread" /\ cancel[k].outcome = "none"
      /\ UNCHANGED <<slots, reservation, create, notices>>
  BY DEF RowInv, CancelPart, ReadCancelled, Tables
<1>2. /\ \A l \in Cancels : l # k => cancel'[l] = cancel[l]
      /\ cancel'[k].pc = "notify" /\ cancel'[k].outcome = "none"
      /\ cancel'[k].row = cancel[k].row /\ cancel'[k].user = cancel[k].user
  BY <1>1 DEF ReadCancelled, RowInv, BookingInv, TypeOK, CancelRequest
<1>3. Winner(k) /\ Winner(k)'
  BY <1>1, <1>2 DEF Winner
<1>4. /\ NoticeOf(k).type = "RESERVATION_CANCELLED" /\ NoticeOf(k).row = cancel[k].row
      /\ NoticeOf(k).from = k
  BY DEF NoticeOf
<1> QED
  BY <1>1, <1>2, <1>3, <1>4, WinnerMoves

LEMMA CancelFailsStep ==
  ASSUME RowInv, NEW k \in Cancels, CancelFails(k)
  PROVE  SlotPart' /\ AnswerPart' /\ OwnerPart' /\ CancelPart'
<1>0. TypeOK /\ UNCHANGED <<slots, reservation, create, notices>>
  BY DEF RowInv, BookingInv, CancelFails, Tables
<1>1. CASE cancel[k].pc = "update" /\ AnswerCancel(k, "failed")
  <2>1. cancel[k].outcome = "none"
    BY <1>1 DEF RowInv, CancelPart
  <2>2. /\ \A l \in Cancels : l # k => cancel'[l] = cancel[l]
        /\ cancel'[k].pc = "done" /\ cancel'[k].outcome = "failed"
        /\ cancel'[k].row = cancel[k].row /\ cancel'[k].user = cancel[k].user
    BY <1>0, <1>1, AnswerCancelEffect
  <2>3. ~OwnsUp(k) /\ ~Winner(k)' /\ ReadBefore(k)'
    BY <1>1, <2>1, <2>2 DEF Winner, OwnsUp, ReadBefore
  <2> QED
    BY <1>0, <2>2, <2>3, CancelMoves
<1>2. CASE cancel[k].pc = "reread" /\ AnswerCancel(k, "unconfirmed")
  <2>1. /\ \A l \in Cancels : l # k => cancel'[l] = cancel[l]
        /\ cancel'[k].pc = "done" /\ cancel'[k].outcome = "unconfirmed"
        /\ cancel'[k].row = cancel[k].row /\ cancel'[k].user = cancel[k].user
    BY <1>0, <1>2, AnswerCancelEffect
  <2>2. Winner(k) /\ Winner(k)'
    BY <1>2, <2>1 DEF Winner
  <2>3. /\ NoticeOf(k).type = "RESERVATION_CANCELLED" /\ NoticeOf(k).row = cancel[k].row
        /\ NoticeOf(k).from = k
    BY DEF NoticeOf
  <2> QED
    BY <1>0, <1>2, <2>1, <2>2, <2>3, WinnerMoves
<1> QED
  BY <1>1, <1>2 DEF CancelFails

LEMMA NotifyCancelledStep ==
  ASSUME RowInv, NEW k \in Cancels, NotifyCancelled(k)
  PROVE  SlotPart' /\ AnswerPart' /\ OwnerPart' /\ CancelPart'
<1>1. /\ TypeOK /\ cancel[k].pc = "notify" /\ UNCHANGED <<slots, reservation, create>>
      /\ AnswerCancel(k, "cancelled") /\ notices' \in {notices, notices \union {NoticeOf(k)}}
  BY DEF RowInv, BookingInv, NotifyCancelled, Tables, NoticeOf
<1>2. /\ \A l \in Cancels : l # k => cancel'[l] = cancel[l]
      /\ cancel'[k].pc = "done" /\ cancel'[k].outcome = "cancelled"
      /\ cancel'[k].row = cancel[k].row /\ cancel'[k].user = cancel[k].user
  BY <1>1, AnswerCancelEffect
<1>3. Winner(k) /\ Winner(k)'
  BY <1>1, <1>2 DEF Winner
<1>4. /\ NoticeOf(k).type = "RESERVATION_CANCELLED" /\ NoticeOf(k).row = cancel[k].row
      /\ NoticeOf(k).from = k
  BY DEF NoticeOf
<1> QED
  BY <1>1, <1>2, <1>3, <1>4, WinnerMoves

-----------------------------------------------------------------------------
(* The environment. *)

LEMMA CompleteVisitStep ==
  ASSUME RowInv, NEW r \in Creates, CompleteVisit(r)
  PROVE  SlotPart' /\ AnswerPart' /\ OwnerPart' /\ CancelPart'
<1>1. /\ UNCHANGED <<slots, create, cancel, notices>> /\ reservation[r].status = "CONFIRMED"
      /\ \A d \in Creates : /\ d # r => reservation'[d] = reservation[d]
                            /\ reservation'[d].proposal = reservation[d].proposal
                            /\ reservation'[d].user = reservation[d].user
                            /\ reservation'[d].at = reservation[d].at
      /\ reservation'[r].status = "COMPLETED"
  BY DEF CompleteVisit, RowInv, BookingInv, TypeOK, ReservationRow
<1>2. \A d \in Creates : /\ Exists(d)' <=> Exists(d)
                         /\ reservation'[d].status = "CANCELLED" <=>
                              reservation[d].status = "CANCELLED"
  BY <1>1 DEF Exists
<1>3. SlotPart'
  <2>1. ReservedSlotKept' /\ SelectionHasReservation'
    BY <1>1, <1>2 DEF RowInv, SlotPart, ReservedSlotKept, SelectionHasReservation, LiveSlotOf
  <2> QED
    BY <1>1, <2>1 DEF RowInv, SlotPart
<1>4. AnswerPart'
  BY <1>1, <1>2 DEF RowInv, AnswerPart, AnswerMatchesDatabase
<1>5. OwnerPart'
  BY <1>1, <1>2 DEF RowInv, OwnerPart, OwnsUp
<1>6. CancelPart'
  <2>1. \A k \in Cancels : ReadBefore(k)'
    <3>1. \A d \in Creates : Exists(d) =>
            /\ Exists(d)' /\ reservation'[d].user = reservation[d].user
            /\ reservation[d].status \in {"COMPLETED", "CANCELLED"} =>
                 reservation'[d].status = reservation[d].status
      BY <1>1, <1>2
    <3> QED
      BY <1>1, <3>1, ReadBeforeKept
  <2>2. \A n \in notices : n.row \in Creates
    BY DEF RowInv, BookingInv, TypeOK, Notice
  <2> QED
    BY <1>1, <1>2, <2>1, <2>2 DEF RowInv, CancelPart, Winner
<1> QED
  BY <1>3, <1>4, <1>5, <1>6

(* A saver's commit leaves every selected slot, and every slot of a        *)
(* proposal whose lock another transaction holds.                          *)
LEMMA SaverCommitsStep ==
  ASSUME RowInv, NEW v \in Savers, NEW p \in Proposals, NEW added \in SUBSET Slots,
         NEW at \in [added -> Times], SaverCommits(v, p, added, at)
  PROVE  SlotPart' /\ AnswerPart' /\ OwnerPart' /\ CancelPart'
<1>1. /\ UNCHANGED <<reservation, create, cancel, notices>> /\ rowLock[p] = v
      /\ \A s \in added : slots[s].state = "unused"
      /\ slots' = [s \in Slots |->
           IF s \in added
           THEN [state |-> "live", proposal |-> p, at |-> at[s], selected |-> FALSE]
           ELSE IF LiveSlotOf(s, p) /\ ~slots[s].selected
                THEN [slots[s] EXCEPT !.state = "deleted"]
                ELSE slots[s]]
      /\ slots \in [Slots -> SlotRow]
  BY DEF SaverCommits, RowInv, BookingInv, TypeOK
<1>2. ASSUME NEW s \in Slots
      PROVE  /\ slots[s].state # "unused" =>
                  /\ slots'[s].state # "unused" /\ slots'[s].proposal = slots[s].proposal
                  /\ slots'[s].at = slots[s].at /\ slots'[s].selected = slots[s].selected
                  /\ slots[s].proposal # p => slots'[s] = slots[s]
             /\ slots[s].selected /\ slots[s].state = "live" => slots'[s] = slots[s]
             /\ slots'[s].selected => slots[s].selected
  <2>1. CASE s \in added
    BY <1>1, <2>1
  <2>2. CASE s \notin added /\ LiveSlotOf(s, p) /\ ~slots[s].selected
    BY <1>1, <2>2 DEF SlotRow, LiveSlotOf
  <2>3. CASE s \notin added /\ ~(LiveSlotOf(s, p) /\ ~slots[s].selected)
    BY <1>1, <2>3
  <2> QED
    BY <2>1, <2>2, <2>3
<1>3. \A s \in Slots : slots[s].selected => slots'[s] = slots[s]
  BY <1>2 DEF RowInv, SlotPart
<1>4. ASSUME NEW c \in Creates, create[c].pc \in Pending
      PROVE  /\ slots'[create[c].slot].state # "unused"
             /\ slots'[create[c].slot].proposal = create[c].proposal
             /\ slots'[create[c].slot].at = create[c].at
             /\ create[c].pc = "commit" => slots'[create[c].slot].state = "live"
  <2>1. create[c].slot \in Slots
    BY <1>4 DEF RowInv, BookingInv, Arrived, Pending, InTransaction
  <2>2. create[c].pc = "commit" => create[c].proposal # p
    BY <1>1, TransactionsAssumption DEF RowInv, BookingInv, Locking, InTransaction
  <2> QED
    BY <1>2, <1>4, <2>1, <2>2 DEF RowInv, SlotPart
<1>5. SlotPart'
  <2>1. ReservedSlotKept'
    BY <1>1, <1>3 DEF RowInv, SlotPart, ReservedSlotKept, Exists, LiveSlotOf
  <2>2. SelectionHasReservation'
    BY <1>1, <1>2, <1>3 DEF RowInv, SlotPart, SelectionHasReservation, Exists
  <2>3. \A s \in Slots : slots'[s].selected => slots'[s].state = "live"
    BY <1>2, <1>3 DEF RowInv, SlotPart
  <2>4. "commit" \in Pending
    BY DEF Pending, InTransaction
  <2> QED
    BY <1>1, <1>4, <2>1, <2>2, <2>3, <2>4 DEF SlotPart, Pending, InTransaction
<1>6. AnswerPart' /\ OwnerPart'
  BY <1>1 DEF RowInv, AnswerPart, AnswerMatchesDatabase, OwnerPart, OwnsUp, Exists
<1>7. CancelPart'
  BY <1>1, CancelPartKept DEF RowInv
<1> QED
  BY <1>5, <1>6, <1>7

LEMMA CrashStep ==
  ASSUME RowInv, ServerCrash
  PROVE  SlotPart' /\ AnswerPart' /\ OwnerPart' /\ CancelPart'
<1>0. UNCHANGED <<slots, reservation, notices>> /\ TypeOK
  BY DEF ServerCrash, Tables, RowInv, BookingInv
<1>1. ASSUME NEW c \in Creates
      PROVE  \/ create'[c] = create[c] /\ create[c].pc \in {"idle", "done"}
             \/ create'[c].pc = "done" /\ create'[c].outcome = "lost"
  BY <1>0 DEF ServerCrash, TypeOK, CreateRequest
<1>2. ASSUME NEW k \in Cancels
      PROVE  /\ cancel'[k].row = cancel[k].row /\ cancel'[k].user = cancel[k].user
             /\ cancel[k].pc # "idle" => cancel'[k].pc # "idle"
             /\ \/ cancel'[k] = cancel[k]
                \/ /\ cancel[k].pc # "done" /\ cancel'[k].pc = "done"
                   /\ cancel'[k].outcome = "lost"
  BY <1>0 DEF ServerCrash, TypeOK, CancelRequest
<1>3. SlotPart'
  <2>1. \A c \in Creates : create'[c] = create[c] \/ create'[c].pc \notin Pending
    BY <1>1 DEF Pending, InTransaction
  <2> QED
    BY <1>0, <2>1, SlotPartKept DEF RowInv
<1>4. AnswerPart'
  BY <1>0, <1>1 DEF RowInv, AnswerPart, AnswerMatchesDatabase, Exists
<1>5. OwnerPart'
  <2>1. \A c \in Creates : create'[c].pc \in {"idle", "done"}
    BY <1>1
  <2>2. \A k \in Cancels : OwnsUp(k) => OwnsUp(k)'
    BY <1>2 DEF OwnsUp
  <2> QED
    BY <1>0, <1>2, <2>1, <2>2 DEF RowInv, OwnerPart, Exists
<1>6. CancelPart'
  <2>1. \A k \in Cancels : /\ Winner(k)' => Winner(k) /\ cancel'[k] = cancel[k]
                           /\ cancel[k].outcome = "cancelled" => cancel'[k] = cancel[k]
                           /\ cancel'[k].pc # "done" => cancel'[k] = cancel[k]
    BY <1>2 DEF Winner, RowInv, CancelPart
  <2>2. \A k \in Cancels : ReadBefore(k)'
    <3> SUFFICES ASSUME NEW k \in Cancels PROVE ReadBefore(k)'
      OBVIOUS
    <3>1. CASE cancel'[k] = cancel[k]
      BY <1>0, <3>1, ReadBeforeKept DEF Exists
    <3>2. CASE cancel'[k].pc = "done" /\ cancel'[k].outcome = "lost"
      BY <3>2 DEF ReadBefore
    <3> QED
      BY <1>2, <3>1, <3>2
  <2> QED
    BY <1>0, <2>1, <2>2 DEF RowInv, CancelPart, Exists
<1> QED
  BY <1>3, <1>4, <1>5, <1>6

LEMMA RowInvInit == Init => SlotPart /\ AnswerPart /\ OwnerPart /\ CancelPart
  BY DEF Init, SlotPart, AnswerPart, OwnerPart, CancelPart, Winner, ReadBefore, Pending, InTransaction,
     ReservedSlotKept, SelectionHasReservation, AnswerMatchesDatabase, Exists,
     NoReservation, UnusedSlot

LEMMA RowInvStep ==
  RowInv /\ [Next]_vars => SlotPart' /\ AnswerPart' /\ OwnerPart' /\ CancelPart'
<1> SUFFICES ASSUME RowInv, [Next]_vars
             PROVE  SlotPart' /\ AnswerPart' /\ OwnerPart' /\ CancelPart'
  OBVIOUS
<1>1. ASSUME NEW c \in Creates, CreateStep(c)
      PROVE  SlotPart' /\ AnswerPart' /\ OwnerPart' /\ CancelPart'
  BY <1>1, BeforeCommitStep, CommitStep, NotifyCreatedStep DEF CreateStep, BeforeCommit
<1>2. ASSUME NEW k \in Cancels, CancelStep(k)
      PROVE  SlotPart' /\ AnswerPart' /\ OwnerPart' /\ CancelPart'
  BY <1>2, CancelUpdateStep, ReadCancelledStep, CancelFailsStep, NotifyCancelledStep DEF CancelStep
<1>3. CASE UNCHANGED <<slots, reservation, create, cancel, notices>>
  <2>1. SlotPart' /\ CancelPart'
    BY <1>3, SlotPartKept, CancelPartKept DEF RowInv
  <2> QED
    BY <1>3, <2>1 DEF RowInv, AnswerPart, AnswerMatchesDatabase, OwnerPart, OwnsUp, Exists
<1>4. ASSUME NEW v \in Savers, NEW p \in Proposals, SaverLocks(v, p) \/ SaverAborts(v, p)
      PROVE  UNCHANGED <<slots, reservation, create, cancel, notices>>
  BY <1>4 DEF SaverLocks, SaverAborts, Tables
<1>5. UNCHANGED vars => UNCHANGED <<slots, reservation, create, cancel, notices>>
  BY DEF vars
<1>6. CASE Environment
  BY <1>3, <1>4, <1>6, CompleteVisitStep, SaverCommitsStep, CrashStep
  DEF Environment, SaverEnds
<1> QED
  BY <1>1, <1>2, <1>3, <1>5, <1>6, BeginCreateStep, BeginCancelStep DEF Next

LEMMA RowInvariant == Spec => []RowInv
<1>1. RowInv /\ [Next]_vars /\ BookingInv' => RowInv'
  BY RowInvStep DEF RowInv
<1>2. Init /\ BookingInv => RowInv
  BY RowInvInit DEF RowInv
<1> QED
  BY <1>1, <1>2, BookingInvariant, PTL DEF Spec

-----------------------------------------------------------------------------
(* The slot of a reservation is there, selected and at the reserved time,  *)
(* whatever re-parses of the proposal come before or after.                *)
LEMMA SlotKept == Spec => []ReservedSlotKept
<1>1. RowInv => ReservedSlotKept
  BY DEF RowInv, SlotPart
<1> QED
  BY <1>1, RowInvariant, PTL

(* Only committed reservations select slots.                               *)
LEMMA SelectionEarned == Spec => []SelectionHasReservation
<1>1. RowInv => SelectionHasReservation
  BY DEF RowInv, SlotPart
<1> QED
  BY <1>1, RowInvariant, PTL

(* The times of a proposal and its reservations never part, for any number *)
(* of requests, saves of the shop's answer and crashes.                    *)
THEOREM SlotsMatch == Spec => []SlotsMatchReservations
  BY SlotKept, SelectionEarned, PTL DEF SlotsMatchReservations

(* 201 is answered only for a row that is there, an error only if there is *)
(* none: timeouts, conflicts and failed statements included; but for the   *)
(* 500 after a commit that was not acknowledged.                           *)
LEMMA AnswersTrue == Spec => []AnswerMatchesDatabase
<1>1. RowInv => AnswerMatchesDatabase
  BY DEF RowInv, AnswerPart
<1> QED
  BY <1>1, RowInvariant, PTL

(* Concurrent cancel requests: one at most succeeds, and 409 is true.      *)
LEMMA OneCancellation == Spec => []CancelledOnce
<1>1. RowInv => CancelledOnce
  <2> SUFFICES ASSUME RowInv PROVE CancelledOnce
    OBVIOUS
  <2>1. ASSUME NEW k \in Cancels, NEW l \in Cancels,
               {cancel[k].outcome, cancel[l].outcome} \subseteq {"cancelled", "unconfirmed"},
               cancel[k].row = cancel[l].row
        PROVE  k = l
    <3>1. Winner(k) /\ Winner(l)
      BY <2>1 DEF Winner
    <3> QED
      BY <2>1, <3>1 DEF RowInv, CancelPart
  <2>2. \A k \in Cancels : cancel[k].outcome \in {"cancelled", "unconfirmed"} =>
          reservation[cancel[k].row].status = "CANCELLED"
    BY DEF RowInv, CancelPart, Winner
  <2>3. \A k \in Cancels : cancel[k].outcome = "alreadyFinalized" =>
          reservation[cancel[k].row].status \in {"COMPLETED", "CANCELLED"}
    BY DEF RowInv, CancelPart, ReadBefore
  <2> QED
    BY <2>1, <2>2, <2>3 DEF CancelledOnce
<1> QED
  BY <1>1, RowInvariant, PTL

(* Somebody answers for every cancellation: with "cancelled", unless the   *)
(* request broke off behind the update.                                    *)
LEMMA NoneSilent == Spec => []NoSilentCancellation
<1>1. RowInv => NoSilentCancellation
  BY DEF RowInv, OwnerPart, NoSilentCancellation
<1> QED
  BY <1>1, RowInvariant, PTL

(* No notice comes twice, and none is false.                               *)
LEMMA NoticesAreTrue == Spec => []NoticesTrue
<1>1. RowInv => NoticesTrue
  <2> SUFFICES ASSUME RowInv PROVE NoticesTrue
    OBVIOUS
  <2>1. ASSUME NEW n \in notices, n.type = "RESERVATION_CANCELLED"
        PROVE  /\ n.from \in Cancels /\ Winner(n.from) /\ cancel[n.from].row = n.row
               /\ cancel[n.from].outcome = "cancelled"
               /\ reservation[n.row].status = "CANCELLED"
    BY <2>1 DEF RowInv, CancelPart, Winner
  <2>2. ASSUME NEW n \in notices, NEW m \in notices, n.type = m.type, n.row = m.row
        PROVE  n = m
    <3>1. n \in Notice /\ m \in Notice
      BY DEF RowInv, BookingInv, TypeOK
    <3>2. n.from = m.from
      <4>1. CASE n.type = "RESERVATION_CONFIRMED"
        BY <2>2, <4>1 DEF RowInv, CancelPart
      <4>2. CASE n.type = "RESERVATION_CANCELLED"
        <5>1. /\ n.from \in Cancels /\ Winner(n.from) /\ cancel[n.from].row = n.row
              /\ m.from \in Cancels /\ Winner(m.from) /\ cancel[m.from].row = n.row
          BY <2>1, <2>2, <4>2
        <5> QED
          BY <5>1 DEF RowInv, CancelPart
      <4> QED
        BY <3>1, <4>1, <4>2 DEF Notice
    <3> QED
      BY <2>2, <3>1, <3>2 DEF Notice
  <2>3. ASSUME NEW n \in notices PROVE Exists(n.row)
    <3>1. CASE n.type = "RESERVATION_CONFIRMED"
      BY <3>1 DEF RowInv, CancelPart
    <3>2. CASE n.type = "RESERVATION_CANCELLED"
      BY <2>1, <3>2 DEF Exists
    <3> QED
      BY <3>1, <3>2 DEF RowInv, BookingInv, TypeOK, Notice
  <2> QED
    BY <2>1, <2>2, <2>3 DEF NoticesTrue
<1> QED
  BY <1>1, RowInvariant, PTL

(* No answer and no notice of Reservation is false, none comes twice, and  *)
(* a 500 that hides a committed write comes only of a failure behind it.   *)
THEOREM ToldTheTruth == Spec => []ClientsToldTheTruth
  BY AnswersTrue, OneCancellation, NoneSilent, NoticesAreTrue, PTL DEF ClientsToldTheTruth

(* A reservation is its owner's from the request to the cancellation.      *)
THEOREM Ownership == Spec => []OwnersOnly
<1>1. RowInv => OwnersOnly
  BY DEF RowInv, OwnerPart, OwnersOnly
<1> QED
  BY <1>1, RowInvariant, PTL
=============================================================================
