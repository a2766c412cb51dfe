------------------------------ MODULE UserAddress ------------------------------
(***************************************************************************)
(* The addresses of one user and which of them is the default one:         *)
(* UserAddressService over the table user_addresses.                       *)
(*                                                                         *)
(* Addresses are numbered in the order they were registered, which is the  *)
(* order of createdAt.  Requests are answered and arrive again; each       *)
(* statement is a step, except that the statements after an updateMany     *)
(* over the user's rows are one step with it: it locks all of them, and    *)
(* the gaps between.                                                       *)
(***************************************************************************)
EXTENDS Naturals, FiniteSets

CONSTANTS
  MaxAddresses,   \* bound on the addresses ever registered
  AddressCalls,
  NoAddress

ASSUME AddressAssumption == MaxAddresses \in Nat /\ NoAddress \notin Nat

VARIABLES
  address,      \* registered and not deleted
  default,      \* those of them with isDefault
  lastAddress,  \* the last id given out
  request       \* request[c]: where a call stands

addressVars == <<address, default, lastAddress, request>>

-----------------------------------------------------------------------------
Addresses == 1..MaxAddresses

RequestRecord ==
  [pc: {"idle", "create", "update", "delete", "next", "promote"},
   target: Addresses \union {NoAddress},
   wants: {"default", "other", "keep"},   \* the body's isDefault, if any
   wasDefault: BOOLEAN,
   next: Addresses \union {NoAddress}]

NewRequest ==
  [pc |-> "idle", target |-> NoAddress, wants |-> "keep", wasDefault |-> FALSE,
   next |-> NoAddress]

AddressTypeOK ==
  /\ address \in SUBSET Addresses
  /\ default \in SUBSET address
  /\ lastAddress \in 0..MaxAddresses
  /\ request \in [AddressCalls -> RequestRecord]

AddressInit ==
  /\ address = {}
  /\ default = {}
  /\ lastAddress = 0
  /\ request = [c \in AddressCalls |-> NewRequest]

-----------------------------------------------------------------------------
(* Rows deleted by a transaction that has not committed: others read them, *)
(* and wait if they want to write them.                                    *)
Locked == {request[c].target : c \in {d \in AddressCalls : request[d].pc \in {"next", "promote"}}}

At(c, pc) == request[c].pc = pc

Move(c, record) == request' = [request EXCEPT ![c] = record]

(* The answer is sent and the call may come again. *)
Close(c) == Move(c, NewRequest)

Oldest(S) == CHOOSE a \in S : \A b \in S : a <= b

(* Variant: the first address is the default one only if it asks to be. *)
BeginCreateAsAsked(c, wants) ==
  /\ At(c, "idle")
  /\ Move(c, [NewRequest EXCEPT !.pc = "create", !.wasDefault = wants = "default"])
  /\ UNCHANGED <<address, default, lastAddress>>

(* create: the count, from the snapshot of the transaction. *)
BeginCreate(c, wants) ==
  /\ At(c, "idle")
  /\ Move(c, [NewRequest EXCEPT !.pc = "create",
                                !.wasDefault = wants = "default" \/ address = {}])
  /\ UNCHANGED <<address, default, lastAddress>>

(* updateMany, if it is to be the default one, and the insert. *)
InsertAddress(c) ==
  /\ At(c, "create")
  /\ lastAddress < MaxAddresses
  /\ request[c].wasDefault => Locked = {}
  /\ lastAddress' = lastAddress + 1
  /\ address' = address \union {lastAddress'}
  /\ default' = IF request[c].wasDefault THEN {lastAddress'} ELSE default
  /\ Close(c)

(* updateAddress: unknown 404; withdrawing the default flag 400. *)
FindForChange(c, a, wants) ==
  /\ At(c, "idle")
  /\ Move(c, IF a \notin address \/ (a \in default /\ wants = "other") THEN NewRequest
             ELSE [NewRequest EXCEPT !.pc = "update", !.target = a, !.wants = wants])
  /\ UNCHANGED <<address, default, lastAddress>>

(* update: updateMany, if it is to be the default one, and the row, which  *)
(* may be gone by now: 500, rolled back.                                   *)
ChangeAddress(c) ==
  LET a == request[c].target IN
  /\ At(c, "update")
  /\ a \notin Locked
  /\ request[c].wants = "default" => Locked = {}
  /\ default' = IF a \notin address \/ request[c].wants = "keep" THEN default
                ELSE IF request[c].wants = "default" THEN {a} ELSE default \ {a}
  /\ Close(c)
  /\ UNCHANGED <<address, lastAddress>>

(* deleteAddress: unknown 404; isDefault is remembered. *)
FindForRemoval(c, a) ==
  /\ At(c, "idle")
  /\ Move(c, IF a \notin address THEN NewRequest
             ELSE [NewRequest EXCEPT !.pc = "delete", !.target = a, !.wasDefault = a \in default])
  /\ UNCHANGED <<address, default, lastAddress>>

(* The row goes; that is all unless it was the default one. *)
RemoveAddress(c) ==
  LET a == request[c].target IN
  /\ At(c, "delete")
  /\ a \notin Locked
  /\ IF request[c].wasDefault /\ a \in address
     THEN /\ Move(c, [request[c] EXCEPT !.pc = "next"])
          /\ UNCHANGED <<address, default>>
     ELSE /\ address' = address \ {a}
          /\ default' = default \ {a}
          /\ Close(c)
  /\ UNCHANGED lastAddress

(* The oldest of the others, from the snapshot this read takes. *)
FindNext(c) ==
  LET others == address \ {request[c].target} IN
  /\ At(c, "next")
  /\ Move(c, [request[c] EXCEPT
       !.pc = "promote",
       !.next = IF others = {} THEN NoAddress ELSE Oldest(others)])
  /\ UNCHANGED <<address, default, lastAddress>>

(* It becomes the default one, commit.  If it is gone: 500, rolled back. *)
PromoteNext(c) ==
  LET a == request[c].target
      b == request[c].next
  IN
  /\ At(c, "promote")
  /\ b \notin Locked
  /\ IF b \in address \union {NoAddress}
     THEN /\ address' = address \ {a}
          /\ default' = (default \ {a}) \union ({b} \ {NoAddress})
     ELSE UNCHANGED <<address, default>>
  /\ Close(c)
  /\ UNCHANGED lastAddress

(* A statement fails, a transaction is chosen to end a deadlock, or the    *)
(* server dies: rolled back, the caller may ask again.                     *)
AbandonRequest(c) ==
  /\ ~At(c, "idle")
  /\ Close(c)
  /\ UNCHANGED <<address, default, lastAddress>>

AddressNext ==
  \E c \in AddressCalls :
    \/ \E wants \in {"default", "other"} : BeginCreate(c, wants)
    \/ InsertAddress(c)
    \/ \E a \in Addresses :
         \/ \E wants \in {"default", "other", "keep"} : FindForChange(c, a, wants)
         \/ FindForRemoval(c, a)
    \/ ChangeAddress(c) \/ RemoveAddress(c) \/ FindNext(c) \/ PromoteNext(c)
    \/ AbandonRequest(c)

AddressSpec == AddressInit /\ [][AddressNext]_addressVars

-----------------------------------------------------------------------------
(* Properties *)

(* A user who has addresses has one default address.  True of one request  *)
(* at a time; two at a time can leave none, or two.                        *)
OneDefaultAddress == address # {} => Cardinality(default) = 1

(* When the default address is deleted, the one registered first of those  *)
(* that are left takes its place, whatever was made default before.        *)
OldestTakesOver ==
  \A a \in default \ address' : address' # {} => default' = {Oldest(address')}

(* Both of one request at a time, whatever the one before it left behind.  *)
DefaultPassesOn == [][OneDefaultAddress' /\ OldestTakesOver]_addressVars

(* "The default address cannot be withdrawn directly" (a test of the       *)
(* service; DefaultUserAddressRequiredError: "make another address the     *)
(* default one first"): refuted for two requests at a time, isDefault is   *)
(* checked before the update and not by it.                                *)
DefaultNotWithdrawn ==
  [][\A a \in default : a \in address' => default' # {}]_addressVars
=============================================================================
