------------------------------- MODULE ShopWish -------------------------------
(***************************************************************************)
(* The heart of one user on one shop: ShopQueryController.toggleWish,      *)
(* ShopQueryService.toggleWish and the three statements it makes on        *)
(* wish_shops, each committed at once.                                     *)
(***************************************************************************)
EXTENDS Integers, FiniteSets

CONSTANTS
  Taps,      \* requests handled at a time
  MaxTaps    \* bound on the requests answered

ASSUME WishAssumption == MaxTaps \in Nat /\ IsFiniteSet(Taps)

VARIABLES
  active,     \* shops.is_data_active
  wished,     \* there is a row
  tap,        \* tap[c]: where a request stands
  inserted,   \* history: rows inserted,
  turnedOff,  \* answers isWished = false,
  untold,     \* errors after the row was removed,
  toggled     \* and requests that took effect

wishVars == <<active, wished, tap, inserted, turnedOff, untold, toggled>>

-----------------------------------------------------------------------------
TapPoint == {"answered", "delete", "select", "insert", "deleted"}

WishTypeOK ==
  /\ active \in BOOLEAN /\ wished \in BOOLEAN
  /\ tap \in [Taps -> TapPoint]
  /\ toggled \in 0..MaxTaps
  /\ inserted \in 0..MaxTaps
  /\ turnedOff \in 0..inserted /\ untold \in 0..inserted

WishInit ==
  /\ active = TRUE /\ wished = FALSE
  /\ tap = [c \in Taps |-> "answered"]
  /\ inserted = 0 /\ turnedOff = 0 /\ untold = 0 /\ toggled = 0

TapTo(c, pc) == tap' = [tap EXCEPT ![c] = pc]

-----------------------------------------------------------------------------
(* Requests that have not taken effect, and those that removed the row and *)
(* have not said so.                                                       *)
Running == {c \in Taps : tap[c] \notin {"answered", "deleted"}}
Removers == {c \in Taps : tap[c] = "deleted"}

(* repository.exists: 404 without an active shop. *)
BeginToggle(c) ==
  /\ tap[c] = "answered"
  /\ toggled + Cardinality(Running) < MaxTaps
  /\ active
  /\ TapTo(c, "delete")
  /\ UNCHANGED <<active, wished, inserted, turnedOff, untold, toggled>>

(* Variant: the answer is a look at the row, not what deleteMany counted.  *)
DeleteAfterLook(c) ==
  /\ tap[c] = "delete"
  /\ wished' = FALSE
  /\ \E looked \in {TRUE, wished} :
       IF looked
       THEN TapTo(c, "deleted") /\ toggled' = toggled + 1
       ELSE TapTo(c, "select") /\ UNCHANGED toggled
  /\ UNCHANGED <<active, inserted, turnedOff, untold>>

(* deleteWish: what deleteMany counted decides. *)
DeleteShopWish(c) ==
  /\ tap[c] = "delete"
  /\ wished' = FALSE
  /\ IF wished THEN TapTo(c, "deleted") /\ toggled' = toggled + 1
     ELSE TapTo(c, "select") /\ UNCHANGED toggled
  /\ UNCHANGED <<active, inserted, turnedOff, untold>>

(* The answer isWished = false. *)
AnswerOff(c) ==
  /\ tap[c] = "deleted"
  /\ TapTo(c, "answered")
  /\ turnedOff' = turnedOff + 1
  /\ UNCHANGED <<active, wished, inserted, untold, toggled>>

(* createWish, the SELECT of the upsert: nothing to do if the row is there. *)
SelectShopWish(c) ==
  /\ tap[c] = "select"
  /\ IF wished THEN TapTo(c, "answered") /\ toggled' = toggled + 1
     ELSE TapTo(c, "insert") /\ UNCHANGED toggled
  /\ UNCHANGED <<active, wished, inserted, turnedOff, untold>>

(* Its INSERT; P2002, which nobody catches, is a 500: FailToggle. *)
InsertShopWish(c) ==
  /\ tap[c] = "insert"
  /\ ~wished
  /\ wished' = TRUE
  /\ inserted' = inserted + 1
  /\ toggled' = toggled + 1
  /\ TapTo(c, "answered")
  /\ UNCHANGED <<active, turnedOff, untold>>

(* A statement fails or the server dies, perhaps before it could answer.   *)
FailToggle(c) ==
  /\ tap[c] # "answered"
  /\ TapTo(c, "answered")
  /\ untold' = IF tap[c] = "deleted" THEN untold + 1 ELSE untold
  /\ UNCHANGED <<active, wished, inserted, turnedOff, toggled>>

(* An administrator or a synchronisation (ShopSync); the row stays. *)
SetActive ==
  /\ active' = ~active
  /\ UNCHANGED <<wished, tap, inserted, turnedOff, untold, toggled>>

WishNext ==
  \/ \E c \in Taps :
       \/ BeginToggle(c) \/ DeleteShopWish(c) \/ SelectShopWish(c) \/ InsertShopWish(c)
       \/ AnswerOff(c) \/ FailToggle(c)
  \/ SetActive

WishSpec == WishInit /\ [][WishNext]_wishVars

-----------------------------------------------------------------------------
(* Every answer "not wished any more" is about a heart of its own: of the  *)
(* requests that race for one row, one removes it, and no other is told    *)
(* that it did (shop-query.repository.ts:136).  Every row that was made is *)
(* there, or was removed by such a request, unless its answer got lost.    *)
OffOncePerHeart ==
  inserted = turnedOff + untold + Cardinality(Removers) + (IF wished THEN 1 ELSE 0)

=============================================================================
