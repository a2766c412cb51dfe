------------------------------- MODULE ShopSync -------------------------------
(***************************************************************************)
(* Where the shops come from: the synchronisation with the public data     *)
(* provider (ShopSyncService, SbizShopClient, PrismaShopRepository) and    *)
(* the administrators' changes (ShopAdminService).                         *)
(*                                                                         *)
(* A synchronisation is a loop of a request to the provider and a          *)
(* transaction that stores one page; the provider may change its list in   *)
(* between.  Of the columns of a shop the model has is_data_active, and    *)
(* whether an administrator has filled in what the provider does not give. *)
(***************************************************************************)
EXTENDS Integers, SequencesExt

CONSTANTS
  Stores,      \* the provider's ids
  Foreign,     \* those whose record mapItem refuses
  OwnShops,    \* shops only administrators know
  PageSizes, PageLimits,
  Syncs        \* requests handled at a time

ASSUME SyncAssumption ==
  /\ Foreign \subseteq Stores /\ Stores \intersect OwnShops = {}
  /\ IsFiniteSet(Stores)
  /\ PageSizes \subseteq Nat \ {0} /\ PageLimits \subseteq Nat \ {0}
  /\ PageSizes # {} /\ PageLimits # {}

VARIABLES
  listing,    \* what the provider has, in its order
  shopRow,    \* "none", or is_data_active of the row
  edited,     \* shops with columns only an administrator fills in
  sync        \* sync[c]: where a request stands

syncVars == <<listing, shopRow, edited, sync>>

-----------------------------------------------------------------------------
ShopIds == Stores \union OwnShops
RowStates == {"none", "active", "inactive"}

(* The sequences without repetition over a subset of Stores. *)
Listings == UNION {SetToSeqs(S) : S \in SUBSET Stores}

(* items: the page, without what mapItem refuses; known: those of them the *)
(* transaction found.  steady: the list did not change; off: deactivated;   *)
(* both since the start.                                                    *)
SyncRecord ==
  [pc : {"answered", "fetch", "read", "save"}, ok : BOOLEAN,
   size : PageSizes, max : PageLimits, page : Nat, last : BOOLEAN,
   items : SUBSET Stores, known : SUBSET Stores,
   steady : BOOLEAN, off : SUBSET Stores]

SyncTypeOK ==
  /\ listing \in Listings
  /\ shopRow \in [ShopIds -> RowStates]
  /\ edited \in SUBSET {s \in ShopIds : shopRow[s] # "none"}
  /\ sync \in [Syncs -> SyncRecord]

NewSync(pc, size, max) ==
  [pc |-> pc, ok |-> FALSE, size |-> size, max |-> max, page |-> 1, last |-> FALSE,
   items |-> {}, known |-> {}, steady |-> TRUE, off |-> {}]

Idle == NewSync("answered", CHOOSE n \in PageSizes : TRUE, CHOOSE n \in PageLimits : TRUE)

SyncInit ==
  /\ listing \in Listings
  /\ shopRow = [s \in ShopIds |-> "none"]
  /\ edited = {}
  /\ sync = [c \in Syncs |-> Idle]

-----------------------------------------------------------------------------
SyncTo(c, r) == sync' = [sync EXCEPT ![c] = r]

BeginSync(c, size, max) ==
  /\ sync[c].pc = "answered"
  /\ SyncTo(c, NewSync("fetch", size, max))
  /\ UNCHANGED <<listing, shopRow, edited>>

(* The next round of the loop, or the answer, which is kept if the list     *)
(* stood still.                                                             *)
NextPage(r) ==
  LET rest == [r EXCEPT !.items = {}, !.known = {}, !.last = FALSE] IN
  IF r.last \/ r.page = r.max
  THEN IF r.steady THEN [rest EXCEPT !.pc = "answered", !.ok = TRUE, !.page = 1] ELSE Idle
  ELSE [rest EXCEPT !.pc = "fetch", !.page = @ + 1]

(* Page n of size k. *)
PageOf(k, n) ==
  {listing[i] : i \in {j \in 1..Len(listing) : k * (n - 1) < j /\ j <= k * n}}

(* Variant: the loop takes the page for the last one a page too early. *)
FetchPageTooFew(c) ==
  LET r == sync[c]
      items == PageOf(r.size, r.page)
      q == [r EXCEPT !.items = items \ Foreign,
                     !.last = items = {} \/ (r.page + 1) * r.size >= Len(listing)]
  IN /\ r.pc = "fetch"
     /\ SyncTo(c, IF q.items = {} THEN NextPage(q) ELSE [q EXCEPT !.pc = "read"])
     /\ UNCHANGED <<listing, shopRow, edited>>

(* getShopsByIndustry and mapItem; a page without a shop to store is not   *)
(* saved.                                                                  *)
FetchPage(c) ==
  LET r == sync[c]
      items == PageOf(r.size, r.page)
      q == [r EXCEPT !.items = items \ Foreign,
                     !.last = items = {} \/ r.page * r.size >= Len(listing)]
  IN /\ r.pc = "fetch"
     /\ SyncTo(c, IF q.items = {} THEN NextPage(q) ELSE [q EXCEPT !.pc = "read"])
     /\ UNCHANGED <<listing, shopRow, edited>>

(* The SELECTs of the upserts: one transaction, one snapshot. *)
ReadRows(c) ==
  LET r == sync[c] IN
  /\ r.pc = "read"
  /\ SyncTo(c, [r EXCEPT !.pc = "save", !.known = {s \in r.items : shopRow[s] # "none"}])
  /\ UNCHANGED <<listing, shopRow, edited>>

(* Their INSERTs and UPDATEs, and the commit.  P2002 if another one has    *)
(* inserted a shop of the page meanwhile: FailSync.                        *)
SavePage(c) ==
  LET r == sync[c] IN
  /\ r.pc = "save"
  /\ \A s \in r.items \ r.known : shopRow[s] = "none"
  /\ shopRow' = [s \in ShopIds |-> IF s \in r.items THEN "active" ELSE shopRow[s]]
  /\ SyncTo(c, NextPage(r))
  /\ UNCHANGED <<listing, edited>>

(* A ShopDataProviderError, a failing transaction, or the server dies; the *)
(* pages that were saved stay.                                             *)
FailSync(c) ==
  /\ sync[c].pc # "answered"
  /\ SyncTo(c, Idle)
  /\ UNCHANGED <<listing, shopRow, edited>>

-----------------------------------------------------------------------------
(* External: the provider has another list. *)
ChangeListing(l) ==
  /\ l # listing
  /\ listing' = l
  /\ sync' = [c \in Syncs |-> IF sync[c].pc = "answered" THEN Idle
                             ELSE [sync[c] EXCEPT !.steady = FALSE]]
  /\ UNCHANGED <<shopRow, edited>>

(* createShop *)
CreateShop(s) ==
  /\ s \in OwnShops /\ shopRow[s] = "none"
  /\ shopRow' = [shopRow EXCEPT ![s] = "active"]
  /\ UNCHANGED <<listing, edited, sync>>

(* updateShop; 404 (P2025) without the shop.  No body can set              *)
(* is_data_active.                                                         *)
UpdateShop(s) ==
  /\ shopRow[s] # "none"
  /\ edited' = edited \union {s}
  /\ UNCHANGED <<listing, shopRow, sync>>

(* deactivateShop *)
DeactivateShop(s) ==
  /\ shopRow[s] # "none"
  /\ shopRow' = [shopRow EXCEPT ![s] = "inactive"]
  /\ sync' = [c \in Syncs |-> [sync[c] EXCEPT !.off = @ \union ({s} \intersect Stores)]]
  /\ UNCHANGED <<listing, edited>>

-----------------------------------------------------------------------------
SyncNext ==
  \/ \E c \in Syncs :
       \/ \E size \in PageSizes, max \in PageLimits : BeginSync(c, size, max)
       \/ FetchPage(c) \/ ReadRows(c) \/ SavePage(c) \/ FailSync(c)
  \/ \E l \in Listings : ChangeListing(l)
  \/ \E s \in ShopIds : CreateShop(s) \/ UpdateShop(s) \/ DeactivateShop(s)

SyncSpec == SyncInit /\ [][SyncNext]_syncVars

-----------------------------------------------------------------------------
(* A synchronisation that is answered with success has brought in every    *)
(* shop of the provider's list, if the list stood still and fits into the  *)
(* pages asked for: no page is left out, whatever another synchronisation  *)
(* or an administrator does meanwhile, save for deactivating it            *)
(* (shop-sync.service.ts:36).                                              *)
SyncCoversProvider ==
  \A c \in Syncs :
    LET r == sync[c] IN
    r.pc = "answered" /\ r.ok /\ r.steady /\ Len(listing) <= r.max * r.size
      => \A i \in 1..Len(listing) :
           listing[i] \in Foreign \union r.off \/ shopRow[listing[i]] = "active"

(* What an administrator filled in survives every synchronisation, also    *)
(* one that had read the row before (shop.repository.ts:54-66 names the    *)
(* provider's columns only), and no record that mapItem refuses gets in.   *)
EditsSurvive == edited \subseteq edited' /\ \A s \in Foreign : shopRow'[s] = "none"

(* A synchronisation brings in all it should and spoils nothing.           *)
SyncIsFaithful == [][SyncCoversProvider' /\ EditsSurvive]_syncVars

=============================================================================
