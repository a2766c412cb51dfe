--------------------------------- MODULE Push ---------------------------------
(***************************************************************************)
(* The devices of users and the push to them: DeviceTokenController,       *)
(* DeviceTokenService, DeviceTokenRepository and FcmPushSender.            *)
(*                                                                         *)
(* An upsert is a SELECT and an INSERT or UPDATE; a row that was deleted   *)
(* and came back in between counts as the same.                            *)
(***************************************************************************)
EXTENDS Integers, FiniteSets

CONSTANTS
  Owners,          \* users
  Devices,         \* FCM tokens
  PushCalls,       \* requests and sends handled at a time
  MulticastLimit,  \* FCM_MULTICAST_LIMIT
  Nobody

ASSUME PushAssumption ==
  MulticastLimit \in Nat \ {0} /\ Nobody \notin Owners \union Devices

VARIABLES
  holder,    \* holder[t]: the user a row of device_tokens gives t to
  expired,   \* tokens FCM has given up
  pCall      \* pCall[c]: where a call stands

pushVars == <<holder, expired, pCall>>

-----------------------------------------------------------------------------
PushCall ==
  [pc : {"idle", "insert", "update", "remove", "tokens", "send", "purge"},
   user : Owners \union {Nobody}, device : Devices \union {Nobody},
   found : SUBSET Devices, left : SUBSET Devices,
   sent : SUBSET Devices, invalid : SUBSET Devices]

PushTypeOK ==
  /\ holder \in [Devices -> Owners \union {Nobody}]
  /\ expired \in SUBSET Devices
  /\ pCall \in [PushCalls -> PushCall]
  /\ \A c \in PushCalls : pCall[c].pc = "send" => pCall[c].left # {}

PushAt(pc, u, t) ==
  [pc |-> pc, user |-> u, device |-> t,
   found |-> {}, left |-> {}, sent |-> {}, invalid |-> {}]

Ended == PushAt("idle", Nobody, Nobody)

PushInit ==
  /\ holder = [t \in Devices |-> Nobody]
  /\ expired = {}
  /\ pCall = [c \in PushCalls |-> Ended]

PushTo(c, r) == pCall' = [pCall EXCEPT ![c] = r]

-----------------------------------------------------------------------------
(* register: the SELECT of the upsert. *)
BeginRegister(c, u, t) ==
  /\ pCall[c].pc = "idle"
  /\ PushTo(c, PushAt(IF holder[t] = Nobody THEN "insert" ELSE "update", u, t))
  /\ UNCHANGED <<holder, expired>>

(* Its INSERT or UPDATE.  P2002 for a row that came, and an error for one  *)
(* that went, meanwhile: FailPush.                                         *)
WriteDevice(c) ==
  LET r == pCall[c] IN
  /\ \/ r.pc = "insert" /\ holder[r.device] = Nobody
     \/ r.pc = "update" /\ holder[r.device] # Nobody
  /\ holder' = [holder EXCEPT ![r.device] = r.user]
  /\ PushTo(c, Ended)
  /\ UNCHANGED expired

(* unregister, up to its only statement. *)
BeginUnregister(c, u, t) ==
  /\ pCall[c].pc = "idle"
  /\ PushTo(c, PushAt("remove", u, t))
  /\ UNCHANGED <<holder, expired>>

(* Variant: whoever names a token removes it. *)
RemoveAnyDevice(c) ==
  LET r == pCall[c] IN
  /\ r.pc = "remove"
  /\ holder' = [holder EXCEPT ![r.device] = Nobody]
  /\ PushTo(c, Ended)
  /\ UNCHANGED expired

(* deleteByToken: the user's own row only. *)
RemoveDevice(c) ==
  LET r == pCall[c] IN
  /\ r.pc = "remove"
  /\ holder' = [holder EXCEPT ![r.device] = IF @ = r.user THEN Nobody ELSE @]
  /\ PushTo(c, Ended)
  /\ UNCHANGED expired

(* External: FCM gives a token up (the app is gone), for good. *)
Expire(t) ==
  /\ expired' = expired \union {t}
  /\ UNCHANGED <<holder, pCall>>

-----------------------------------------------------------------------------
(* notify calls pushSender.send. *)
BeginPush(c, u) ==
  /\ pCall[c].pc = "idle"
  /\ PushTo(c, PushAt("tokens", u, Nobody))
  /\ UNCHANGED <<holder, expired>>

(* findTokensByUser; nothing to send without devices. *)
FindTokens(c) ==
  LET r == pCall[c]
      mine == {t \in Devices : holder[t] = r.user}
  IN /\ r.pc = "tokens"
     /\ PushTo(c, IF mine = {} THEN Ended
                  ELSE [r EXCEPT !.pc = "send", !.found = mine, !.left = mine])
     /\ UNCHANGED <<holder, expired>>

(* The next 500 tokens, or the rest. *)
Batches(left) ==
  {b \in SUBSET left : /\ b # {} /\ Cardinality(b) <= MulticastLimit
                       /\ b = left \/ Cardinality(b) = MulticastLimit}

(* The state of a send after batch b, of which bad are to be purged, if it  *)
(* goes on with next.                                                       *)
AfterBatch(r, b, bad, next) ==
  [r EXCEPT !.left = next, !.sent = @ \union b, !.invalid = @ \union bad,
            !.pc = IF next = {} THEN "purge" ELSE "send"]

(* sendEachForMulticast: of the tokens that failed those are remembered    *)
(* that FCM has given up.                                                  *)
SendBatch(c) ==
  LET r == pCall[c] IN
  /\ r.pc = "send"
  /\ \E b \in Batches(r.left) :
       PushTo(c, AfterBatch(r, b, b \intersect expired, r.left \ b))
  /\ UNCHANGED <<holder, expired>>

(* deleteByTokens: by value, whoever holds the token by now. *)
PurgeTokens(c) ==
  LET r == pCall[c] IN
  /\ r.pc = "purge"
  /\ holder' = [t \in Devices |-> IF t \in r.invalid THEN Nobody ELSE holder[t]]
  /\ PushTo(c, Ended)
  /\ UNCHANGED expired

(* A statement or FCM fails, or the server dies; nothing is purged then. *)
FailPush(c) ==
  /\ pCall[c].pc # "idle"
  /\ PushTo(c, Ended)
  /\ UNCHANGED <<holder, expired>>

-----------------------------------------------------------------------------
PushNext ==
  \/ \E c \in PushCalls :
       \/ \E u \in Owners, t \in Devices : BeginRegister(c, u, t) \/ BeginUnregister(c, u, t)
       \/ \E u \in Owners : BeginPush(c, u)
       \/ WriteDevice(c) \/ RemoveDevice(c)
       \/ FindTokens(c) \/ SendBatch(c) \/ PurgeTokens(c) \/ FailPush(c)
  \/ \E t \in Devices : Expire(t)

PushSpec == PushInit /\ [][PushNext]_pushVars

-----------------------------------------------------------------------------
(* A device leaves the table only because FCM gave its token up or the     *)
(* user who holds it logs out: a late request of its former user, or a     *)
(* push that failed for another reason, does not silence it                *)
(* (device-token.repository.ts:25, fcm-push-sender.ts:45).                 *)
LiveTokensStay ==
  \A t \in Devices :
    holder[t] # Nobody /\ holder'[t] = Nobody =>
      \/ t \in expired
      \/ \E c \in PushCalls : pCall[c].pc = "remove" /\ pCall[c].device = t
                              /\ pCall[c].user = holder[t]

(* A push that gets to its end was sent to every device that was found, in *)
(* however many batches (fcm-push-sender.ts:25).                           *)
PushReachesEveryDevice ==
  \A c \in PushCalls : pCall[c].pc = "purge" => pCall[c].sent = pCall[c].found

(* A device that is in use is reached: it stays registered, and no batch   *)
(* of a push is left out.                                                  *)
DevicesReached == [][LiveTokensStay /\ PushReachesEveryDevice']_pushVars
=============================================================================
