----------------------------- MODULE Notification -----------------------------
(***************************************************************************)
(* Notices and the settings that gate them: NotificationService,           *)
(* NotificationSettingService and their repositories.  What the push does  *)
(* is in module Push.                                                      *)
(*                                                                         *)
(* A request, or a notify call of another component, is a process; its     *)
(* statements are committed one by one, except that an upsert is a         *)
(* transaction of a SELECT and an INSERT or UPDATE.                        *)
(***************************************************************************)
EXTENDS Integers, FiniteSets

CONSTANTS
  People, Topics,     \* users; categories of notices
  NoticeCalls,        \* requests and notify calls handled at a time
  MaxNotices          \* bound on the notices

ASSUME NotificationAssumption == MaxNotices \in Nat /\ People # {} /\ Topics # {}

VARIABLES
  setting,    \* setting[u]: the row's columns, or {} without a row
  asked,      \* history: what u last set each category to, TRUE by default
  notices, isRead,
  nCall       \* nCall[c]: where a call stands

noticeVars == <<setting, asked, notices, isRead, nCall>>

-----------------------------------------------------------------------------
Columns == [Topics -> BOOLEAN]
NoRow == [k \in {} |-> TRUE]

(* DEFAULT_SETTINGS and the defaults of the columns. *)
AllOn == [k \in Topics |-> TRUE]

NoticeRow == [id : 1..MaxNotices, user : People, topic : Topics]

CallOf ==
  [pc : {"idle", "gate", "store", "push", "insert", "update", "read"},
   user : People, topic : Topics, value : BOOLEAN, notice : 0..MaxNotices,
   was : Columns \union {NoRow},   \* the row an upsert saw
   on : BOOLEAN]                   \* the category was on during the call

NotificationTypeOK ==
  /\ setting \in [People -> Columns \union {NoRow}]
  /\ asked \in [People -> Columns]
  /\ notices \in SUBSET NoticeRow
  /\ isRead \in SUBSET {n.id : n \in notices}
  /\ nCall \in [NoticeCalls -> CallOf]
  /\ \A c \in NoticeCalls : nCall[c].pc = "update" => setting[nCall[c].user] # NoRow

NoticeAt(pc, u, k) ==
  [pc |-> pc, user |-> u, topic |-> k, value |-> TRUE, notice |-> 0,
   was |-> NoRow, on |-> FALSE]

Rest == NoticeAt("idle", CHOOSE u \in People : TRUE, CHOOSE k \in Topics : TRUE)

NotificationInit ==
  /\ setting = [u \in People |-> NoRow]
  /\ asked = [u \in People |-> AllOn]
  /\ notices = {} /\ isRead = {}
  /\ nCall = [c \in NoticeCalls |-> Rest]

-----------------------------------------------------------------------------
CallTo(c, r) == nCall' = [nCall EXCEPT ![c] = r]

Enabled(u, k) == IF setting[u] = NoRow THEN TRUE ELSE setting[u][k]

(* Call c has made row the settings of user u, and is answered; the calls   *)
(* about u that have not stored their notice see what it has turned on.     *)
Settled(c, u, row) ==
  /\ setting' = [setting EXCEPT ![u] = row]
  /\ nCall' = [x \in NoticeCalls |->
       IF x = c THEN Rest
       ELSE [nCall[x] EXCEPT !.on = @ \/ (nCall[x].pc \in {"gate", "store"}
                                          /\ nCall[x].user = u /\ row[nCall[x].topic])]]

-----------------------------------------------------------------------------
(* updateSettings for one category: the SELECT of the upsert. *)
BeginSetting(c, u, k, v) ==
  /\ nCall[c].pc = "idle"
  /\ CallTo(c, [NoticeAt(IF setting[u] = NoRow THEN "insert" ELSE "update", u, k)
                  EXCEPT !.value = v, !.was = setting[u]])
  /\ UNCHANGED <<setting, asked, notices, isRead>>

(* The INSERT with the patch over the defaults; P2002 if there is a row by  *)
(* now: FailCall.                                                           *)
InsertSetting(c) ==
  LET r == nCall[c] IN
  /\ r.pc = "insert" /\ setting[r.user] = NoRow
  /\ Settled(c, r.user, [AllOn EXCEPT ![r.topic] = r.value])
  /\ asked' = [asked EXCEPT ![r.user][r.topic] = r.value]
  /\ UNCHANGED <<notices, isRead>>

(* Variant: the row is written as it was read, with the patch over it. *)
UpdateWholeSetting(c) ==
  LET r == nCall[c] IN
  /\ r.pc = "update"
  /\ Settled(c, r.user, [r.was EXCEPT ![r.topic] = r.value])
  /\ asked' = [asked EXCEPT ![r.user][r.topic] = r.value]
  /\ UNCHANGED <<notices, isRead>>

(* The UPDATE of the patched columns. *)
UpdateSetting(c) ==
  LET r == nCall[c] IN
  /\ r.pc = "update"
  /\ Settled(c, r.user, [setting[r.user] EXCEPT ![r.topic] = r.value])
  /\ asked' = [asked EXCEPT ![r.user][r.topic] = r.value]
  /\ UNCHANGED <<notices, isRead>>

-----------------------------------------------------------------------------
(* Another component calls notify. *)
BeginNotify(c, u, k) ==
  /\ nCall[c].pc = "idle"
  /\ CallTo(c, [NoticeAt("gate", u, k) EXCEPT !.on = Enabled(u, k)])
  /\ UNCHANGED <<setting, asked, notices, isRead>>

(* isCategoryEnabled, for the category the notice's type maps to. *)
Gate(c) ==
  LET r == nCall[c] IN
  /\ r.pc = "gate"
  /\ CallTo(c, IF Enabled(r.user, r.topic) THEN [r EXCEPT !.pc = "store"] ELSE Rest)
  /\ UNCHANGED <<setting, asked, notices, isRead>>

(* notification.create *)
StoreNotice(c) ==
  LET r == nCall[c]
      n == Cardinality(notices) + 1
  IN /\ r.pc = "store" /\ n <= MaxNotices
     /\ notices' = notices \union {[id |-> n, user |-> r.user, topic |-> r.topic]}
     /\ CallTo(c, [r EXCEPT !.pc = "push", !.notice = n])
     /\ UNCHANGED <<setting, asked, isRead>>

-----------------------------------------------------------------------------
(* pushSender.send ends, well or not: a failure is logged, the notice stays. *)
Pushed(c) ==
  /\ nCall[c].pc = "push"
  /\ CallTo(c, Rest)
  /\ UNCHANGED <<setting, asked, notices, isRead>>

-----------------------------------------------------------------------------
(* markAsRead, the read: 404 for a notice that is not the user's; one that  *)
(* is read already needs no write.                                          *)
FindNotice(c, n) ==
  /\ nCall[c].pc = "idle"
  /\ n.id \notin isRead
  /\ CallTo(c, [NoticeAt("read", n.user, n.topic) EXCEPT !.notice = n.id])
  /\ UNCHANGED <<setting, asked, notices, isRead>>

MarkRead(c) ==
  /\ nCall[c].pc = "read"
  /\ isRead' = isRead \union {nCall[c].notice}
  /\ CallTo(c, Rest)
  /\ UNCHANGED <<setting, asked, notices>>

MarkAllRead(u) ==
  /\ isRead' = isRead \union {n.id : n \in {x \in notices : x.user = u}}
  /\ UNCHANGED <<setting, asked, notices, nCall>>

(* A statement fails, or the server dies. *)
FailCall(c) ==
  /\ nCall[c].pc # "idle"
  /\ CallTo(c, Rest)
  /\ UNCHANGED <<setting, asked, notices, isRead>>

-----------------------------------------------------------------------------
NotificationNext ==
  \/ \E c \in NoticeCalls :
       \/ \E u \in People, k \in Topics :
            BeginNotify(c, u, k) \/ \E v \in BOOLEAN : BeginSetting(c, u, k, v)
       \/ \E n \in notices : FindNotice(c, n)
       \/ InsertSetting(c) \/ UpdateSetting(c) \/ Gate(c) \/ StoreNotice(c) \/ Pushed(c)
       \/ MarkRead(c) \/ FailCall(c)
  \/ \E u \in People : MarkAllRead(u)

NotificationSpec == NotificationInit /\ [][NotificationNext]_noticeVars

-----------------------------------------------------------------------------
(* No notice is stored or pushed for a category that was off all the time   *)
(* from the call of notify on (notification.service.ts:88).                 *)
GateRespected ==
  \A c \in NoticeCalls : nCall[c].pc = "push" => nCall[c].on

(* Overlapping changes of different categories are all kept, also the first *)
(* ones, which insert the row (notification-setting.service.ts:28).         *)
PatchesMerge ==
  \A u \in People : IF setting[u] = NoRow THEN asked[u] = AllOn ELSE setting[u] = asked[u]

(* The settings are what the user asked for, and notices obey them.        *)
SettingsRespected == GateRespected /\ PatchesMerge
=============================================================================
