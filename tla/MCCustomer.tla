------------------------------ MODULE MCCustomer ------------------------------
(***************************************************************************)
(* What belongs to a customer, in one run: accounts, addresses, notices,   *)
(* devices and reminders.  They share no row that two of them write, so a  *)
(* behaviour is one of a single part.                                      *)
(***************************************************************************)
EXTENDS Account, UserAddress, Notification, Push, Reminder, TLC

CONSTANT l1   \* a login id

VARIABLE part

(* One user has signed up with login id l1. *)
MCRegistered == <<l1>>

MCSymmetry == Permutations(Calls)

MCInit ==
  /\ part \in {"account", "address", "notice", "push", "reminder"}
  /\ Init /\ AddressInit /\ NotificationInit /\ PushInit /\ ReminderInit
  /\ \A u \in Users : email[u] = None

(* Of the requests about accounts one at most changes a profile.          *)
OneUpdate ==
  \A c, d \in Calls : call[c].kind = "update" /\ call[d].kind = "update" => c = d

MCNext ==
  /\ UNCHANGED part
  /\ IF part = "account" THEN Next /\ OneUpdate' ELSE UNCHANGED accountVars
  /\ IF part = "address" THEN AddressNext ELSE UNCHANGED addressVars
  /\ IF part = "notice" THEN NotificationNext ELSE UNCHANGED noticeVars
  /\ IF part = "push" THEN PushNext ELSE UNCHANGED pushVars
  /\ IF part = "reminder" THEN ReminderNext ELSE UNCHANGED reminderVars

MCVars == <<part, accountVars, addressVars, noticeVars, pushVars, reminderVars>>

MCSpec == MCInit /\ [][MCNext]_MCVars

-----------------------------------------------------------------------------
(* All parts keep their types.                                             *)
CustomerTypeOK ==
  TypeOK /\ AddressTypeOK /\ NotificationTypeOK /\ PushTypeOK /\ ReminderTypeOK
=============================================================================
