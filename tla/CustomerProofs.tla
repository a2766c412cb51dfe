---------------------------- MODULE CustomerProofs ----------------------------
(***************************************************************************)
(* Proofs about what belongs to a customer: the account, notices and the   *)
(* settings that suppress them, devices and pushes to them, addresses, and *)
(* reminders; for any users, calls, rows and days.                         *)
(***************************************************************************)
EXTENDS 
  MCCustomer, Integers, FiniteSetTheorems, WellFoundedInduction,
  TLAPS

-----------------------------------------------------------------------------
(***************************************************************************)
(* Account, for every set of identities, e-mails and calls and every       *)
(* bound. IInv is the inductive invariant: besides the types it says what  *)
(* a call that is about to hand out tokens knows (Ready), and that ids are *)
(* not given out twice (the accounts a call remembers cannot come back as  *)
(* other people's).                                                        *)
(***************************************************************************)

(* What a call in the state r knows, in the current tables. *)
Ready(r) ==
  /\ r.pc \in {"sign", "store"} =>
       /\ r.user \in 1..lastUser
       /\ r.kind \in {"login", "social"} =>
            r.id \in Identities /\ (r.user \in existing => owner[r.id] = r.user)
       /\ r.kind = "refresh" => r.token \in Tokens /\ r.token[1] = r.user
  /\ r.pc = "store" => r.signed \in Tokens /\ r.signed[1] = r.user
  /\ r.pc = "create" => r.id \in Identities /\ r.kind \in {"signup", "social"}
  /\ r.pc = "email" => r.email \in Emails
  /\ r.pc = "email" => IF r.kind = "signup" THEN r.id \in Identities ELSE r.user \in Users
  /\ r.pc \in {"update", "delete"} => r.user \in Users
  /\ r.reply = "tokens" => r.signed \in Tokens
  /\ r.reply = "tokens" => r.signed[1] \in 1..lastUser

Ownership ==
  /\ existing \subseteq 1..lastUser
  /\ \A i \in Identities : owner[i] # None => owner[i] \in existing
  /\ \A u \in existing : \E i \in Identities : owner[i] = u

IInv == TypeOK /\ Ownership /\ \A c \in Calls : Ready(call[c])

LEMMA CalledType ==
  ASSUME NEW kind \in Kind, NEW i \in Identities \union {None}, NEW e \in Emails \union {None},
         NEW u \in Users \union {None}, NEW t \in Tokens \union {None}, NEW pc \in CallPoint,
         NEW reply \in Reply
  PROVE  Called(kind, i, e, u, t, pc, reply) \in CallRecord
  BY DEF Called, CallRecord

LEMMA NewCallType == NewCall \in CallRecord /\ Ready(NewCall)
  BY DEF NewCall, Called, CallRecord, Kind, CallPoint, Reply, Ready

(* The initial users are numbered without gaps, each with its identity. *)
LEMMA InitInvariant == Init => IInv
<1> SUFFICES ASSUME Init PROVE IInv
  OBVIOUS
<1>0. Len(Registered) \in Nat /\ Len(Registered) <= MaxUsers
  BY RegisteredAssumption
<1>1. /\ existing \in SUBSET Users /\ existing = 1..Len(Registered)
      /\ lastUser = Len(Registered) /\ lastUser \in 0..MaxUsers
  BY <1>0, BoundsAssumption DEF Init, Users
<1>2. \A u \in existing : Registered[u] \in Identities
  BY <1>1, RegisteredAssumption DEF Identities
<1>3. \A i \in Identities : owner[i] = None \/ (owner[i] \in existing /\ Registered[owner[i]] = i)
  BY DEF Init
<1>4. \A u \in existing : owner[Registered[u]] = u
  <2> TAKE u \in existing
  <2>1. Registered[u] \in Identities
    BY <1>2
  <2>2. owner[Registered[u]] \in existing /\ Registered[owner[Registered[u]]] = Registered[u]
    BY <2>1 DEF Init
  <2> QED
    BY <2>2, <1>1, RegisteredAssumption
<1>5. owner \in [Identities -> Users \union {None}]
  BY <1>3, <1>1 DEF Init
<1>6. TypeOK
  BY <1>1, <1>5, NewCallType, BoundsAssumption DEF Init, TypeOK
<1>7. Ownership
  BY <1>1, <1>2, <1>3, <1>4 DEF Ownership
<1>8. \A c \in Calls : Ready(call[c])
  BY NewCallType DEF Init
<1> QED
  BY <1>6, <1>7, <1>8 DEF IInv

(* A step of one call that adds and removes no user. *)
LEMMA OneCall ==
  ASSUME IInv, NEW c \in Calls, NEW r \in CallRecord, Ready(r),
         call' = [call EXCEPT ![c] = r],
         UNCHANGED <<existing, lastUser, owner, booked, now>>,
         tokens' \in SUBSET Tokens,
         email' \in [Users -> Emails \union {None}]
  PROVE  IInv'
<1>1. TypeOK'
  BY DEF IInv, TypeOK
<1>2. Ownership'
  BY DEF IInv, Ownership
<1>3. \A d \in Calls : Ready(call'[d])
  BY DEF IInv, TypeOK
<1>4. \A d \in Calls : Ready(call[d])'
  BY <1>3 DEF Ready
<1> QED
  BY <1>1, <1>2, <1>4 DEF IInv

(* A request that arrives: its first statement may also delete a token. *)
LEMMA Arrived ==
  ASSUME IInv, NEW c \in Calls,
         NEW kind \in Kind, NEW i \in Identities \union {None}, NEW e \in Emails \union {None},
         NEW u \in Users \union {None}, NEW t \in Tokens \union {None},
         NEW pc \in CallPoint, NEW reply \in Reply,
         pc # "store", reply # "tokens",
         pc = "sign" =>
           /\ u \in 1..lastUser
           /\ kind \in {"login", "social"} =>
                i \in Identities /\ (u \in existing => owner[i] = u)
           /\ kind = "refresh" => t \in Tokens /\ t[1] = u,
         pc = "create" => i \in Identities /\ kind = "social",
         pc = "email" => e \in Emails /\ (IF kind = "signup" THEN i \in Identities ELSE u \in Users),
         pc \in {"update", "delete"} => u \in Users,
         Start(c, Called(kind, i, e, u, t, pc, reply)),
         UNCHANGED <<email, existing, lastUser, owner, booked, now>>,
         tokens' \in SUBSET Tokens
  PROVE  IInv'
<1> DEFINE r == Called(kind, i, e, u, t, pc, reply)
<1>1. r \in CallRecord
  BY CalledType
<1>2. Ready(r)
  BY DEF Ready, Called
<1>3. call' = [call EXCEPT ![c] = r]
  BY DEF Start
<1>4. email' \in [Users -> Emails \union {None}]
  BY DEF IInv, TypeOK
<1> HIDE DEF r
<1> QED
  BY <1>1, <1>2, <1>3, <1>4, OneCall

LEMMA ArrivalStep == ASSUME IInv, NEW c \in Calls, Arrival(c) PROVE IInv'
<1>0. /\ tokens \in SUBSET Tokens
      /\ owner \in [Identities -> Users \union {None}]
      /\ LoginIds \subseteq Identities /\ SocialIds \subseteq Identities
      /\ existing \subseteq 1..lastUser
      /\ \A i \in Identities : owner[i] # None => owner[i] \in 1..lastUser
      /\ \A i \in Identities : owner[i] # None => owner[i] \in Users
  BY DEF IInv, TypeOK, Ownership, Identities
<1> USE DEF Kind, CallPoint, Reply, rows
<1>1. ASSUME NEW i \in LoginIds, NEW e \in Emails, CheckLoginId(c, i, e) PROVE IInv'
  <2>1. CASE Start(c, Called("signup", i, e, None, None, "email", "none"))
    BY <1>0, <1>1, <2>1, Arrived DEF CheckLoginId
  <2>2. CASE Start(c, Called("signup", i, e, None, None, "done", "conflict"))
    BY <1>0, <1>1, <2>2, Arrived DEF CheckLoginId
  <2> QED
    BY <1>1, <2>1, <2>2 DEF CheckLoginId
<1>2. ASSUME NEW i \in LoginIds, NEW e \in Emails \union {None}, FindAuth(c, i, e) PROVE IInv'
  <2>1. CASE owner[i] # None /\ Start(c, Called("login", i, e, owner[i], None, "sign", "none"))
    BY <1>0, <1>2, <2>1, Arrived DEF FindAuth
  <2>2. CASE Start(c, Called("login", i, e, None, None, "done", "denied"))
    BY <1>0, <1>2, <2>2, Arrived, ZenonT(60) DEF FindAuth
  <2> QED
    BY <1>2, <2>1, <2>2 DEF FindAuth
<1>3. ASSUME NEW i \in SocialIds, NEW e \in Emails \union {None}, FindProvider(c, i, e) PROVE IInv'
  <2>1. CASE owner[i] # None /\ Start(c, Called("social", i, e, owner[i], None, "sign", "none"))
    BY <1>0, <1>3, <2>1, Arrived DEF FindProvider
  <2>2. CASE Start(c, Called("social", i, e, None, None, "create", "none"))
    BY <1>0, <1>3, <2>2, Arrived, SMTT(30) DEF FindProvider
  <2> QED
    BY <1>3, <2>1, <2>2 DEF FindProvider
<1>4. ASSUME NEW t \in Held, Refresh(c, t) \/ Logout(c, t) PROVE IInv'
  <2>0. t \in Tokens /\ t[1] \in 1..lastUser /\ t[1] \in Users
    BY DEF Held, IInv, Ready, Tokens
  <2>1. CASE Start(c, Called("refresh", None, None, t[1], t, "done", "denied"))
    BY <1>0, <1>4, <2>0, <2>1, Arrived, SMTT(30) DEF Refresh, Logout
  <2>2. CASE Start(c, Called("refresh", None, None, t[1], t, "sign", "none"))
    BY <1>0, <1>4, <2>0, <2>2, Arrived, SMTT(30) DEF Refresh, Logout
  <2>3. CASE Start(c, Called("logout", None, None, t[1], t, "done", "ok"))
    BY <1>0, <1>4, <2>0, <2>3, Arrived DEF Refresh, Logout
  <2> QED
    BY <1>4, <2>1, <2>2, <2>3 DEF Refresh, Logout
<1>5. ASSUME NEW u \in Users, NEW e \in Emails \union {None}, FindForUpdate(c, u, e) PROVE IInv'
  <2>0. UNCHANGED <<email, existing, lastUser, owner, tokens, booked, now>>
    BY <1>5 DEF FindForUpdate
  <2>1. CASE Start(c, Called("update", None, e, u, None, "done", "missing"))
    BY <1>0, <2>0, <2>1, Arrived
  <2>2. CASE Start(c, Called("update", None, e, u, None, "update", "none"))
    BY <1>0, <2>0, <2>2, Arrived
  <2>3. CASE e \in Emails /\ Start(c, Called("update", None, e, u, None, "email", "none"))
    BY <1>0, <2>0, <2>3, Arrived
  <2> QED
    BY <1>5, <2>1, <2>2, <2>3 DEF FindForUpdate
<1>6. ASSUME NEW u \in Users, FindForDelete(c, u) PROVE IInv'
  <2>1. CASE Start(c, Called("delete", None, None, u, None, "delete", "none"))
    BY <1>0, <1>6, <2>1, Arrived DEF FindForDelete
  <2>2. CASE Start(c, Called("delete", None, None, u, None, "done", "missing"))
    BY <1>0, <1>6, <2>2, Arrived DEF FindForDelete
  <2> QED
    BY <1>6, <2>1, <2>2 DEF FindForDelete
<1> QED
  BY <1>1, <1>2, <1>3, <1>4, <1>5, <1>6 DEF Arrival

(* A call that is answered, or goes on to a statement it is ready for. *)
LEMMA Answered ==
  ASSUME IInv, NEW c \in Calls, NEW reply \in Reply, Answer(c, reply),
         reply = "tokens" => call[c].pc = "store",
         UNCHANGED <<existing, lastUser, owner, booked, now>>,
         tokens' \in SUBSET Tokens,
         email' \in [Users -> Emails \union {None}]
  PROVE  IInv'
<1> DEFINE r == [call[c] EXCEPT !.pc = "done", !.reply = reply]
<1>0. call[c] \in CallRecord /\ Ready(call[c])
  BY DEF IInv, TypeOK
<1>1. r \in CallRecord
  BY <1>0 DEF CallRecord, CallPoint
<1>2. Ready(r)
  BY <1>0 DEF Ready, CallRecord
<1>3. call' = [call EXCEPT ![c] = r]
  BY DEF Answer
<1> HIDE DEF r
<1> QED
  BY <1>1, <1>2, <1>3, OneCall

LEMMA CheckEmailStep == ASSUME IInv, NEW c \in Calls, CheckEmail(c) PROVE IInv'
<1>0. /\ email \in [Users -> Emails \union {None}] /\ tokens \in SUBSET Tokens
      /\ call[c] \in CallRecord /\ Ready(call[c])
      /\ UNCHANGED <<email, existing, lastUser, owner, tokens, booked, now>>
      /\ call[c].pc = "email"
  BY DEF IInv, TypeOK, CheckEmail, rows, Waits
<1>1. CASE Answer(c, "conflict")
  BY <1>0, <1>1, Answered DEF Reply
<1>2. CASE GoOn(c, IF call[c].kind = "signup" THEN "create" ELSE "update")
  <2> DEFINE r == [call[c] EXCEPT !.pc = IF call[c].kind = "signup" THEN "create" ELSE "update"]
  <2>1. r \in CallRecord
    BY <1>0 DEF CallRecord, CallPoint
  <2>2. Ready(r)
    BY <1>0, <1>2 DEF Ready, CallRecord
  <2>3. call' = [call EXCEPT ![c] = r]
    BY <1>2 DEF GoOn
  <2> HIDE DEF r
  <2> QED
    BY <1>0, <2>1, <2>2, <2>3, OneCall
<1> QED
  BY <1>1, <1>2 DEF CheckEmail

LEMMA SignTokensStep == ASSUME IInv, NEW c \in Calls, SignTokens(c) PROVE IInv'
<1> DEFINE r == [call[c] EXCEPT !.pc = "store", !.signed = <<call[c].user, now>>]
<1>0. /\ email \in [Users -> Emails \union {None}] /\ tokens \in SUBSET Tokens
      /\ call[c] \in CallRecord /\ Ready(call[c])
      /\ UNCHANGED <<email, existing, lastUser, owner, tokens, booked, now>>
      /\ call[c].pc = "sign" /\ now \in 0..MaxTime /\ lastUser \in 0..MaxUsers
  BY DEF IInv, TypeOK, SignTokens, rows, Waits
<1>1. call[c].user \in Users /\ call[c].user \in 1..lastUser
  BY <1>0, BoundsAssumption DEF Ready, Users
<1>2. <<call[c].user, now>> \in Tokens
  BY <1>0, <1>1 DEF Tokens
<1>3. r \in CallRecord
  BY <1>0, <1>2 DEF CallRecord, CallPoint
<1>4. Ready(r)
  BY <1>0, <1>1, <1>2 DEF Ready, CallRecord
<1>5. call' = [call EXCEPT ![c] = r]
  BY DEF SignTokens
<1> HIDE DEF r
<1> QED
  BY <1>0, <1>3, <1>4, <1>5, OneCall

LEMMA StoreTokenStep == ASSUME IInv, NEW c \in Calls, StoreToken(c) PROVE IInv'
<1>0. /\ email' \in [Users -> Emails \union {None}] /\ tokens \in SUBSET Tokens
      /\ UNCHANGED <<existing, lastUser, owner, booked, now>>
      /\ call[c].pc = "store" /\ call[c].signed \in Tokens
  BY DEF IInv, TypeOK, StoreToken, Waits, Ready
<1>1. CASE Answer(c, "tokens") /\ tokens' = tokens \union {call[c].signed}
  BY <1>0, <1>1, Answered DEF Reply
<1>2. CASE Answer(c, "constraint") /\ UNCHANGED tokens
  BY <1>0, <1>2, Answered DEF Reply
<1> QED
  BY <1>1, <1>2 DEF StoreToken

LEMMA UpdateUserStep == ASSUME IInv, NEW c \in Calls, UpdateUser(c) PROVE IInv'
<1>0. /\ email' \in [Users -> Emails \union {None}] /\ tokens' \in SUBSET Tokens
      /\ UNCHANGED <<existing, lastUser, owner, booked, now>>
      /\ call[c] \in CallRecord /\ Ready(call[c]) /\ call[c].pc = "update"
  BY DEF IInv, TypeOK, UpdateUser, CallRecord, Waits
<1>1. CASE Answer(c, "error")
  BY <1>0, <1>1, Answered DEF Reply
<1>2. CASE GoOn(c, "profile")
  <2> DEFINE r == [call[c] EXCEPT !.pc = "profile"]
  <2>1. r \in CallRecord
    BY <1>0 DEF CallRecord, CallPoint
  <2>2. Ready(r)
    BY <1>0 DEF Ready, CallRecord
  <2>3. call' = [call EXCEPT ![c] = r]
    BY <1>2 DEF GoOn
  <2> HIDE DEF r
  <2> QED
    BY <1>0, <2>1, <2>2, <2>3, OneCall
<1> QED
  BY <1>1, <1>2 DEF UpdateUser

LEMMA BuildProfileStep == ASSUME IInv, NEW c \in Calls, BuildProfile(c) PROVE IInv'
<1>0. /\ email' \in [Users -> Emails \union {None}] /\ tokens' \in SUBSET Tokens
      /\ UNCHANGED <<existing, lastUser, owner, booked, now>>
      /\ Answer(c, "ok")
  BY DEF IInv, TypeOK, BuildProfile, rows
<1> QED
  BY <1>0, Answered DEF Reply

LEMMA BreakStep == ASSUME IInv, NEW c \in Calls, Break(c) PROVE IInv'
<1>0. /\ email' \in [Users -> Emails \union {None}] /\ tokens' \in SUBSET Tokens
      /\ UNCHANGED <<existing, lastUser, owner, booked, now>>
      /\ \E reply \in {"error", "lost"} : Answer(c, reply)
  BY DEF IInv, TypeOK, Break, rows
<1> QED
  BY <1>0, Answered DEF Reply

(* What a call knows stays true while ids grow and users keep their        *)
(* identities or go.                                                       *)
LEMMA StillReady ==
  ASSUME NEW r \in CallRecord, Ready(r), lastUser \in Nat, lastUser' \in Nat,
         lastUser <= lastUser',
         \A u \in 1..lastUser : u \in existing' =>
           u \in existing /\ \A j \in Identities : owner[j] = u => owner'[j] = u
  PROVE  Ready(r)'
<1>1. 1..lastUser \subseteq 1..lastUser'
  OBVIOUS
<1> QED
  BY <1>1 DEF Ready

(* A new user: its id is new, so no other call's account becomes its own.  *)
LEMMA CreateUserStep == ASSUME IInv, NEW c \in Calls, CreateUser(c) PROVE IInv'
<1> DEFINE n == lastUser + 1
           i == call[c].id
<1>0. /\ call \in [Calls -> CallRecord] /\ call[c] \in CallRecord
      /\ \A d \in Calls : Ready(call[d])
      /\ i \in Identities /\ call[c].kind \in {"signup", "social"}
      /\ owner \in [Identities -> Users \union {None}]
      /\ lastUser \in 0..MaxUsers /\ existing \subseteq 1..lastUser /\ None \notin Nat
  BY NamesAssumption DEF IInv, TypeOK, CreateUser, Waits, Ready, Ownership
<1>1. CASE owner[i] = None /\ InsertUser(c)
  <2>1. /\ n \in Users /\ n \notin 1..lastUser /\ lastUser' = n /\ lastUser' \in 0..MaxUsers
        /\ existing' = existing \union {n} /\ n # None
        /\ owner' = [owner EXCEPT ![i] = n]
        /\ email' = [email EXCEPT ![n] = call[c].email]
        /\ 1..lastUser \subseteq 1..n /\ n \in 1..n /\ lastUser <= n
    BY <1>0, <1>1, BoundsAssumption DEF InsertUser, Users, CreateUser
  <2> HIDE DEF n
  <2>2. Ownership'
    <3>1. \A j \in Identities : owner'[j] # None => owner'[j] \in existing'
      BY <1>0, <2>1 DEF IInv, Ownership
    <3>2. \A u \in existing' : \E j \in Identities : owner'[j] = u
      <4> TAKE u \in existing'
      <4>1. CASE u = n
        BY <1>0, <2>1, <4>1
      <4>2. CASE u \in existing
        <5>1. PICK j \in Identities : owner[j] = u
          BY <4>2 DEF IInv, Ownership
        <5>2. j # i
          BY <1>0, <1>1, <4>2, <5>1
        <5> QED
          BY <1>0, <2>1, <5>1, <5>2
      <4> QED
        BY <2>1, <4>1, <4>2
    <3>3. existing' \subseteq 1..lastUser'
      BY <1>0, <2>1
    <3> QED
      BY <3>1, <3>2, <3>3 DEF Ownership
  <2>3. \A d \in Calls \ {c} : Ready(call[d])'
    <3>1. \A u \in 1..lastUser : u \in existing' =>
            u \in existing /\ \A j \in Identities : owner[j] = u => owner'[j] = u
      BY <1>0, <1>1, <2>1
    <3>2. \A d \in Calls \ {c} : call'[d] = call[d]
      BY <1>0, <1>1 DEF CreateUser, Answer
    <3> QED
      BY <1>0, <2>1, <3>1, <3>2, StillReady DEF IInv, Ready
  <2>4. call'[c] \in CallRecord /\ Ready(call[c])' /\ call' = [call EXCEPT ![c] = call'[c]]
    <3>1. CASE call' = [call EXCEPT ![c].pc = "sign", ![c].user = n] /\ call[c].kind = "social"
      <4>1. call'[c] = [call[c] EXCEPT !.pc = "sign", !.user = n]
        BY <1>0, <3>1
      <4>2. call'[c] \in CallRecord
        BY <1>0, <2>1, <4>1 DEF CallRecord, CallPoint
      <4>3. owner'[i] = n /\ n \in 1..lastUser'
        BY <1>0, <2>1
      <4>4. /\ call'[c].pc = "sign" /\ call'[c].user = n /\ call'[c].id = i
            /\ call'[c].kind = "social" /\ call'[c].reply = call[c].reply
            /\ call'[c].signed = call[c].signed
        BY <1>0, <3>1, <4>1 DEF CallRecord
      <4>5. call[c].reply = "tokens" => call[c].signed \in Tokens /\ call[c].signed[1] \in 1..lastUser'
        BY <1>0, <2>1 DEF Ready
      <4>6. Ready(call[c])'
        BY <1>0, <4>3, <4>4, <4>5 DEF Ready
      <4> QED
        BY <1>0, <3>1, <4>2, <4>6
    <3>2. CASE Answer(c, "ok")
      <4>1. call'[c] = [call[c] EXCEPT !.pc = "done", !.reply = "ok"]
        BY <1>0, <3>2 DEF Answer
      <4>2. call'[c] \in CallRecord /\ call'[c].pc = "done" /\ call'[c].reply = "ok"
        BY <1>0, <4>1, ZenonT(60) DEF CallRecord, CallPoint, Reply
      <4>3. Ready(call[c])'
        BY <4>2 DEF Ready
      <4> QED
        BY <1>0, <3>2, <4>2, <4>3 DEF Answer
    <3> QED
      BY <1>0, <1>1, <2>1, <3>1, <3>2 DEF CreateUser
  <2>5. TypeOK'
    <3>1. owner' \in [Identities -> Users \union {None}]
      BY <1>0, <2>1
    <3>2. email' \in [Users -> Emails \union {None}]
      BY <1>0, <2>1 DEF IInv, TypeOK, CallRecord
    <3>3. existing' \in SUBSET Users
      BY <2>1 DEF IInv, TypeOK
    <3>4. call' \in [Calls -> CallRecord]
      BY <1>0, <2>4
    <3> QED
      BY <2>1, <3>1, <3>2, <3>3, <3>4 DEF IInv, TypeOK, CreateUser
  <2> QED
    BY <2>2, <2>3, <2>4, <2>5 DEF IInv
<1>2. CASE /\ owner[i] # None /\ lastUser < MaxUsers /\ lastUser' = n
           /\ \E reply \in {"conflict", "constraint"} : Answer(c, reply)
           /\ UNCHANGED <<email, existing, owner, tokens, booked, now>>
  <2>1. lastUser' \in 0..MaxUsers /\ existing' \subseteq 1..lastUser' /\ lastUser <= lastUser'
    BY <1>0, <1>2, BoundsAssumption
  <2>2. Ownership'
    BY <1>2, <2>1 DEF IInv, Ownership
  <2>3. PICK reply \in {"conflict", "constraint"} : Answer(c, reply)
    BY <1>2
  <2>4. call'[c] = [call[c] EXCEPT !.pc = "done", !.reply = reply]
    BY <1>0, <2>3 DEF Answer
  <2>5. call'[c] \in CallRecord /\ call'[c].pc = "done" /\ call'[c].reply = reply
    BY <1>0, <2>4, ZenonT(60) DEF CallRecord, CallPoint, Reply
  <2>6. Ready(call[c])'
    BY <2>3, <2>5 DEF Ready
  <2>7. \A d \in Calls \ {c} : Ready(call[d])'
    <3>1. \A d \in Calls \ {c} : call'[d] = call[d]
      BY <1>0, <2>3 DEF Answer
    <3> QED
      BY <1>0, <1>2, <2>1, <3>1, StillReady DEF IInv, Ready
  <2>8. call' \in [Calls -> CallRecord]
    BY <1>0, <2>3, <2>5 DEF Answer
  <2> QED
    BY <1>2, <2>1, <2>2, <2>6, <2>7, <2>8 DEF IInv, TypeOK
<1> QED
  BY <1>1, <1>2 DEF CreateUser

(* A user that goes takes its identities along, and never comes back.      *)
LEMMA DeleteUserStep == ASSUME IInv, NEW c \in Calls, DeleteUser(c) PROVE IInv'
<1> DEFINE u == call[c].user
<1>0. /\ call \in [Calls -> CallRecord] /\ call[c] \in CallRecord
      /\ \A d \in Calls : Ready(call[d])
      /\ owner \in [Identities -> Users \union {None}]
      /\ lastUser \in 0..MaxUsers /\ lastUser' = lastUser
      /\ u \in Users
      /\ UNCHANGED <<lastUser, booked, now>>
  BY DEF IInv, TypeOK, DeleteUser, Waits, Ready
<1>1. CASE RemoveUser(u) /\ Answer(c, "ok") /\ tokens' = {t \in tokens : t[1] # u}
  <2>1. /\ existing' = existing \ {u}
        /\ owner' = [i \in Identities |-> IF owner[i] = u THEN None ELSE owner[i]]
        /\ email' = [email EXCEPT ![u] = None]
    BY <1>1 DEF RemoveUser
  <2>2. Ownership'
    <3>1. \A v \in existing' : \E i \in Identities : owner'[i] = v
      BY <2>1 DEF IInv, Ownership
    <3> QED
      BY <1>0, <2>1, <3>1 DEF IInv, Ownership
  <2>3. call'[c] = [call[c] EXCEPT !.pc = "done", !.reply = "ok"]
    BY <1>0, <1>1 DEF Answer
  <2>4. call'[c] \in CallRecord /\ call'[c].pc = "done" /\ call'[c].reply = "ok"
    BY <1>0, <2>3 DEF CallRecord, CallPoint, Reply
  <2>5. Ready(call[c])'
    BY <2>4 DEF Ready
  <2>6. \A d \in Calls \ {c} : Ready(call[d])'
    <3>1. \A d \in Calls \ {c} : call'[d] = call[d]
      BY <1>0, <1>1 DEF Answer
    <3>2. \A v \in 1..lastUser : v \in existing' =>
            v \in existing /\ \A j \in Identities : owner[j] = v => owner'[j] = v
      BY <2>1
    <3> QED
      BY <1>0, <3>1, <3>2, StillReady DEF IInv, Ready
  <2>7. TypeOK'
    <3>1. call' \in [Calls -> CallRecord]
      BY <1>0, <1>1, <2>4 DEF Answer
    <3>2. owner' \in [Identities -> Users \union {None}] /\ existing' \in SUBSET Users
      BY <1>0, <2>1 DEF IInv, TypeOK
    <3>3. email' \in [Users -> Emails \union {None}] /\ tokens' \in SUBSET Tokens
      BY <1>1, <2>1 DEF IInv, TypeOK
    <3> QED
      BY <1>0, <3>1, <3>2, <3>3 DEF IInv, TypeOK
  <2> QED
    BY <2>2, <2>5, <2>6, <2>7 DEF IInv
<1>2. CASE /\ \E reply \in {"constraint", "error"} : Answer(c, reply)
           /\ UNCHANGED <<tokens, existing, email, owner>>
  <2>1. email' \in [Users -> Emails \union {None}] /\ tokens' \in SUBSET Tokens
    BY <1>2 DEF IInv, TypeOK
  <2> QED
    BY <1>0, <1>2, <2>1, Answered DEF Reply
<1> QED
  BY <1>1, <1>2 DEF DeleteUser

LEMMA StepInvariant == IInv /\ [Next]_accountVars => IInv'
<1> SUFFICES ASSUME IInv, [Next]_accountVars PROVE IInv'
  OBVIOUS
<1>1. CASE \E c \in Calls : Arrival(c) \/ Progress(c)
  BY <1>1, ArrivalStep, CheckEmailStep, CreateUserStep, SignTokensStep, StoreTokenStep,
     UpdateUserStep, BuildProfileStep, DeleteUserStep, BreakStep DEF Progress
<1>2. CASE \E u \in Users : Book(u)
  <2>1. booked' \in SUBSET Users /\ UNCHANGED <<email, existing, lastUser, owner, tokens, now, call>>
    BY <1>2 DEF IInv, TypeOK, Book, rows
  <2> QED
    BY <2>1 DEF IInv, TypeOK, Ownership, Ready
<1>3. CASE Tick
  <2>1. now' \in 0..MaxTime /\ UNCHANGED <<email, existing, lastUser, owner, tokens, booked, call>>
    BY <1>3, BoundsAssumption DEF IInv, TypeOK, Tick, rows
  <2> QED
    BY <2>1 DEF IInv, TypeOK, Ownership, Ready
<1>4. CASE UNCHANGED accountVars
  BY <1>4 DEF accountVars, rows, IInv, TypeOK, Ownership, Ready
<1> QED
  BY <1>1, <1>2, <1>3, <1>4 DEF Next

LEMMA Invariant == Spec => []IInv
  BY InitInvariant, StepInvariant, PTL DEF Spec

(* Every variable keeps its type: what a call hands out is a token of a    *)
(* user that existed, and ids stay within what the table gave out.         *)
THEOREM TypeCorrect == Spec => []TypeOK
<1>1. IInv => TypeOK
  BY DEF IInv
<1> QED
  BY <1>1, Invariant, PTL

(* Sign-ups, callbacks and deletions, however they interleave, leave no    *)
(* user without an identity and no identity without its user.              *)
THEOREM SignInPossible == Spec => []EveryUserCanSignIn
<1>1. ASSUME IInv PROVE EveryUserCanSignIn
  <2>1. {owner[i] : i \in Identities} \ {None} \subseteq existing
    BY <1>1 DEF IInv, Ownership
  <2>2. None \notin existing
    <3>1. None \notin Nat /\ Users \subseteq Nat
      BY NamesAssumption, BoundsAssumption DEF Users
    <3> QED
      BY <1>1, <3>1 DEF IInv, TypeOK
  <2>3. existing \subseteq {owner[i] : i \in Identities} \ {None}
    BY <1>1, <2>2 DEF IInv, Ownership
  <2> QED
    BY <2>1, <2>3 DEF EveryUserCanSignIn
<1> QED
  BY <1>1, Invariant, PTL

(* Only the storing of a token lets a call answer with it. *)
LEMMA TokensAreStored ==
  ASSUME IInv, [Next]_accountVars, NEW c \in Calls,
         call[c].reply = "none", call'[c].reply = "tokens"
  PROVE  /\ StoreToken(c)
         /\ call[c].signed[1] \in existing
         /\ call'[c] = [call[c] EXCEPT !.pc = "done", !.reply = "tokens"]
<1>0. call \in [Calls -> CallRecord] /\ call'[c] # call[c]
  BY DEF IInv, TypeOK
<1>1. PICK d \in Calls : Arrival(d) \/ Progress(d)
  BY <1>0 DEF Next, Book, Tick, accountVars
<1>2. ASSUME Arrival(d) PROVE FALSE
  <2>1. PICK r : call' = [call EXCEPT ![d] = r] /\ r.reply # "tokens"
    BY <1>2 DEF Arrival, CheckLoginId, FindAuth, FindProvider, Refresh, Logout,
                FindForUpdate, FindForDelete, Start, Called
  <2> QED
    BY <1>0, <2>1
<1>3. ASSUME CheckEmail(d) \/ CreateUser(d) \/ SignTokens(d) \/ UpdateUser(d)
               \/ BuildProfile(d) \/ DeleteUser(d) \/ Break(d)
      PROVE  FALSE
  <2>1. \/ \E pc : GoOn(d, pc)
        \/ \E reply \in Reply \ {"tokens"} : Answer(d, reply)
        \/ \E u : call' = [call EXCEPT ![d].pc = "sign", ![d].user = u]
        \/ \E t : call' = [call EXCEPT ![d].pc = "store", ![d].signed = t]
    BY <1>3 DEF CheckEmail, CreateUser, SignTokens, UpdateUser, BuildProfile, DeleteUser, Break,
                Reply
  <2>2. ASSUME NEW pc, GoOn(d, pc) PROVE FALSE
    BY <1>0, <2>2 DEF GoOn, CallRecord
  <2>3. ASSUME NEW reply \in Reply \ {"tokens"}, Answer(d, reply) PROVE FALSE
    BY <1>0, <2>3 DEF Answer, CallRecord
  <2>4. ASSUME NEW u, call' = [call EXCEPT ![d].pc = "sign", ![d].user = u] PROVE FALSE
    BY <1>0, <2>4 DEF CallRecord
  <2>5. ASSUME NEW t, call' = [call EXCEPT ![d].pc = "store", ![d].signed = t] PROVE FALSE
    BY <1>0, <2>5 DEF CallRecord
  <2> QED
    BY <2>1, <2>2, <2>3, <2>4, <2>5
<1>4. StoreToken(d)
  BY <1>1, <1>2, <1>3 DEF Progress
<1>5. d = c
  BY <1>0, <1>4 DEF StoreToken, Answer
<1>6. CASE Answer(c, "tokens") /\ call[c].signed[1] \in existing
  BY <1>0, <1>4, <1>5, <1>6 DEF Answer
<1>7. CASE Answer(c, "constraint")
  <2>1. call'[c] = [call[c] EXCEPT !.pc = "done", !.reply = "constraint"]
    BY <1>0, <1>7 DEF Answer
  <2>2. call'[c].reply = "constraint"
    BY <1>0, <2>1 DEF CallRecord
  <2> QED
    BY <2>2
<1> QED
  BY <1>4, <1>5, <1>6, <1>7 DEF StoreToken

(* Tokens go to the owner of the identity that was proved, and to nobody   *)
(* once the account is gone.                                               *)
LEMMA SignIn == Spec => SignedInAsOwner
<1> DEFINE Proper(c) ==
      call[c].reply = "none" /\ call'[c].reply = "tokens" =>
        /\ call'[c].signed[1] \in existing'
        /\ call[c].kind \in {"login", "social"} => owner'[call[c].id] = call'[c].signed[1]
        /\ call[c].kind = "refresh" => call'[c].signed[1] = call[c].token[1]
<1>1. ASSUME IInv, [Next]_accountVars, NEW c \in Calls PROVE Proper(c)
  <2> SUFFICES ASSUME call[c].reply = "none", call'[c].reply = "tokens"
               PROVE  /\ call'[c].signed[1] \in existing'
                      /\ call[c].kind \in {"login", "social"} =>
                           owner'[call[c].id] = call'[c].signed[1]
                      /\ call[c].kind = "refresh" => call'[c].signed[1] = call[c].token[1]
    OBVIOUS
  <2>1. /\ StoreToken(c) /\ call[c].signed[1] \in existing
        /\ call'[c] = [call[c] EXCEPT !.pc = "done", !.reply = "tokens"]
    BY <1>1, TokensAreStored
  <2>2. call'[c].signed = call[c].signed /\ existing' = existing /\ owner' = owner
    BY <1>1, <2>1 DEF IInv, TypeOK, CallRecord, StoreToken
  <2>3. call[c].pc = "store" /\ Ready(call[c])
    BY <1>1, <2>1 DEF StoreToken, Waits, IInv
  <2>4. call[c].signed[1] = call[c].user
    BY <2>3 DEF Ready
  <2> QED
    BY <2>1, <2>2, <2>3, <2>4 DEF Ready
<1>2. IInv /\ [Next]_accountVars => \A c \in Calls : Proper(c)
  BY <1>1
<1> QED
  BY <1>2, Invariant, PTL DEF Spec, SignedInAsOwner

(* A session ends by its own token or with its account.                    *)
LEMMA SessionsKept == Spec => SessionsEndForAReason
<1> DEFINE CutOff(t) ==
      \/ t[1] \notin existing'
      \/ \E c \in Calls : call[c].pc = "idle" /\ call'[c].token = t
<1>1. ASSUME IInv, [Next]_accountVars, NEW t \in tokens \ tokens' PROVE CutOff(t)
  <2>0. call \in [Calls -> CallRecord] /\ tokens' # tokens
    BY <1>1 DEF IInv, TypeOK
  <2>1. PICK c \in Calls : Arrival(c) \/ Progress(c)
    BY <1>1, <2>0 DEF Next, Book, Tick, accountVars, rows
  <2>2. CASE Arrival(c)
    <3>1. PICK x \in Held : Refresh(c, x) \/ Logout(c, x)
      BY <2>0, <2>2 DEF Arrival, CheckLoginId, FindAuth, FindProvider, FindForUpdate,
                        FindForDelete, rows
    <3>2. t = x
      BY <1>1, <3>1 DEF Refresh, Logout
    <3>3. call[c].pc = "idle" /\ call'[c].token = x
      BY <2>0, <3>1 DEF Refresh, Logout, Start, Waits, Called
    <3> QED
      BY <2>0, <3>2, <3>3
  <2>3. CASE Progress(c)
    <3>1. DeleteUser(c)
      BY <1>1, <2>0, <2>3 DEF Progress, CheckEmail, CreateUser, SignTokens, StoreToken,
                              UpdateUser, BuildProfile, Break, rows
    <3>2. t[1] = call[c].user /\ existing' = existing \ {call[c].user}
      BY <1>1, <3>1 DEF DeleteUser, RemoveUser
    <3> QED
      BY <3>2
  <2> QED
    BY <2>1, <2>2, <2>3
<1>2. IInv /\ [Next]_accountVars => \A t \in tokens \ tokens' : CutOff(t)
  BY <1>1
<1> QED
  BY <1>2, Invariant, PTL DEF Spec, SessionsEndForAReason

(* Sessions begin for the owner of an identity and end for a reason, for   *)
(* any number of users, tokens and overlapping calls.                      *)
THEOREM SessionsJustified == Spec => SessionsHaveReason
  BY SessionsKept, SignIn DEF SessionsHaveReason

-----------------------------------------------------------------------------
(* The rotation of refresh tokens: each step that lets a refresh through   *)
(* takes a stored token away, each that stores one answers a call with it. *)

(* A call in the state r got past the deletion of t, or was answered with t. *)
GotPast(r, t) == r.kind = "refresh" /\ r.token = t /\ r.reply # "denied"
GotToken(r, t) == r.reply = "tokens" /\ r.signed = t

(* A call has no answer while it is under way, and no token before.        *)
Unanswered(r) ==
  /\ r.pc # "done" => r.reply = "none"
  /\ r.pc = "idle" => r.kind = "none"

Rotated ==
  /\ \A c \in Calls : Unanswered(call[c])
  /\ \A t \in Tokens : IsFiniteSet(LetThrough(t)) /\ IsFiniteSet(StoredBy(t))
  /\ RotationConsumes

LEMMA RotationStart == Init => Rotated
<1>. SUFFICES ASSUME Init PROVE Rotated
  OBVIOUS
<1>1. \A c \in Calls : call[c] = NewCall
  BY DEF Init
<1>2. /\ NewCall.pc = "idle" /\ NewCall.kind = "none" /\ NewCall.reply = "none"
  BY DEF NewCall, Called
<1>3. \A t \in Tokens : LetThrough(t) = {} /\ StoredBy(t) = {} /\ t \notin tokens
  BY <1>1, <1>2 DEF LetThrough, StoredBy, Init
<1>. QED  BY <1>1, <1>2, <1>3, FS_EmptySet DEF Rotated, RotationConsumes, Unanswered

(* One call moves, from q to r, and pays for each token it takes.          *)
LEMMA CallPays ==
  ASSUME IInv, Rotated, NEW c \in Calls, NEW r \in CallRecord, Unanswered(r),
         call' = [call EXCEPT ![c] = r],
         \A t \in Tokens :
           \/ /\ GotPast(r, t) <=> GotPast(call[c], t)
              /\ GotToken(r, t) <=> GotToken(call[c], t)
              /\ t \in tokens' => t \in tokens
           \/ /\ GotToken(r, t) <=> GotToken(call[c], t)
              /\ t \in tokens /\ t \notin tokens'
           \/ /\ GotPast(r, t) <=> GotPast(call[c], t)
              /\ ~GotToken(call[c], t) /\ GotToken(r, t)
  PROVE  Rotated'
<1>1. \A x \in Calls : call'[x] = IF x = c THEN r ELSE call[x]
  BY DEF IInv, TypeOK
<1>2. \A x \in Calls : Unanswered(call[x])'
  BY <1>1 DEF Rotated, Unanswered
<1>3. ASSUME NEW t \in Tokens
      PROVE  /\ IsFiniteSet(LetThrough(t))' /\ IsFiniteSet(StoredBy(t))'
             /\ Cardinality(LetThrough(t)') + (IF t \in tokens' THEN 1 ELSE 0)
                  <= Cardinality(StoredBy(t)')
  <2>. DEFINE L == LetThrough(t)
              S == StoredBy(t)
              L1 == LetThrough(t)'
              S1 == StoredBy(t)'
  <2>1. /\ IsFiniteSet(L) /\ IsFiniteSet(S)
        /\ Cardinality(L) + (IF t \in tokens THEN 1 ELSE 0) <= Cardinality(S)
    BY DEF Rotated, RotationConsumes
  <2>2. /\ L1 = IF GotPast(r, t) THEN L \union {c} ELSE L \ {c}
        /\ c \in L <=> GotPast(call[c], t)
    BY <1>1 DEF LetThrough, GotPast
  <2>3. /\ S1 = IF GotToken(r, t) THEN S \union {c} ELSE S \ {c}
        /\ c \in S <=> GotToken(call[c], t)
    BY <1>1 DEF StoredBy, GotToken
  <2>. HIDE DEF L, S, L1, S1
  <2>4. Cardinality(L) \in Nat /\ Cardinality(S) \in Nat
    BY <2>1, FS_CardinalityType
  <2>5. /\ IsFiniteSet(L \union {c})
        /\ c \notin L => Cardinality(L \union {c}) = Cardinality(L) + 1
    BY <2>1, FS_AddElement
  <2>6. /\ IsFiniteSet(S \union {c})
        /\ c \notin S => Cardinality(S \union {c}) = Cardinality(S) + 1
    BY <2>1, FS_AddElement
  <2>7. /\ IsFiniteSet(L \ {c})
        /\ c \in L => Cardinality(L \ {c}) = Cardinality(L) - 1
    BY <2>1, FS_RemoveElement
  <2>8. \/ L1 = L /\ S1 = S /\ (t \in tokens' => t \in tokens)
        \/ L1 \in {L, L \union {c}, L \ {c}} /\ S1 = S /\ t \in tokens /\ t \notin tokens'
        \/ L1 = L /\ c \notin S /\ S1 = S \union {c}
    <3>1. (GotPast(r, t) <=> GotPast(call[c], t)) => L1 = L
      BY <2>2
    <3>2. (GotToken(r, t) <=> GotToken(call[c], t)) => S1 = S
      BY <2>3
    <3>3. ~GotToken(call[c], t) /\ GotToken(r, t) => c \notin S /\ S1 = S \union {c}
      BY <2>3
    <3>4. L1 \in {L, L \union {c}, L \ {c}}
      BY <2>2
    <3>. QED  BY <3>1, <3>2, <3>3, <3>4
  <2>9. /\ L \union {c} = L \/ c \notin L
        /\ L \ {c} = L \/ c \in L
    OBVIOUS
  <2>10. IsFiniteSet(L1) /\ IsFiniteSet(S1)
    BY <2>1, <2>5, <2>6, <2>7, <2>8
  <2>11. Cardinality(L1) + (IF t \in tokens' THEN 1 ELSE 0) <= Cardinality(S1)
    <3>1. CASE L1 = L /\ S1 = S /\ (t \in tokens' => t \in tokens)
      BY <2>1, <2>4, <3>1
    <3>2. CASE L1 \in {L, L \union {c}, L \ {c}} /\ S1 = S /\ t \in tokens /\ t \notin tokens'
      <4>1. Cardinality(L1) <= Cardinality(L) + 1
        <5>1. CASE L1 = L
          BY <2>4, <5>1
        <5>2. CASE L1 = L \union {c} /\ c \notin L
          BY <2>4, <2>5, <5>2
        <5>3. CASE L1 = L \ {c} /\ c \in L
          BY <2>4, <2>7, <5>3
        <5>. QED  BY <2>9, <3>2, <5>1, <5>2, <5>3
      <4>2. Cardinality(L1) \in Nat
        BY <2>10, FS_CardinalityType
      <4>. QED  BY <2>1, <2>4, <3>2, <4>1, <4>2
    <3>3. CASE L1 = L /\ c \notin S /\ S1 = S \union {c}
      BY <2>1, <2>4, <2>6, <3>3
    <3>. QED  BY <2>8, <3>1, <3>2, <3>3
  <2>. QED  BY <2>10, <2>11 DEF L1, S1
<1>. QED  BY <1>2, <1>3 DEF Rotated, RotationConsumes

(* Tokens vanish and no call moves.                                        *)
LEMMA NothingTaken ==
  ASSUME Rotated, UNCHANGED call, tokens' \subseteq tokens
  PROVE  Rotated'
<1>1. \A t \in Tokens : LetThrough(t)' = LetThrough(t) /\ StoredBy(t)' = StoredBy(t)
  BY DEF LetThrough, StoredBy
<1>2. \A t \in Tokens : Cardinality(LetThrough(t)) \in Nat /\ Cardinality(StoredBy(t)) \in Nat
  BY FS_CardinalityType DEF Rotated
<1>3. ASSUME NEW t \in Tokens
      PROVE  /\ IsFiniteSet(LetThrough(t))' /\ IsFiniteSet(StoredBy(t))'
             /\ (Cardinality(LetThrough(t)) + (IF t \in tokens THEN 1 ELSE 0)
                   <= Cardinality(StoredBy(t)))'
  <2>1. Cardinality(LetThrough(t)) + (IF t \in tokens THEN 1 ELSE 0) <= Cardinality(StoredBy(t))
    BY DEF Rotated, RotationConsumes
  <2>2. t \in tokens' => t \in tokens
    OBVIOUS
  <2>. QED  BY <1>1, <1>2, <2>1, <2>2 DEF Rotated
<1>. QED  BY <1>3 DEF Rotated, RotationConsumes, Unanswered

(* A request that arrives and is not a refresh that was let through.       *)
LEMMA ArrivalPays ==
  ASSUME IInv, Rotated, NEW c \in Calls,
         NEW kind \in Kind, NEW i \in Identities \union {None}, NEW e \in Emails \union {None},
         NEW u \in Users \union {None}, NEW t \in Tokens \union {None},
         NEW pc \in CallPoint \ {"idle"}, NEW reply \in Reply \ {"tokens"},
         pc # "done" => reply = "none",
         kind = "refresh" /\ reply # "denied" => t \in tokens /\ tokens' = tokens \ {t},
         Start(c, Called(kind, i, e, u, t, pc, reply)), tokens' \subseteq tokens
  PROVE  Rotated'
<1>. DEFINE r == Called(kind, i, e, u, t, pc, reply)
<1>1. r \in CallRecord /\ call' = [call EXCEPT ![c] = r]
  BY CalledType DEF Start
<1>2. r.kind = kind /\ r.token = t /\ r.reply = reply /\ r.pc = pc
  BY DEF Called
<1>3. call[c].kind = "none" /\ call[c].reply = "none"
  BY DEF Start, Waits, Rotated, Unanswered
<1>. HIDE DEF r
<1>4. Unanswered(r)
  BY <1>2 DEF Unanswered
<1>5. \A x \in Tokens : /\ ~GotPast(call[c], x) /\ ~GotToken(call[c], x) /\ ~GotToken(r, x)
                        /\ GotPast(r, x) => x \in tokens /\ x \notin tokens'
  BY <1>2, <1>3 DEF GotPast, GotToken
<1>. QED  BY <1>1, <1>4, <1>5, CallPays

LEMMA ArrivalRotates == ASSUME IInv, Rotated, NEW c \in Calls, Arrival(c) PROVE Rotated'
<1>0. /\ tokens \in SUBSET Tokens
      /\ owner \in [Identities -> Users \union {None}]
      /\ LoginIds \subseteq Identities /\ SocialIds \subseteq Identities
      /\ \A d \in Calls : call[d].reply = "tokens" => call[d].signed \in Tokens
  BY DEF IInv, TypeOK, Ready, Identities
<1>1. ASSUME NEW i \in LoginIds, NEW e \in Emails, CheckLoginId(c, i, e) PROVE Rotated'
  BY <1>0, <1>1, ArrivalPays DEF CheckLoginId, rows, Kind, CallPoint, Reply
<1>2. ASSUME NEW i \in LoginIds, NEW e \in Emails \union {None}, FindAuth(c, i, e) PROVE Rotated'
  <2>1. PICK u \in Users \union {None}, pc \in {"sign", "done"}, reply \in {"none", "denied"} :
          /\ pc # "done" => reply = "none"
          /\ Start(c, Called("login", i, e, u, None, pc, reply))
    BY <1>0, <1>2 DEF FindAuth
  <2>2. UNCHANGED tokens
    BY <1>2 DEF FindAuth, rows
  <2>. QED  BY <1>0, <2>1, <2>2, ArrivalPays DEF Kind, CallPoint, Reply
<1>3. ASSUME NEW i \in SocialIds, NEW e \in Emails \union {None}, FindProvider(c, i, e) PROVE Rotated'
  <2>1. PICK u \in Users \union {None}, pc \in {"sign", "create"} :
          Start(c, Called("social", i, e, u, None, pc, "none"))
    BY <1>0, <1>3 DEF FindProvider
  <2>2. UNCHANGED tokens
    BY <1>3 DEF FindProvider, rows
  <2>. QED  BY <1>0, <2>1, <2>2, ArrivalPays DEF Kind, CallPoint, Reply
<1>4. ASSUME NEW t \in Held, Refresh(c, t) \/ Logout(c, t) PROVE Rotated'
  <2>0. t \in Tokens /\ t[1] \in Users
    BY <1>0, <1>4 DEF Held, Tokens
  <2>1. CASE Refresh(c, t)
    <3>1. CASE Expired(t) \/ t \notin tokens
      <4>1. Start(c, Called("refresh", None, None, t[1], t, "done", "denied"))
        BY <2>1, <3>1 DEF Refresh
      <4>. QED  BY <2>0, <2>1, <4>1, ArrivalPays DEF Refresh, Kind, CallPoint, Reply
    <3>2. CASE ~(Expired(t) \/ t \notin tokens)
      <4>1. Start(c, Called("refresh", None, None, t[1], t, "sign", "none"))
        BY <2>1, <3>2 DEF Refresh
      <4>2. t \in tokens /\ tokens' = tokens \ {t}
        BY <2>1, <3>2 DEF Refresh
      <4>. QED  BY <2>0, <4>1, <4>2, ArrivalPays DEF Kind, CallPoint, Reply
    <3>. QED  BY <3>1, <3>2
  <2>2. CASE Logout(c, t)
    BY <2>0, <2>2, ArrivalPays DEF Logout, Kind, CallPoint, Reply
  <2>. QED  BY <1>4, <2>1, <2>2
<1>5. ASSUME NEW u \in Users, NEW e \in Emails \union {None}, FindForUpdate(c, u, e) PROVE Rotated'
  <2>1. PICK pc \in {"done", "update", "email"}, reply \in {"none", "missing"} :
          /\ pc # "done" => reply = "none"
          /\ Start(c, Called("update", None, e, u, None, pc, reply))
    BY <1>5 DEF FindForUpdate
  <2>2. UNCHANGED tokens
    BY <1>5 DEF FindForUpdate, rows
  <2>. QED  BY <2>1, <2>2, ArrivalPays DEF Kind, CallPoint, Reply
<1>6. ASSUME NEW u \in Users, FindForDelete(c, u) PROVE Rotated'
  <2>1. PICK pc \in {"done", "delete"}, reply \in {"none", "missing"} :
          /\ pc # "done" => reply = "none"
          /\ Start(c, Called("delete", None, None, u, None, pc, reply))
    BY <1>6 DEF FindForDelete
  <2>2. UNCHANGED tokens
    BY <1>6 DEF FindForDelete, rows
  <2>. QED  BY <2>1, <2>2, ArrivalPays DEF Kind, CallPoint, Reply
<1>. QED  BY <1>1, <1>2, <1>3, <1>4, <1>5, <1>6 DEF Arrival

(* A call goes on without a new token, or is answered without one.         *)
LEMMA CallRotates ==
  ASSUME IInv, Rotated, NEW c \in Calls, NEW r \in CallRecord,
         call[c].pc \notin {"idle", "done"}, r.pc # "idle",
         r.pc # "done" => r.reply = "none", r.reply \notin {"denied", "tokens"},
         r.kind = call[c].kind, r.token = call[c].token,
         call' = [call EXCEPT ![c] = r], tokens' \subseteq tokens
  PROVE  Rotated'
<1>1. call[c].reply = "none"
  BY DEF Rotated, Unanswered
<1>2. Unanswered(r)
  BY DEF Unanswered
<1>3. \A t \in Tokens : /\ GotPast(r, t) <=> GotPast(call[c], t)
                        /\ ~GotToken(r, t) /\ ~GotToken(call[c], t)
  BY <1>1 DEF GotPast, GotToken
<1>. QED  BY <1>2, <1>3, CallPays

LEMMA AnswerRotates ==
  ASSUME IInv, Rotated, NEW c \in Calls, call[c].pc \notin {"idle", "done"},
         NEW reply \in Reply \ {"denied", "tokens"}, Answer(c, reply), tokens' \subseteq tokens
  PROVE  Rotated'
<1>. DEFINE r == [call[c] EXCEPT !.pc = "done", !.reply = reply]
<1>1. call[c] \in CallRecord /\ call \in [Calls -> CallRecord]
  BY DEF IInv, TypeOK
<1>2. /\ r \in CallRecord /\ r.pc = "done" /\ r.reply = reply
      /\ r.kind = call[c].kind /\ r.token = call[c].token
  BY <1>1 DEF CallRecord, CallPoint
<1>3. call' = [call EXCEPT ![c] = r]
  BY <1>1 DEF Answer
<1>. HIDE DEF r
<1>. QED  BY <1>2, <1>3, CallRotates

LEMMA ProgressRotates == ASSUME IInv, Rotated, NEW c \in Calls, Progress(c) PROVE Rotated'
<1>0. /\ call[c] \in CallRecord /\ call \in [Calls -> CallRecord] /\ lastUser \in 0..MaxUsers
      /\ call[c].pc # "done" => call[c].reply = "none"
  BY DEF IInv, TypeOK, Rotated, Unanswered
<1>1. CASE CheckEmail(c)
  <2>1. CASE \E pc \in {"create", "update"} : GoOn(c, pc)
    <3>1. PICK pc \in {"create", "update"} : GoOn(c, pc)
      BY <2>1
    <3>. DEFINE r == [call[c] EXCEPT !.pc = pc]
    <3>2. /\ r \in CallRecord /\ r.pc = pc /\ r.reply = call[c].reply
          /\ r.kind = call[c].kind /\ r.token = call[c].token
      BY <1>0 DEF CallRecord, CallPoint
    <3>3. call' = [call EXCEPT ![c] = r]
      BY <1>0, <3>1 DEF GoOn
    <3>4. call[c].pc = "email" /\ tokens' = tokens
      BY <1>1 DEF CheckEmail, Waits, rows
    <3>. HIDE DEF r
    <3>. QED  BY <1>0, <3>2, <3>3, <3>4, CallRotates
  <2>2. CASE Answer(c, "conflict")
    BY <1>1, <2>2, AnswerRotates DEF CheckEmail, Waits, rows, Reply
  <2>. QED  BY <1>1, <2>1, <2>2 DEF CheckEmail
<1>2. CASE CreateUser(c)
  <2>1. CASE \E reply \in {"ok", "conflict", "constraint"} : Answer(c, reply)
    BY <1>2, <2>1, AnswerRotates DEF CreateUser, Waits, Reply
  <2>2. CASE call' = [call EXCEPT ![c].pc = "sign", ![c].user = lastUser'] /\ InsertUser(c)
    <3>. DEFINE r == [call[c] EXCEPT !.pc = "sign", !.user = lastUser']
    <3>1. lastUser' \in Users
      BY <1>0, <2>2, BoundsAssumption DEF InsertUser, Users
    <3>2. /\ r \in CallRecord /\ r.pc = "sign" /\ r.reply = call[c].reply
          /\ r.kind = call[c].kind /\ r.token = call[c].token
      BY <1>0, <3>1 DEF CallRecord, CallPoint
    <3>3. call' = [call EXCEPT ![c] = r]
      BY <1>0, <2>2
    <3>4. call[c].pc = "create" /\ tokens' = tokens
      BY <1>2 DEF CreateUser, Waits
    <3>. HIDE DEF r
    <3>. QED  BY <1>0, <3>2, <3>3, <3>4, CallRotates
  <2>. QED  BY <1>2, <2>1, <2>2 DEF CreateUser
<1>3. CASE SignTokens(c)
  <2>. DEFINE signed == <<call[c].user, now>>
              r == [call[c] EXCEPT !.pc = "store", !.signed = signed]
  <2>1. call[c].pc = "sign" /\ tokens' = tokens
    BY <1>3 DEF SignTokens, Waits, rows
  <2>2. signed \in Tokens
    BY <2>1, BoundsAssumption DEF IInv, TypeOK, Ready, Tokens, Users
  <2>. HIDE DEF signed
  <2>3. /\ r \in CallRecord /\ r.pc = "store" /\ r.reply = call[c].reply
        /\ r.kind = call[c].kind /\ r.token = call[c].token
    BY <1>0, <2>2 DEF CallRecord, CallPoint
  <2>4. call' = [call EXCEPT ![c] = r]
    BY <1>0, <1>3 DEF SignTokens, signed
  <2>. HIDE DEF r
  <2>. QED  BY <1>0, <2>1, <2>3, <2>4, CallRotates
<1>4. CASE StoreToken(c)
  <2>. DEFINE t == call[c].signed
              r == [call[c] EXCEPT !.pc = "done", !.reply = "tokens"]
  <2>1. CASE Answer(c, "tokens") /\ tokens' = tokens \union {t} /\ t \notin tokens
    <3>1. /\ r \in CallRecord /\ r.pc = "done" /\ r.reply = "tokens" /\ r.signed = t
          /\ r.kind = call[c].kind /\ r.token = call[c].token
      BY <1>0 DEF CallRecord, CallPoint, Reply
    <3>2. call' = [call EXCEPT ![c] = r]
      BY <1>0, <2>1 DEF Answer
    <3>3. call[c].reply = "none"
      BY <1>0, <1>4 DEF StoreToken, Waits
    <3>. HIDE DEF r
    <3>4. Unanswered(r)
      BY <3>1 DEF Unanswered
    <3>5. \A x \in Tokens : /\ GotPast(r, x) <=> GotPast(call[c], x)
                            /\ ~GotToken(call[c], x) /\ (GotToken(r, x) <=> x = t)
                            /\ x # t /\ x \in tokens' => x \in tokens
      BY <2>1, <3>1, <3>3 DEF GotPast, GotToken
    <3>. QED  BY <3>1, <3>2, <3>4, <3>5, CallPays
  <2>2. CASE Answer(c, "constraint") /\ UNCHANGED tokens
    BY <1>4, <2>2, AnswerRotates DEF StoreToken, Waits, Reply
  <2>. QED  BY <1>4, <2>1, <2>2 DEF StoreToken
<1>5. CASE UpdateUser(c)
  <2>1. CASE Answer(c, "error")
    BY <1>5, <2>1, AnswerRotates DEF UpdateUser, Waits, Reply
  <2>2. CASE GoOn(c, "profile")
    <3>. DEFINE r == [call[c] EXCEPT !.pc = "profile"]
    <3>1. /\ r \in CallRecord /\ r.pc = "profile" /\ r.reply = call[c].reply
          /\ r.kind = call[c].kind /\ r.token = call[c].token
      BY <1>0 DEF CallRecord, CallPoint
    <3>2. call' = [call EXCEPT ![c] = r]
      BY <1>0, <2>2 DEF GoOn
    <3>3. call[c].pc = "update" /\ tokens' = tokens
      BY <1>5 DEF UpdateUser, Waits
    <3>. HIDE DEF r
    <3>. QED  BY <1>0, <3>1, <3>2, <3>3, CallRotates
  <2>. QED  BY <1>5, <2>1, <2>2 DEF UpdateUser
<1>6. CASE BuildProfile(c)
  BY <1>6, AnswerRotates DEF BuildProfile, Waits, Reply, rows
<1>7. CASE DeleteUser(c)
  BY <1>7, AnswerRotates DEF DeleteUser, Waits, Reply
<1>8. CASE Break(c)
  BY <1>8, AnswerRotates DEF Break, Reply, rows
<1>. QED
  BY <1>1, <1>2, <1>3, <1>4, <1>5, <1>6, <1>7, <1>8 DEF Progress

(* Of the refreshes with one token, in whatever order their statements     *)
(* run, at most as many get past the deletion as the token was stored:     *)
(* a refresh token is spent once (refresh, saveRefreshToken).              *)
THEOREM TokensSpentOnce == Spec => []RotationConsumes
<1>1. ASSUME IInv, Rotated, [Next]_accountVars PROVE Rotated'
  <2>1. CASE UNCHANGED <<tokens, call>>
    BY <1>1, <2>1, NothingTaken
  <2>2. CASE \E c \in Calls : Arrival(c) \/ Progress(c)
    BY <1>1, <2>2, ArrivalRotates, ProgressRotates
  <2>. QED  BY <1>1, <2>1, <2>2 DEF Next, Book, Tick, accountVars, rows
<1>2. IInv /\ Rotated /\ [Next]_accountVars => Rotated'
  BY <1>1
<1>3. Rotated => RotationConsumes
  BY DEF Rotated
<1>. QED  BY <1>2, <1>3, RotationStart, Invariant, PTL DEF Spec

-----------------------------------------------------------------------------
(***************************************************************************)
(* Notification.  NoticeInv says that what the gate has let through was    *)
(* allowed at the gate, and that every notice there is passed it.          *)
(***************************************************************************)

(* The category of call c is on. *)
Open(c) == Enabled(nCall[c].user, nCall[c].topic)

(* What the gate has let through is on, and a call that still stands before *)
(* the gate has been on if it is on now.                                    *)
PassedTheGate ==
  \A c \in NoticeCalls :
    /\ nCall[c].pc \in {"store", "push"} => nCall[c].on
    /\ nCall[c].pc = "gate" /\ Open(c) => nCall[c].on

(* A notice that is about to be marked as read is there. *)
ReadsWhatIsThere ==
  \A c \in NoticeCalls : nCall[c].pc = "read" => nCall[c].notice \in {n.id : n \in notices}

NoticeInv ==
  /\ NotificationTypeOK /\ IsFiniteSet(notices)
  /\ PassedTheGate /\ ReadsWhatIsThere /\ PatchesMerge

(* A row of settings has columns. *)
LEMMA ARowHasColumns == NoRow \notin Columns
<1>1. SUFFICES ASSUME NoRow \in Columns PROVE FALSE
  OBVIOUS
<1>2. DOMAIN NoRow = {}
  BY Zenon DEF NoRow
<1>3. DOMAIN NoRow = Topics
  BY <1>1, Zenon DEF Columns
<1>. QED  BY <1>2, <1>3, NotificationAssumption

(* Where a call stands at first. *)
LEMMA ACallBegins ==
  ASSUME NEW pc \in {"idle", "gate", "store", "push", "insert", "update", "read"},
         NEW u \in People, NEW k \in Topics
  PROVE  /\ NoticeAt(pc, u, k) \in CallOf
         /\ NoticeAt(pc, u, k).pc = pc
         /\ NoticeAt(pc, u, k).user = u /\ NoticeAt(pc, u, k).topic = k
BY NotificationAssumption DEF NoticeAt, CallOf

LEMMA RestIsACall == Rest \in CallOf /\ Rest.pc = "idle"
<1>1. (CHOOSE u \in People : TRUE) \in People /\ (CHOOSE k \in Topics : TRUE) \in Topics
  BY NotificationAssumption
<1>. QED  BY <1>1, ACallBegins DEF Rest

(* At first nobody has a row and no call is under way. *)
LEMMA NoticeStart == NotificationInit => NoticeInv
<1>. SUFFICES ASSUME NotificationInit PROVE NoticeInv
  OBVIOUS
<1>1. AllOn \in Columns
  BY DEF AllOn, Columns
<1>2. \A c \in NoticeCalls : nCall[c] = Rest
  BY DEF NotificationInit
<1>3. NotificationTypeOK
  BY <1>1, <1>2, RestIsACall DEF NotificationInit, NotificationTypeOK
<1>4. IsFiniteSet(notices)
  BY FS_EmptySet DEF NotificationInit
<1>5. PassedTheGate /\ ReadsWhatIsThere
  BY <1>2, RestIsACall DEF PassedTheGate, ReadsWhatIsThere
<1>6. PatchesMerge
  BY DEF PatchesMerge, NotificationInit
<1>. QED  BY <1>3, <1>4, <1>5, <1>6 DEF NoticeInv

(* A step that only moves one call keeps the invariant if the call does.   *)
LEMMA OneCallMoves ==
  ASSUME NoticeInv, NEW c \in NoticeCalls, NEW r \in CallOf, CallTo(c, r),
         UNCHANGED <<setting, asked, isRead>>,
         notices' \in SUBSET NoticeRow, IsFiniteSet(notices'), notices \subseteq notices',
         r.pc \in {"store", "push"} => r.on,
         r.pc = "gate" /\ Enabled(r.user, r.topic) => r.on,
         r.pc = "read" => r.notice \in {n.id : n \in notices},
         r.pc = "update" => setting[r.user] # NoRow
  PROVE  NoticeInv'
<1>1. nCall' \in [NoticeCalls -> CallOf]
  BY DEF CallTo, NoticeInv, NotificationTypeOK
<1>2. \A x \in NoticeCalls : nCall'[x] = IF x = c THEN r ELSE nCall[x]
  BY DEF CallTo, NoticeInv, NotificationTypeOK
<1>4. {n.id : n \in notices} \subseteq {n.id : n \in notices'}
  OBVIOUS
<1>5. NotificationTypeOK'
  BY <1>1, <1>2, <1>4 DEF NoticeInv, NotificationTypeOK
<1>6. PassedTheGate'
  <2>. SUFFICES ASSUME NEW x \in NoticeCalls
                PROVE  /\ nCall'[x].pc \in {"store", "push"} => nCall'[x].on
                       /\ nCall'[x].pc = "gate" /\ Open(x)' => nCall'[x].on
    BY DEF PassedTheGate
  <2>1. CASE x = c
    BY <1>2, <2>1 DEF Open, Enabled
  <2>2. CASE x # c
    <3>1. Open(x)' <=> Open(x)
      BY <1>2, <2>2 DEF Open, Enabled
    <3>. QED  BY <1>2, <2>2, <3>1 DEF NoticeInv, PassedTheGate
  <2>. QED  BY <2>1, <2>2
<1>7. ReadsWhatIsThere'
  BY <1>2, <1>4 DEF NoticeInv, ReadsWhatIsThere
<1>8. PatchesMerge'
  BY DEF NoticeInv, PatchesMerge
<1>. QED  BY <1>5, <1>6, <1>7, <1>8 DEF NoticeInv

LEMMA TheCall ==
  ASSUME NoticeInv, NEW c \in NoticeCalls
  PROVE  /\ nCall[c] \in CallOf /\ nCall[c].user \in People /\ nCall[c].topic \in Topics
         /\ nCall[c].value \in BOOLEAN
BY DEF NoticeInv, NotificationTypeOK, CallOf

LEMMA SettingBegins ==
  ASSUME NoticeInv, NEW c \in NoticeCalls, NEW u \in People, NEW k \in Topics,
         NEW v \in BOOLEAN, BeginSetting(c, u, k, v)
  PROVE  NoticeInv'
<1>. DEFINE r == [NoticeAt(IF setting[u] = NoRow THEN "insert" ELSE "update", u, k)
                    EXCEPT !.value = v, !.was = setting[u]]
<1>1. setting[u] \in Columns \union {NoRow}
  BY DEF NoticeInv, NotificationTypeOK
<1>2. r \in CallOf
  <2>. DEFINE q == NoticeAt(IF setting[u] = NoRow THEN "insert" ELSE "update", u, k)
  <2>1. q \in CallOf
    BY ACallBegins
  <2>. HIDE DEF q
  <2>2. [q EXCEPT !.value = v, !.was = setting[u]] \in CallOf
    BY <1>1, <2>1 DEF CallOf
  <2>. QED  BY <2>2 DEF q
<1>2a. r.user = u /\ r.pc = IF setting[u] = NoRow THEN "insert" ELSE "update"
  BY DEF NoticeAt
<1>3. CallTo(c, r) /\ UNCHANGED <<setting, asked, notices, isRead>>
  BY DEF BeginSetting
<1>. HIDE DEF r
<1>. QED  BY <1>2, <1>2a, <1>3, OneCallMoves DEF NoticeInv, NotificationTypeOK

LEMMA NotifyBegins ==
  ASSUME NoticeInv, NEW c \in NoticeCalls, NEW u \in People, NEW k \in Topics,
         BeginNotify(c, u, k)
  PROVE  NoticeInv'
<1>. DEFINE r == [NoticeAt("gate", u, k) EXCEPT !.on = Enabled(u, k)]
<1>1. Enabled(u, k) \in BOOLEAN
  BY DEF NoticeInv, NotificationTypeOK, Enabled, Columns
<1>2. r \in CallOf
  <2>. DEFINE q == NoticeAt("gate", u, k)
              on == Enabled(u, k)
  <2>1. q \in CallOf /\ on \in BOOLEAN
    BY <1>1, ACallBegins
  <2>. HIDE DEF q, on
  <2>2. [q EXCEPT !.on = on] \in CallOf
    BY <2>1 DEF CallOf
  <2>. QED  BY <2>2 DEF q, on
<1>2a. r.user = u /\ r.topic = k /\ r.pc = "gate" /\ r.on = Enabled(u, k)
  BY DEF NoticeAt
<1>3. CallTo(c, r) /\ UNCHANGED <<setting, asked, notices, isRead>>
  BY DEF BeginNotify
<1>. HIDE DEF r
<1>. QED  BY <1>2, <1>2a, <1>3, OneCallMoves DEF NoticeInv, NotificationTypeOK

LEMMA GatePasses ==
  ASSUME NoticeInv, NEW c \in NoticeCalls, Gate(c)
  PROVE  NoticeInv'
<1>. DEFINE r == [nCall[c] EXCEPT !.pc = "store"]
<1>1. CASE Enabled(nCall[c].user, nCall[c].topic)
  <2>1. r \in CallOf /\ r.pc = "store" /\ r.on = nCall[c].on
    BY DEF NoticeInv, NotificationTypeOK, CallOf
  <2>2. r.on
    BY <1>1, <2>1 DEF Gate, NoticeInv, PassedTheGate, Open
  <2>3. CallTo(c, r) /\ UNCHANGED <<setting, asked, notices, isRead>>
    BY <1>1 DEF Gate
  <2>. HIDE DEF r
  <2>. QED  BY <2>1, <2>2, <2>3, OneCallMoves DEF NoticeInv, NotificationTypeOK
<1>2. CASE ~Enabled(nCall[c].user, nCall[c].topic)
  <2>1. CallTo(c, Rest) /\ UNCHANGED <<setting, asked, notices, isRead>>
    BY <1>2 DEF Gate
  <2>. QED  BY <2>1, RestIsACall, OneCallMoves DEF NoticeInv, NotificationTypeOK
<1>. QED  BY <1>1, <1>2

LEMMA NoticeStored ==
  ASSUME NoticeInv, NEW c \in NoticeCalls, StoreNotice(c)
  PROVE  NoticeInv'
<1>. DEFINE n == Cardinality(notices) + 1
            new == [id |-> n, user |-> nCall[c].user, topic |-> nCall[c].topic]
            r == [nCall[c] EXCEPT !.pc = "push", !.notice = n]
<1>1. n \in 1..MaxNotices
  BY FS_CardinalityType, NotificationAssumption DEF NoticeInv, StoreNotice
<1>2. new \in NoticeRow
  BY <1>1, TheCall DEF NoticeRow
<1>3. notices' = notices \union {new} /\ CallTo(c, r) /\ UNCHANGED <<setting, asked, isRead>>
  BY DEF StoreNotice
<1>4. r \in CallOf /\ r.pc = "push" /\ r.on = nCall[c].on
  <2>1. r \in CallOf
    <3>1. n \in 0..MaxNotices
      BY <1>1
    <3>. HIDE DEF n
    <3>. QED  BY <3>1, TheCall DEF CallOf
  <2>2. r.pc = "push" /\ r.on = nCall[c].on
    BY TheCall DEF CallOf
  <2>. QED  BY <2>1, <2>2
<1>5. r.on
  BY <1>4 DEF StoreNotice, NoticeInv, PassedTheGate
<1>. HIDE DEF r, new
<1>6. notices' \in SUBSET NoticeRow /\ IsFiniteSet(notices') /\ notices \subseteq notices'
  BY <1>2, <1>3, FS_AddElement DEF NoticeInv, NotificationTypeOK
<1>. QED  BY <1>3, <1>4, <1>5, <1>6, OneCallMoves

LEMMA CallEnds ==
  ASSUME NoticeInv, NEW c \in NoticeCalls, Pushed(c) \/ FailCall(c)
  PROVE  NoticeInv'
<1>1. CallTo(c, Rest) /\ UNCHANGED <<setting, asked, notices, isRead>>
  BY DEF Pushed, FailCall
<1>. QED  BY <1>1, RestIsACall, OneCallMoves DEF NoticeInv, NotificationTypeOK

LEMMA NoticeFound ==
  ASSUME NoticeInv, NEW c \in NoticeCalls, NEW n \in notices, FindNotice(c, n)
  PROVE  NoticeInv'
<1>. DEFINE r == [NoticeAt("read", n.user, n.topic) EXCEPT !.notice = n.id]
<1>1. n \in NoticeRow
  BY DEF NoticeInv, NotificationTypeOK
<1>2. n.user \in People /\ n.topic \in Topics /\ n.id \in 0..MaxNotices
  BY <1>1, NotificationAssumption DEF NoticeRow
<1>3. r \in CallOf /\ r.pc = "read" /\ r.notice = n.id
  BY <1>2 DEF CallOf, NoticeAt
<1>4. CallTo(c, r) /\ UNCHANGED <<setting, asked, notices, isRead>>
  BY DEF FindNotice
<1>. HIDE DEF r
<1>. QED  BY <1>3, <1>4, OneCallMoves DEF NoticeInv, NotificationTypeOK

(* Reading changes only what is read. *)
LEMMA OnlyReading ==
  ASSUME NoticeInv, UNCHANGED <<setting, asked, notices, nCall>>,
         isRead' \in SUBSET {n.id : n \in notices}
  PROVE  NoticeInv'
BY DEF NoticeInv, NotificationTypeOK, PassedTheGate, ReadsWhatIsThere, PatchesMerge, Open, Enabled

LEMMA NoticeRead ==
  ASSUME NoticeInv, NEW c \in NoticeCalls, MarkRead(c)
  PROVE  NoticeInv'
<1>1. isRead' \in SUBSET {n.id : n \in notices'}
  BY DEF MarkRead, NoticeInv, NotificationTypeOK, ReadsWhatIsThere
<1>2. nCall' \in [NoticeCalls -> CallOf]
  BY RestIsACall DEF MarkRead, CallTo, NoticeInv, NotificationTypeOK
<1>3. \A x \in NoticeCalls : nCall'[x] = IF x = c THEN Rest ELSE nCall[x]
  BY DEF MarkRead, CallTo, NoticeInv, NotificationTypeOK
<1>4. UNCHANGED <<setting, asked, notices>>
  BY DEF MarkRead
<1>5. NotificationTypeOK'
  BY <1>1, <1>2, <1>3, <1>4, RestIsACall DEF NoticeInv, NotificationTypeOK
<1>6. (PassedTheGate /\ ReadsWhatIsThere /\ PatchesMerge)'
  BY <1>3, <1>4, RestIsACall
  DEF NoticeInv, PassedTheGate, ReadsWhatIsThere, PatchesMerge, Open, Enabled
<1>. QED  BY <1>4, <1>5, <1>6 DEF NoticeInv

(* A change of the settings merges its patch, and the calls at the gate see it. *)
LEMMA SettingsChange ==
  ASSUME NoticeInv, NEW c \in NoticeCalls, nCall[c].pc \in {"insert", "update"},
         NEW row \in Columns, Settled(c, nCall[c].user, row),
         row = [asked[nCall[c].user] EXCEPT ![nCall[c].topic] = nCall[c].value],
         asked' = [asked EXCEPT ![nCall[c].user][nCall[c].topic] = nCall[c].value],
         UNCHANGED <<notices, isRead>>
  PROVE  NoticeInv'
<1>. DEFINE u == nCall[c].user
            On(x) == nCall[x].on \/ (/\ nCall[x].pc \in {"gate", "store"}
                                     /\ nCall[x].user = u /\ row[nCall[x].topic])
<1>1. u \in People /\ nCall[c].topic \in Topics /\ nCall[c].value \in BOOLEAN
  BY TheCall
<1>2. /\ setting' \in [People -> Columns \union {NoRow}]
      /\ \A p \in People : setting'[p] = IF p = u THEN row ELSE setting[p]
  BY <1>1 DEF Settled, NoticeInv, NotificationTypeOK
<1>3. \A p \in People : asked'[p] = IF p = u THEN row ELSE asked[p]
  BY <1>1 DEF NoticeInv, NotificationTypeOK
<1>4. asked' \in [People -> Columns]
  BY <1>1, <1>3 DEF NoticeInv, NotificationTypeOK
<1>5. \A x \in NoticeCalls : On(x) \in BOOLEAN
  BY TheCall DEF Columns, NoticeInv, NotificationTypeOK, CallOf
<1>6. \A x \in NoticeCalls : nCall'[x] = IF x = c THEN Rest ELSE [nCall[x] EXCEPT !.on = On(x)]
  BY DEF Settled
<1>. HIDE DEF On
<1>7. \A x \in NoticeCalls \ {c} :
        /\ nCall'[x] \in CallOf /\ nCall'[x].on = On(x)
        /\ nCall'[x].pc = nCall[x].pc /\ nCall'[x].user = nCall[x].user
        /\ nCall'[x].topic = nCall[x].topic /\ nCall'[x].notice = nCall[x].notice
  <2>. SUFFICES ASSUME NEW x \in NoticeCalls \ {c}
                PROVE  /\ nCall'[x] \in CallOf /\ nCall'[x].on = On(x)
                       /\ nCall'[x].pc = nCall[x].pc /\ nCall'[x].user = nCall[x].user
                       /\ nCall'[x].topic = nCall[x].topic
                       /\ nCall'[x].notice = nCall[x].notice
    OBVIOUS
  <2>1. nCall'[x] = [nCall[x] EXCEPT !.on = On(x)] /\ nCall[x] \in CallOf
    BY <1>6, TheCall
  <2>2. nCall'[x] \in CallOf
    BY <1>5, <2>1 DEF CallOf
  <2>. QED  BY <2>1, <2>2 DEF CallOf
<1>8. nCall'[c] = Rest
  BY <1>6
<1>9. DOMAIN nCall' = NoticeCalls /\ nCall' = [x \in NoticeCalls |-> nCall'[x]]
  BY DEF Settled
<1>10. nCall' \in [NoticeCalls -> CallOf]
  BY <1>7, <1>8, <1>9, RestIsACall
<1>11. \A p \in People : setting[p] # NoRow => setting'[p] # NoRow
  BY <1>2, ARowHasColumns
<1>12. NotificationTypeOK'
  <2>1. \A x \in NoticeCalls : nCall'[x].pc = "update" => setting'[nCall'[x].user] # NoRow
    BY <1>7, <1>8, <1>11, RestIsACall, TheCall DEF NoticeInv, NotificationTypeOK
  <2>. QED  BY <2>1, <1>2, <1>4, <1>10 DEF NoticeInv, NotificationTypeOK
<1>13. PassedTheGate'
  <2>. SUFFICES ASSUME NEW x \in NoticeCalls
                PROVE  /\ nCall'[x].pc \in {"store", "push"} => nCall'[x].on
                       /\ nCall'[x].pc = "gate" /\ Open(x)' => nCall'[x].on
    BY DEF PassedTheGate
  <2>1. CASE x = c
    BY <1>8, <2>1, RestIsACall
  <2>2. CASE x # c
    <3>1. nCall[x].on => On(x)
      BY DEF On
    <3>2. nCall'[x].pc \in {"store", "push"} => nCall'[x].on
      BY <1>7, <2>2, <3>1 DEF NoticeInv, PassedTheGate
    <3>3. ASSUME nCall[x].pc = "gate", Open(x)'
          PROVE  On(x)
      <4>1. CASE nCall[x].user = u
        <5>1. setting'[u] = row /\ row # NoRow
          BY <1>1, <1>2, ARowHasColumns
        <5>2. row[nCall[x].topic]
          <6>1. nCall'[x].user = u /\ nCall'[x].topic = nCall[x].topic
            BY <4>1, <1>7, <2>2
          <6>. QED  BY <3>3, <5>1, <6>1 DEF Open, Enabled
        <5>. QED  BY <3>3, <4>1, <5>2 DEF On
      <4>2. CASE nCall[x].user # u
        <5>1. Open(x)
          BY <3>3, <4>2, <1>2, <1>7, <2>2, TheCall DEF Open, Enabled
        <5>. QED  BY <3>1, <3>3, <5>1 DEF NoticeInv, PassedTheGate
      <4>. QED  BY <4>1, <4>2
    <3>. QED  BY <1>7, <2>2, <3>2, <3>3
  <2>. QED  BY <2>1, <2>2
<1>14. ReadsWhatIsThere'
  BY <1>7, <1>8, RestIsACall DEF NoticeInv, ReadsWhatIsThere
<1>15. PatchesMerge'
  <2>1. row # NoRow
    BY ARowHasColumns
  <2>. QED  BY <1>2, <1>3, <2>1 DEF NoticeInv, PatchesMerge
<1>. QED  BY <1>12, <1>13, <1>14, <1>15 DEF NoticeInv

LEMMA SettingInserted ==
  ASSUME NoticeInv, NEW c \in NoticeCalls, InsertSetting(c)
  PROVE  NoticeInv'
<1>1. asked[nCall[c].user] = AllOn
  BY TheCall DEF InsertSetting, NoticeInv, PatchesMerge
<1>2. [AllOn EXCEPT ![nCall[c].topic] = nCall[c].value] \in Columns
  BY TheCall DEF AllOn, Columns
<1>. QED  BY <1>1, <1>2, SettingsChange DEF InsertSetting

LEMMA SettingUpdated ==
  ASSUME NoticeInv, NEW c \in NoticeCalls, UpdateSetting(c)
  PROVE  NoticeInv'
<1>1. setting[nCall[c].user] # NoRow
  BY DEF UpdateSetting, NoticeInv, NotificationTypeOK
<1>2. asked[nCall[c].user] = setting[nCall[c].user]
  BY <1>1, TheCall DEF NoticeInv, PatchesMerge
<1>3. [asked[nCall[c].user] EXCEPT ![nCall[c].topic] = nCall[c].value] \in Columns
  BY TheCall DEF NoticeInv, NotificationTypeOK, Columns
<1>. QED  BY <1>2, <1>3, SettingsChange DEF UpdateSetting

LEMMA NoticeStep == NoticeInv /\ [NotificationNext]_noticeVars => NoticeInv'
<1>. SUFFICES ASSUME NoticeInv, [NotificationNext]_noticeVars PROVE NoticeInv'
  OBVIOUS
<1>1. CASE UNCHANGED noticeVars
  BY <1>1 DEF noticeVars, NoticeInv, NotificationTypeOK, PassedTheGate, ReadsWhatIsThere,
              PatchesMerge, Open, Enabled
<1>2. ASSUME NEW c \in NoticeCalls, NEW u \in People, NEW k \in Topics,
             BeginNotify(c, u, k) \/ \E v \in BOOLEAN : BeginSetting(c, u, k, v)
      PROVE  NoticeInv'
  BY <1>2, NotifyBegins, SettingBegins
<1>3. ASSUME NEW c \in NoticeCalls, NEW n \in notices, FindNotice(c, n)
      PROVE  NoticeInv'
  BY <1>3, NoticeFound
<1>4. ASSUME NEW c \in NoticeCalls, InsertSetting(c) \/ UpdateSetting(c)
      PROVE  NoticeInv'
  BY <1>4, SettingInserted, SettingUpdated
<1>5. ASSUME NEW c \in NoticeCalls, Gate(c) \/ StoreNotice(c) \/ Pushed(c)
      PROVE  NoticeInv'
  BY <1>5, GatePasses, NoticeStored, CallEnds
<1>6. ASSUME NEW c \in NoticeCalls, MarkRead(c) \/ FailCall(c)
      PROVE  NoticeInv'
  BY <1>6, NoticeRead, CallEnds
<1>7. ASSUME NEW u \in People, MarkAllRead(u)
      PROVE  NoticeInv'
  BY <1>7, OnlyReading DEF MarkAllRead, NoticeInv, NotificationTypeOK
<1>. QED  BY <1>1, <1>2, <1>3, <1>4, <1>5, <1>6, <1>7 DEF NotificationNext

(* No notice is stored or pushed for a category that was off all the time   *)
(* of the call, and no change of the settings undoes an overlapping one, in *)
(* notify and updateSettings.                                               *)
THEOREM SettingsObeyed == NotificationSpec => []SettingsRespected
<1>1. NoticeInv => SettingsRespected
  BY DEF NoticeInv, PassedTheGate, SettingsRespected, GateRespected
<1>. QED  BY <1>1, NoticeStart, NoticeStep, PTL DEF NotificationSpec

(* The notices, the settings and the calls keep their types.               *)
THEOREM NoticesTyped == NotificationSpec => []NotificationTypeOK
<1>1. NoticeInv => NotificationTypeOK
  BY DEF NoticeInv
<1>. QED  BY <1>1, NoticeStart, NoticeStep, PTL DEF NotificationSpec

-----------------------------------------------------------------------------
(***************************************************************************)
(* Push.  PushInv says of every call what it knows where it stands         *)
(* (CallIsSound): a send has sent to all it found but those left, and      *)
(* purges nothing but what FCM has given up.                               *)
(***************************************************************************)

(* A request about a device names it and its user; a send has sent to all  *)
(* it found but those left, and purges only what FCM has given up.         *)
CallIsSound(r) ==
  /\ r.pc \in {"insert", "update", "remove"} => r.user \in Owners /\ r.device \in Devices
  /\ r.pc = "tokens" => r.sent = {}
  /\ r.pc = "send" => r.left # {} /\ r.sent \union r.left = r.found
  /\ r.pc = "purge" => r.sent = r.found
  /\ r.invalid \subseteq expired

PushInv == PushTypeOK /\ \A c \in PushCalls : CallIsSound(pCall[c])

(* A call at its start.                                                    *)
LEMMA APushBegins ==
  ASSUME NEW pc \in {"idle", "insert", "update", "remove", "tokens"},
         NEW u \in Owners \union {Nobody}, NEW t \in Devices \union {Nobody}
  PROVE  /\ PushAt(pc, u, t) \in PushCall
         /\ PushAt(pc, u, t).pc = pc /\ PushAt(pc, u, t).user = u
         /\ PushAt(pc, u, t).device = t
         /\ PushAt(pc, u, t).sent = {} /\ PushAt(pc, u, t).invalid = {}
BY DEF PushAt, PushCall

LEMMA EndedIsACall ==
  Ended \in PushCall /\ Ended.pc = "idle" /\ CallIsSound(Ended)
BY APushBegins DEF Ended, CallIsSound

LEMMA PushStart == PushInit => PushInv
BY EndedIsACall DEF PushInit, PushInv, PushTypeOK

LEMMA APushCall ==
  ASSUME PushInv, NEW c \in PushCalls
  PROVE  pCall[c] \in PushCall /\ CallIsSound(pCall[c])
BY DEF PushInv, PushTypeOK

(* A step that moves one call to a sound state.                            *)
LEMMA OnePushMoves ==
  ASSUME PushInv, NEW c \in PushCalls, NEW r \in PushCall, CallIsSound(r),
         PushTo(c, r), UNCHANGED expired,
         holder' \in [Devices -> Owners \union {Nobody}]
  PROVE  PushInv'
<1>1. /\ pCall' \in [PushCalls -> PushCall]
      /\ \A x \in PushCalls : pCall'[x] = IF x = c THEN r ELSE pCall[x]
  BY DEF PushTo, PushInv, PushTypeOK
<1>2. \A x \in PushCalls : CallIsSound(pCall[x])
  BY DEF PushInv
<1>3. ASSUME NEW x \in PushCalls
      PROVE  CallIsSound(pCall[x])'
  <2>1. CASE x = c
    BY <1>1, <2>1 DEF CallIsSound
  <2>2. CASE x # c
    BY <1>1, <1>2, <2>2 DEF CallIsSound
  <2>. QED  BY <2>1, <2>2
<1>4. \A x \in PushCalls : pCall'[x].pc = "send" => pCall'[x].left # {}
  BY <1>3 DEF CallIsSound
<1>. QED  BY <1>1, <1>3, <1>4 DEF PushInv, PushTypeOK

LEMMA RegisterBegins ==
  ASSUME PushInv, NEW c \in PushCalls, NEW u \in Owners, NEW t \in Devices,
         BeginRegister(c, u, t) \/ BeginUnregister(c, u, t)
  PROVE  PushInv'
<1>1. PICK pc \in {"insert", "update", "remove"} : PushTo(c, PushAt(pc, u, t))
  BY DEF BeginRegister, BeginUnregister
<1>2. PushAt(pc, u, t) \in PushCall /\ CallIsSound(PushAt(pc, u, t))
  BY APushBegins DEF CallIsSound
<1>3. UNCHANGED <<holder, expired>>
  BY DEF BeginRegister, BeginUnregister
<1>. QED  BY <1>1, <1>2, <1>3, OnePushMoves DEF PushInv, PushTypeOK

LEMMA PushBegins ==
  ASSUME PushInv, NEW c \in PushCalls, NEW u \in Owners, BeginPush(c, u)
  PROVE  PushInv'
<1>1. PushAt("tokens", u, Nobody) \in PushCall /\ CallIsSound(PushAt("tokens", u, Nobody))
  BY APushBegins DEF CallIsSound
<1>. QED  BY <1>1, OnePushMoves DEF BeginPush, PushInv, PushTypeOK

LEMMA DeviceWritten ==
  ASSUME PushInv, NEW c \in PushCalls, WriteDevice(c)
  PROVE  PushInv' /\ LiveTokensStay
<1>1. pCall[c].user \in Owners /\ pCall[c].device \in Devices
  BY APushCall DEF WriteDevice, CallIsSound
<1>2. /\ holder' \in [Devices -> Owners \union {Nobody}]
      /\ \A t \in Devices : holder'[t] = IF t = pCall[c].device THEN pCall[c].user ELSE holder[t]
  BY <1>1 DEF WriteDevice, PushInv, PushTypeOK
<1>3. PushInv'
  BY <1>2, EndedIsACall, OnePushMoves DEF WriteDevice
<1>4. LiveTokensStay
  BY <1>1, <1>2, PushAssumption DEF LiveTokensStay
<1>. QED  BY <1>3, <1>4

LEMMA DeviceRemoved ==
  ASSUME PushInv, NEW c \in PushCalls, RemoveDevice(c)
  PROVE  PushInv' /\ LiveTokensStay
<1>1. pCall[c].user \in Owners /\ pCall[c].device \in Devices
  BY APushCall DEF RemoveDevice, CallIsSound
<1>2. /\ holder' \in [Devices -> Owners \union {Nobody}]
      /\ \A t \in Devices :
           holder'[t] = IF t = pCall[c].device /\ holder[t] = pCall[c].user THEN Nobody
                        ELSE holder[t]
  BY <1>1 DEF RemoveDevice, PushInv, PushTypeOK
<1>3. PushInv'
  BY <1>2, EndedIsACall, OnePushMoves DEF RemoveDevice
<1>4. LiveTokensStay
  BY <1>2 DEF RemoveDevice, LiveTokensStay
<1>. QED  BY <1>3, <1>4

LEMMA TokensFound ==
  ASSUME PushInv, NEW c \in PushCalls, FindTokens(c)
  PROVE  PushInv'
<1>. DEFINE mine == {t \in Devices : holder[t] = pCall[c].user}
            r == [pCall[c] EXCEPT !.pc = "send", !.found = mine, !.left = mine]
<1>0. holder' \in [Devices -> Owners \union {Nobody}] /\ UNCHANGED <<holder, expired>>
  BY DEF FindTokens, PushInv, PushTypeOK
<1>1. CASE mine = {}
  BY <1>0, <1>1, EndedIsACall, OnePushMoves DEF FindTokens
<1>2. CASE mine # {}
  <2>1. mine \in SUBSET Devices /\ pCall[c] \in PushCall
    BY APushCall
  <2>2. PushTo(c, r)
    BY <1>2 DEF FindTokens
  <2>. HIDE DEF mine
  <2>3. /\ r \in PushCall /\ r.pc = "send" /\ r.left = mine /\ r.found = mine
        /\ r.sent = pCall[c].sent /\ r.invalid = pCall[c].invalid
    BY <2>1 DEF PushCall
  <2>4. pCall[c].sent = {} /\ pCall[c].invalid \subseteq expired
    BY APushCall DEF CallIsSound, FindTokens
  <2>. QED  BY <1>0, <1>2, <2>2, <2>3, <2>4, OnePushMoves DEF CallIsSound
<1>. QED  BY <1>1, <1>2

LEMMA BatchSent ==
  ASSUME PushInv, NEW c \in PushCalls, SendBatch(c)
  PROVE  PushInv'
<1>. DEFINE q == pCall[c]
<1>1. PICK b \in Batches(q.left) : PushTo(c, AfterBatch(q, b, b \intersect expired, q.left \ b))
  BY DEF SendBatch
<1>. DEFINE bad == b \intersect expired
            next == q.left \ b
            pc == IF next = {} THEN "purge" ELSE "send"
            r == [q EXCEPT !.left = next, !.sent = @ \union b, !.invalid = @ \union bad, !.pc = pc]
<1>2. q \in PushCall /\ q.left \in SUBSET Devices /\ b \subseteq q.left
  BY APushCall DEF Batches, PushCall
<1>3. bad \in SUBSET Devices /\ next \in SUBSET Devices /\ pc \in {"purge", "send"}
  BY <1>2
<1>4. PushTo(c, r)
  BY <1>1 DEF AfterBatch
<1>5. q.sent \union q.left = q.found /\ q.invalid \subseteq expired
  BY APushCall DEF CallIsSound, SendBatch
<1>6. (next = {} => q.sent \union b = q.found) /\ (q.sent \union b) \union next = q.found
  BY <1>2, <1>5
<1>7. bad \subseteq expired /\ (pc = "send" => next # {}) /\ (pc = "purge" => next = {})
  OBVIOUS
<1>8. holder' \in [Devices -> Owners \union {Nobody}] /\ UNCHANGED <<holder, expired>>
  BY DEF SendBatch, PushInv, PushTypeOK
<1>. HIDE DEF bad, next, pc, q
<1>9. /\ r \in PushCall /\ r.pc = pc /\ r.left = next /\ r.found = q.found
      /\ r.sent = q.sent \union b /\ r.invalid = q.invalid \union bad
  BY <1>2, <1>3 DEF PushCall
<1>. HIDE DEF r
<1>10. CallIsSound(r)
  BY <1>3, <1>5, <1>6, <1>7, <1>9 DEF CallIsSound
<1>. QED  BY <1>4, <1>8, <1>9, <1>10, OnePushMoves

LEMMA TokensPurged ==
  ASSUME PushInv, NEW c \in PushCalls, PurgeTokens(c)
  PROVE  PushInv' /\ LiveTokensStay
<1>1. /\ holder' \in [Devices -> Owners \union {Nobody}]
      /\ \A t \in Devices : holder'[t] = IF t \in pCall[c].invalid THEN Nobody ELSE holder[t]
  BY DEF PurgeTokens, PushInv, PushTypeOK
<1>2. pCall[c].invalid \subseteq expired
  BY APushCall DEF CallIsSound
<1>3. PushInv'
  BY <1>1, EndedIsACall, OnePushMoves DEF PurgeTokens
<1>4. LiveTokensStay
  BY <1>1, <1>2 DEF LiveTokensStay
<1>. QED  BY <1>3, <1>4

LEMMA PushFails ==
  ASSUME PushInv, NEW c \in PushCalls, FailPush(c)
  PROVE  PushInv'
BY EndedIsACall, OnePushMoves DEF FailPush, PushInv, PushTypeOK

LEMMA TokenExpires ==
  ASSUME PushInv, NEW t \in Devices, Expire(t)
  PROVE  PushInv'
BY DEF Expire, PushInv, PushTypeOK, CallIsSound

(* A step that leaves the table alone silences nobody.                     *)
LEMMA NobodySilenced == UNCHANGED holder => LiveTokensStay
BY DEF LiveTokensStay

LEMMA PushStep == PushInv /\ [PushNext]_pushVars => PushInv' /\ LiveTokensStay
<1>. SUFFICES ASSUME PushInv, [PushNext]_pushVars PROVE PushInv' /\ LiveTokensStay
  OBVIOUS
<1>1. CASE UNCHANGED pushVars
  BY <1>1, NobodySilenced DEF pushVars, PushInv, PushTypeOK, CallIsSound
<1>2. ASSUME NEW c \in PushCalls, NEW u \in Owners, NEW t \in Devices,
             BeginRegister(c, u, t) \/ BeginUnregister(c, u, t)
      PROVE  PushInv' /\ LiveTokensStay
  BY <1>2, RegisterBegins, NobodySilenced DEF BeginRegister, BeginUnregister
<1>3. ASSUME NEW c \in PushCalls, NEW u \in Owners, BeginPush(c, u)
      PROVE  PushInv' /\ LiveTokensStay
  BY <1>3, PushBegins, NobodySilenced DEF BeginPush
<1>4. ASSUME NEW c \in PushCalls, WriteDevice(c) \/ RemoveDevice(c) \/ PurgeTokens(c)
      PROVE  PushInv' /\ LiveTokensStay
  BY <1>4, DeviceWritten, DeviceRemoved, TokensPurged
<1>5. ASSUME NEW c \in PushCalls, FindTokens(c)
      PROVE  PushInv' /\ LiveTokensStay
  BY <1>5, TokensFound, NobodySilenced DEF FindTokens
<1>6. ASSUME NEW c \in PushCalls, SendBatch(c) \/ FailPush(c)
      PROVE  PushInv' /\ LiveTokensStay
  BY <1>6, BatchSent, PushFails, NobodySilenced DEF SendBatch, FailPush
<1>7. ASSUME NEW t \in Devices, Expire(t)
      PROVE  PushInv' /\ LiveTokensStay
  BY <1>7, TokenExpires, NobodySilenced DEF Expire
<1>. QED  BY <1>1, <1>2, <1>3, <1>4, <1>5, <1>6, <1>7 DEF PushNext

(* A registered device is lost only to its holder's logout or to FCM, and  *)
(* a push that ends was sent to every device that was found.               *)
THEOREM DevicesKept == PushSpec => DevicesReached
<1>1. PushInv' => PushReachesEveryDevice'
  BY DEF PushInv, CallIsSound, PushReachesEveryDevice
<1>2. PushInv /\ [PushNext]_pushVars => [LiveTokensStay /\ PushReachesEveryDevice']_pushVars
  BY <1>1, PushStep
<1>. QED  BY <1>2, PushStart, PushStep, PTL DEF PushSpec, DevicesReached

(* The table of devices and the calls keep their types.                    *)
THEOREM DevicesTyped == PushSpec => []PushTypeOK
<1>1. PushInv => PushTypeOK
  BY DEF PushInv
<1>. QED  BY <1>1, PushStart, PushStep, PTL DEF PushSpec

-----------------------------------------------------------------------------
(***************************************************************************)
(* UserAddress.  That the default is passed on is false of overlapping     *)
(* requests, each of which decides before it writes; it is proved of a     *)
(* user who waits for each answer (OneAtATime), where what a request has   *)
(* read still holds (RequestKnows).                                        *)
(***************************************************************************)

(* One request at a time: what a user who waits for each answer does.      *)
OneAtATime == \A c, d \in AddressCalls : c = d

(* A user with addresses has exactly one default address.                  *)
OneIsDefault == address # {} => \E a \in address : default = {a}

(* A request between two of its statements knows of the rows what holds:   *)
(* nothing else changes them.                                              *)
RequestKnows(r) ==
  /\ r.pc = "create" => r.wasDefault \/ address # {}
  /\ r.pc \in {"update", "delete", "next", "promote"} => r.target \in address
  /\ r.pc = "update" /\ r.target \in default => r.wants # "other"
  /\ r.pc = "delete" => (r.wasDefault <=> r.target \in default)
  /\ r.pc \in {"next", "promote"} => r.target \in default
  /\ r.pc = "promote" =>
       r.next = IF address = {r.target} THEN NoAddress ELSE Oldest(address \ {r.target})

AddressInv ==
  /\ AddressTypeOK
  /\ address \subseteq 1..lastAddress
  /\ OneIsDefault
  /\ \A c \in AddressCalls : RequestKnows(request[c])

LEMMA OldestIsLeast ==
  ASSUME NEW S \in SUBSET Addresses, S # {}
  PROVE  Oldest(S) \in S /\ \A b \in S : Oldest(S) <= b
<1>. DEFINE R == {s \in Nat \X Nat : s[1] < s[2]}
<1>0. IsWellFoundedOn(R, Nat)
  BY NatLessThanWellFounded DEF OpToRel
<1>0a. S \in SUBSET Nat
  BY AddressAssumption DEF Addresses
<1>. HIDE DEF R
<1>1. PICK p \in S : \A q \in S : <<q, p>> \notin R
  BY <1>0, <1>0a, WFMin
<1>2. ASSUME NEW q \in S PROVE p <= q
  <2>1. q \in Nat /\ p \in Nat
    BY <1>0a
  <2>2. q < p => <<q, p>> \in R
    BY ONLY <2>1 DEF R
  <2>. QED  BY <1>1, <2>1, <2>2
<1>. QED  BY <1>1, <1>2 DEF Oldest

LEMMA NewRequestIsARequest ==
  NewRequest \in RequestRecord /\ NewRequest.pc = "idle" /\ RequestKnows(NewRequest)
BY DEF NewRequest, RequestRecord, RequestKnows

LEMMA AddressStart == AddressInit => AddressInv
<1>. SUFFICES ASSUME AddressInit PROVE AddressInv
  OBVIOUS
<1>1. AddressTypeOK
  BY NewRequestIsARequest, AddressAssumption DEF AddressInit, AddressTypeOK
<1>2. \A c \in AddressCalls : request[c] = NewRequest
  BY DEF AddressInit
<1>. QED  BY <1>1, <1>2, NewRequestIsARequest DEF AddressInit, AddressInv, OneIsDefault

LEMMA ARequest ==
  ASSUME AddressInv, NEW c \in AddressCalls
  PROVE  request[c] \in RequestRecord /\ RequestKnows(request[c])
BY DEF AddressInv, AddressTypeOK

(* The only request moves and the addresses stay.                          *)
LEMMA OnlyTheRequest ==
  ASSUME OneAtATime, AddressInv, NEW c \in AddressCalls, NEW r \in RequestRecord,
         RequestKnows(r), Move(c, r), UNCHANGED <<address, default, lastAddress>>
  PROVE  AddressInv' /\ OldestTakesOver
<1>1. request' \in [AddressCalls -> RequestRecord] /\ \A x \in AddressCalls : request'[x] = r
  BY DEF Move, AddressInv, AddressTypeOK, OneAtATime
<1>2. \A x \in AddressCalls : RequestKnows(request[x])'
  BY <1>1 DEF RequestKnows
<1>3. OldestTakesOver
  BY DEF OldestTakesOver, AddressInv, AddressTypeOK
<1>. QED  BY <1>1, <1>2, <1>3 DEF AddressInv, AddressTypeOK, OneIsDefault

(* The only request is answered and leaves the addresses in order.         *)
LEMMA TheRequestEnds ==
  ASSUME OneAtATime, AddressInv, NEW c \in AddressCalls, Close(c),
         lastAddress' \in 0..MaxAddresses, address' \subseteq Addresses,
         address' \subseteq 1..lastAddress', default' \subseteq address', OneIsDefault'
  PROVE  AddressInv'
<1>1. /\ request' \in [AddressCalls -> RequestRecord]
      /\ \A x \in AddressCalls : request'[x] = NewRequest
  BY NewRequestIsARequest DEF Close, Move, AddressInv, AddressTypeOK, OneAtATime
<1>2. \A x \in AddressCalls : RequestKnows(request[x])'
  BY <1>1 DEF RequestKnows, NewRequest
<1>. QED  BY <1>1, <1>2 DEF AddressInv, AddressTypeOK

LEMMA CreateBegins ==
  ASSUME OneAtATime, AddressInv, NEW c \in AddressCalls, NEW wants \in {"default", "other"},
         BeginCreate(c, wants)
  PROVE  AddressInv' /\ OldestTakesOver
<1>. DEFINE d == wants = "default" \/ address = {}
            r == [NewRequest EXCEPT !.pc = "create", !.wasDefault = d]
<1>1. d \in BOOLEAN
  OBVIOUS
<1>2. d \/ address # {}
  OBVIOUS
<1>3. Move(c, r) /\ UNCHANGED <<address, default, lastAddress>>
  BY DEF BeginCreate
<1>. HIDE DEF d
<1>4. r \in RequestRecord /\ r.pc = "create" /\ r.wasDefault = d
  BY <1>1 DEF NewRequest, RequestRecord
<1>5. RequestKnows(r)
  BY <1>2, <1>4 DEF RequestKnows
<1>. QED  BY <1>3, <1>4, <1>5, OnlyTheRequest

LEMMA AddressInserted ==
  ASSUME OneAtATime, AddressInv, NEW c \in AddressCalls, InsertAddress(c)
  PROVE  AddressInv' /\ OldestTakesOver
<1>. DEFINE new == lastAddress + 1
<1>1. /\ lastAddress \in 0..MaxAddresses /\ new \in Addresses /\ lastAddress' = new
      /\ address' = address \union {new} /\ Close(c)
      /\ default' = IF request[c].wasDefault THEN {new} ELSE default
  BY AddressAssumption DEF InsertAddress, AddressInv, AddressTypeOK, Addresses
<1>2. address \subseteq 1..lastAddress /\ address \subseteq Addresses /\ default \subseteq address
  BY DEF AddressInv, AddressTypeOK
<1>3. address' \subseteq 1..lastAddress' /\ new \in Nat
  BY <1>1, <1>2, AddressAssumption
<1>4. ~request[c].wasDefault => \E a \in address : default = {a}
  BY ARequest DEF RequestKnows, InsertAddress, At, AddressInv, OneIsDefault
<1>. HIDE DEF new
<1>5. OneIsDefault'
  BY <1>1, <1>4 DEF OneIsDefault
<1>6. default' \subseteq address' /\ address' \subseteq Addresses
  BY <1>1, <1>2
<1>7. lastAddress' \in 0..MaxAddresses
  BY <1>1, AddressAssumption DEF Addresses
<1>8. OldestTakesOver
  BY <1>1, <1>2 DEF OldestTakesOver
<1>. QED  BY <1>1, <1>3, <1>5, <1>6, <1>7, <1>8, TheRequestEnds

LEMMA ChangeFinds ==
  ASSUME OneAtATime, AddressInv, NEW c \in AddressCalls, NEW a \in Addresses,
         NEW wants \in {"default", "other", "keep"}, FindForChange(c, a, wants)
  PROVE  AddressInv' /\ OldestTakesOver
<1>. DEFINE r == [NewRequest EXCEPT !.pc = "update", !.target = a, !.wants = wants]
<1>1. CASE a \notin address \/ (a \in default /\ wants = "other")
  BY <1>1, NewRequestIsARequest, OnlyTheRequest DEF FindForChange
<1>2. CASE ~(a \notin address \/ (a \in default /\ wants = "other"))
  <2>1. Move(c, r) /\ UNCHANGED <<address, default, lastAddress>>
    BY <1>2 DEF FindForChange
  <2>2. r \in RequestRecord /\ r.pc = "update" /\ r.target = a /\ r.wants = wants
    BY DEF NewRequest, RequestRecord
  <2>. HIDE DEF r
  <2>3. RequestKnows(r)
    BY <1>2, <2>2 DEF RequestKnows
  <2>. QED  BY <2>1, <2>2, <2>3, OnlyTheRequest
<1>. QED  BY <1>1, <1>2

LEMMA AddressChanged ==
  ASSUME OneAtATime, AddressInv, NEW c \in AddressCalls, ChangeAddress(c)
  PROVE  AddressInv' /\ OldestTakesOver
<1>. DEFINE a == request[c].target
<1>1. a \in address /\ (a \in default => request[c].wants # "other")
  BY ARequest DEF RequestKnows, ChangeAddress, At
<1>2. request[c].wants \in {"default", "other", "keep"}
  BY ARequest DEF RequestRecord
<1>3. /\ Close(c) /\ UNCHANGED <<address, lastAddress>>
      /\ default' = IF request[c].wants = "default" THEN {a} ELSE default
  BY <1>1, <1>2 DEF ChangeAddress, AddressInv, AddressTypeOK
<1>4. OneIsDefault' /\ default' \subseteq address'
  BY <1>1, <1>3 DEF OneIsDefault, AddressInv, AddressTypeOK
<1>5. OldestTakesOver
  BY <1>3 DEF OldestTakesOver, AddressInv, AddressTypeOK
<1>. QED  BY <1>3, <1>4, <1>5, TheRequestEnds DEF AddressInv, AddressTypeOK

LEMMA RemovalFinds ==
  ASSUME OneAtATime, AddressInv, NEW c \in AddressCalls, NEW a \in Addresses,
         FindForRemoval(c, a)
  PROVE  AddressInv' /\ OldestTakesOver
<1>. DEFINE d == a \in default
            r == [NewRequest EXCEPT !.pc = "delete", !.target = a, !.wasDefault = d]
<1>1. CASE a \notin address
  BY <1>1, NewRequestIsARequest, OnlyTheRequest DEF FindForRemoval
<1>2. CASE a \in address
  <2>1. Move(c, r) /\ UNCHANGED <<address, default, lastAddress>>
    BY <1>2 DEF FindForRemoval
  <2>2. d \in BOOLEAN /\ (d <=> a \in default)
    OBVIOUS
  <2>. HIDE DEF d
  <2>3. r \in RequestRecord /\ r.pc = "delete" /\ r.target = a /\ r.wasDefault = d
    BY <2>2 DEF NewRequest, RequestRecord
  <2>. HIDE DEF r
  <2>4. RequestKnows(r)
    BY <1>2, <2>2, <2>3 DEF RequestKnows
  <2>. QED  BY <2>1, <2>3, <2>4, OnlyTheRequest
<1>. QED  BY <1>1, <1>2

LEMMA AddressRemoved ==
  ASSUME OneAtATime, AddressInv, NEW c \in AddressCalls, RemoveAddress(c)
  PROVE  AddressInv' /\ OldestTakesOver
<1>. DEFINE a == request[c].target
            r == [request[c] EXCEPT !.pc = "next"]
<1>1. a \in address /\ (request[c].wasDefault <=> a \in default)
  BY ARequest DEF RequestKnows, RemoveAddress, At
<1>2. CASE request[c].wasDefault
  <2>1. Move(c, r) /\ UNCHANGED <<address, default, lastAddress>>
    BY <1>1, <1>2 DEF RemoveAddress
  <2>2. r \in RequestRecord /\ r.pc = "next" /\ r.target = a
    BY ARequest DEF RequestRecord
  <2>. HIDE DEF r
  <2>3. RequestKnows(r)
    BY <1>1, <1>2, <2>2 DEF RequestKnows
  <2>. QED  BY <2>1, <2>2, <2>3, OnlyTheRequest
<1>3. CASE ~request[c].wasDefault
  <2>1. /\ address' = address \ {a} /\ default' = default /\ Close(c)
        /\ lastAddress' = lastAddress
    BY <1>1, <1>3 DEF RemoveAddress
  <2>2. OneIsDefault' /\ default' \subseteq address' /\ OldestTakesOver
    BY <1>1, <1>3, <2>1 DEF OneIsDefault, OldestTakesOver, AddressInv, AddressTypeOK
  <2>3. address' \subseteq Addresses /\ address' \subseteq 1..lastAddress'
    BY <2>1 DEF AddressInv, AddressTypeOK
  <2>. QED  BY <2>1, <2>2, <2>3, TheRequestEnds DEF AddressInv, AddressTypeOK
<1>. QED  BY <1>2, <1>3

LEMMA NextFound ==
  ASSUME OneAtATime, AddressInv, NEW c \in AddressCalls, FindNext(c)
  PROVE  AddressInv' /\ OldestTakesOver
<1>. DEFINE others == address \ {request[c].target}
            next == IF others = {} THEN NoAddress ELSE Oldest(others)
            r == [request[c] EXCEPT !.pc = "promote", !.next = next]
<1>1. request[c].target \in address /\ request[c].target \in default
  BY ARequest DEF RequestKnows, FindNext, At
<1>2. next \in Addresses \union {NoAddress}
  <2>1. others \in SUBSET Addresses
    BY DEF AddressInv, AddressTypeOK
  <2>. HIDE DEF others
  <2>. QED  BY <2>1, OldestIsLeast
<1>3. next = IF address = {request[c].target} THEN NoAddress
             ELSE Oldest(address \ {request[c].target})
  BY <1>1
<1>4. Move(c, r) /\ UNCHANGED <<address, default, lastAddress>>
  BY DEF FindNext
<1>. HIDE DEF next
<1>5. /\ r \in RequestRecord /\ r.pc = "promote" /\ r.next = next
      /\ r.target = request[c].target
  BY <1>2, ARequest DEF RequestRecord
<1>. HIDE DEF r
<1>6. RequestKnows(r)
  BY <1>1, <1>3, <1>5 DEF RequestKnows
<1>. QED  BY <1>4, <1>5, <1>6, OnlyTheRequest

LEMMA NextPromoted ==
  ASSUME OneAtATime, AddressInv, NEW c \in AddressCalls, PromoteNext(c)
  PROVE  AddressInv' /\ OldestTakesOver
<1>. DEFINE a == request[c].target
            b == request[c].next
            others == address \ {a}
<1>1. /\ a \in address /\ a \in default
      /\ b = IF address = {a} THEN NoAddress ELSE Oldest(others)
  BY ARequest DEF RequestKnows, PromoteNext, At
<1>2. others \in SUBSET Addresses /\ others \subseteq 1..lastAddress
  BY DEF AddressInv, AddressTypeOK
<1>3. \A x \in Addresses : x # NoAddress
  BY AddressAssumption DEF Addresses
<1>4. default = {a}
  BY <1>1 DEF AddressInv, OneIsDefault
<1>5. Close(c) /\ lastAddress' = lastAddress
  BY DEF PromoteNext
<1>6. /\ address' = others
      /\ default' = IF others = {} THEN {} ELSE {Oldest(others)}
  <2>1. CASE others = {}
    <3>1. b = NoAddress
      BY <1>1, <2>1
    <3>. QED  BY <1>4, <2>1, <3>1 DEF PromoteNext
  <2>2. CASE others # {}
    <3>1. b = Oldest(others) /\ b \in others /\ b # NoAddress
      BY <1>1, <1>2, <1>3, <2>2, OldestIsLeast
    <3>. QED  BY <1>4, <2>2, <3>1 DEF PromoteNext
  <2>. QED  BY <2>1, <2>2
<1>. HIDE DEF others
<1>7. OneIsDefault' /\ default' \subseteq address'
  BY <1>2, <1>6, OldestIsLeast DEF OneIsDefault
<1>8. OldestTakesOver
  BY <1>6 DEF OldestTakesOver
<1>. QED  BY <1>2, <1>5, <1>6, <1>7, <1>8, TheRequestEnds DEF AddressInv, AddressTypeOK

LEMMA RequestAbandoned ==
  ASSUME OneAtATime, AddressInv, NEW c \in AddressCalls, AbandonRequest(c)
  PROVE  AddressInv' /\ OldestTakesOver
BY NewRequestIsARequest, OnlyTheRequest DEF AbandonRequest, Close

LEMMA AddressStep ==
  ASSUME OneAtATime, AddressInv, [AddressNext]_addressVars
  PROVE  AddressInv' /\ OldestTakesOver
<1>1. CASE UNCHANGED addressVars
  BY <1>1 DEF addressVars, AddressInv, AddressTypeOK, OneIsDefault, RequestKnows,
              OldestTakesOver
<1>2. ASSUME NEW c \in AddressCalls, NEW wants \in {"default", "other"}, BeginCreate(c, wants)
      PROVE  AddressInv' /\ OldestTakesOver
  BY <1>2, CreateBegins
<1>3. ASSUME NEW c \in AddressCalls, NEW a \in Addresses,
             \/ \E wants \in {"default", "other", "keep"} : FindForChange(c, a, wants)
             \/ FindForRemoval(c, a)
      PROVE  AddressInv' /\ OldestTakesOver
  BY <1>3, ChangeFinds, RemovalFinds
<1>4. ASSUME NEW c \in AddressCalls, InsertAddress(c) \/ ChangeAddress(c) \/ RemoveAddress(c)
      PROVE  AddressInv' /\ OldestTakesOver
  BY <1>4, AddressInserted, AddressChanged, AddressRemoved
<1>5. ASSUME NEW c \in AddressCalls, FindNext(c) \/ PromoteNext(c) \/ AbandonRequest(c)
      PROVE  AddressInv' /\ OldestTakesOver
  BY <1>5, NextFound, NextPromoted, RequestAbandoned
<1>. QED  BY <1>1, <1>2, <1>3, <1>4, <1>5 DEF AddressNext

(* A user who waits for each answer always has one default address while   *)
(* there is any, and the oldest of the others follows a deleted one.       *)
THEOREM DefaultInherited == OneAtATime => (AddressSpec => DefaultPassesOn)
<1>. SUFFICES ASSUME OneAtATime PROVE AddressSpec => DefaultPassesOn
  OBVIOUS
<1>1. AddressInv => OneDefaultAddress
  BY FS_Singleton DEF AddressInv, OneIsDefault, OneDefaultAddress
<1>2. AddressInv /\ [AddressNext]_addressVars => AddressInv' /\ OldestTakesOver
  BY AddressStep
<1>. QED  BY <1>1, <1>2, AddressStart, PTL DEF AddressSpec, DefaultPassesOn

(* With any number of requests a default address is one of the user's own: *)
(* what is promoted is never the address that goes.                        *)
Promotable(r) ==
  /\ r.pc \in {"delete", "next", "promote"} => r.target \in Addresses
  /\ r.pc = "promote" => r.next # r.target

AddressesSound == AddressTypeOK /\ \A c \in AddressCalls : Promotable(request[c])

LEMMA RequestsSound ==
  ASSUME AddressesSound, NEW c \in AddressCalls, NEW r \in RequestRecord, Move(c, r),
         Promotable(r), address' \in SUBSET Addresses, default' \in SUBSET address',
         lastAddress' \in 0..MaxAddresses
  PROVE  AddressesSound'
<1>1. /\ request' \in [AddressCalls -> RequestRecord]
      /\ \A x \in AddressCalls : request'[x] = IF x = c THEN r ELSE request[x]
  BY DEF Move, AddressesSound, AddressTypeOK
<1>. QED  BY <1>1 DEF AddressesSound, AddressTypeOK

LEMMA AddressesStaySound ==
  ASSUME AddressesSound, [AddressNext]_addressVars PROVE AddressesSound'
<1>. NewRequest \in RequestRecord /\ Promotable(NewRequest)
  BY NewRequestIsARequest DEF Promotable
<1>0. /\ address \in SUBSET Addresses /\ default \in SUBSET address
      /\ lastAddress \in 0..MaxAddresses
      /\ \A c \in AddressCalls : request[c] \in RequestRecord
  BY DEF AddressesSound, AddressTypeOK
<1>1. CASE UNCHANGED addressVars
  BY <1>1 DEF addressVars, AddressesSound, AddressTypeOK
<1>2. ASSUME NEW c \in AddressCalls, NEW wants \in {"default", "other"}, BeginCreate(c, wants)
      PROVE  AddressesSound'
  <2>. DEFINE d == wants = "default" \/ address = {}
              r == [NewRequest EXCEPT !.pc = "create", !.wasDefault = d]
  <2>1. Move(c, r) /\ d \in BOOLEAN
    BY <1>2 DEF BeginCreate
  <2>. HIDE DEF d
  <2>2. r \in RequestRecord /\ Promotable(r)
    BY <2>1 DEF NewRequest, RequestRecord, Promotable
  <2>. QED  BY <1>0, <1>2, <2>1, <2>2, RequestsSound DEF BeginCreate
<1>3. ASSUME NEW c \in AddressCalls, NEW a \in Addresses,
             NEW wants \in {"default", "other", "keep"}, FindForChange(c, a, wants)
      PROVE  AddressesSound'
  <2>. DEFINE r == [NewRequest EXCEPT !.pc = "update", !.target = a, !.wants = wants]
  <2>1. r \in RequestRecord /\ Promotable(r)
    BY DEF NewRequest, RequestRecord, Promotable
  <2>2. Move(c, r) \/ Move(c, NewRequest)
    BY <1>3 DEF FindForChange
  <2>. HIDE DEF r
  <2>. QED  BY <1>0, <1>3, <2>1, <2>2, NewRequestIsARequest, RequestsSound DEF FindForChange
<1>4. ASSUME NEW c \in AddressCalls, NEW a \in Addresses, FindForRemoval(c, a)
      PROVE  AddressesSound'
  <2>. DEFINE d == a \in default
              r == [NewRequest EXCEPT !.pc = "delete", !.target = a, !.wasDefault = d]
  <2>1. d \in BOOLEAN /\ (Move(c, r) \/ Move(c, NewRequest))
    BY <1>4 DEF FindForRemoval
  <2>. HIDE DEF d
  <2>2. r \in RequestRecord /\ Promotable(r)
    BY <2>1 DEF NewRequest, RequestRecord, Promotable
  <2>. HIDE DEF r
  <2>. QED  BY <1>0, <1>4, <2>1, <2>2, NewRequestIsARequest, RequestsSound DEF FindForRemoval
<1>5. ASSUME NEW c \in AddressCalls, InsertAddress(c)
      PROVE  AddressesSound'
  <2>1. /\ lastAddress' \in Addresses /\ lastAddress' \in 0..MaxAddresses
        /\ address' = address \union {lastAddress'}
        /\ default' \in {{lastAddress'}, default} /\ Move(c, NewRequest)
    BY <1>0, <1>5, AddressAssumption DEF InsertAddress, Addresses, Close
  <2>. QED  BY <1>0, <2>1, NewRequestIsARequest, RequestsSound
<1>6. ASSUME NEW c \in AddressCalls, ChangeAddress(c)
      PROVE  AddressesSound'
  <2>1. /\ UNCHANGED <<address, lastAddress>> /\ Move(c, NewRequest)
        /\ default' \in SUBSET address
    BY <1>0, <1>6 DEF ChangeAddress, Close
  <2>. QED  BY <1>0, <2>1, NewRequestIsARequest, RequestsSound
<1>7. ASSUME NEW c \in AddressCalls, RemoveAddress(c)
      PROVE  AddressesSound'
  <2>. DEFINE r == [request[c] EXCEPT !.pc = "next"]
  <2>0. request[c].pc = "delete" => Promotable(r)
    BY <1>0 DEF RequestRecord, Promotable, AddressesSound
  <2>1. r \in RequestRecord /\ Promotable(r)
    BY <1>0, <1>7, <2>0 DEF RequestRecord, RemoveAddress, At
  <2>2. Move(c, r) \/ Move(c, NewRequest)
    BY <1>7 DEF RemoveAddress, Close
  <2>3. /\ address' \in SUBSET Addresses /\ default' \in SUBSET address'
        /\ lastAddress' = lastAddress
    BY <1>0, <1>7 DEF RemoveAddress
  <2>. HIDE DEF r
  <2>. QED  BY <1>0, <2>1, <2>2, <2>3, NewRequestIsARequest, RequestsSound
<1>8. ASSUME NEW c \in AddressCalls, FindNext(c)
      PROVE  AddressesSound'
  <2>. DEFINE others == address \ {request[c].target}
              next == IF others = {} THEN NoAddress ELSE Oldest(others)
              r == [request[c] EXCEPT !.pc = "promote", !.next = next]
  <2>1. others \in SUBSET Addresses /\ request[c].target \notin others
    BY <1>0
  <2>2. Move(c, r) /\ UNCHANGED <<address, default, lastAddress>>
    BY <1>8 DEF FindNext
  <2>3. request[c].target \in Addresses
    BY <1>8 DEF FindNext, At, AddressesSound, Promotable
  <2>. HIDE DEF others
  <2>4. next \in Addresses \union {NoAddress} /\ next # request[c].target
    <3>1. NoAddress \notin Addresses
      BY AddressAssumption DEF Addresses
    <3>2. others # {} => Oldest(others) \in others
      BY <2>1, OldestIsLeast
    <3>. QED  BY <2>1, <2>3, <3>1, <3>2
  <2>. HIDE DEF next
  <2>5. r \in RequestRecord /\ r.next = next /\ r.target = request[c].target
    BY <1>0, <2>4 DEF RequestRecord
  <2>. HIDE DEF r
  <2>6. Promotable(r)
    BY <2>3, <2>4, <2>5 DEF Promotable
  <2>. QED  BY <1>0, <2>2, <2>5, <2>6, RequestsSound
<1>9. ASSUME NEW c \in AddressCalls, PromoteNext(c)
      PROVE  AddressesSound'
  <2>1. request[c].next # request[c].target
    BY <1>9 DEF PromoteNext, At, AddressesSound, Promotable
  <2>2. /\ address' \in SUBSET Addresses /\ default' \in SUBSET address'
        /\ lastAddress' = lastAddress /\ Move(c, NewRequest)
    BY <1>0, <1>9, <2>1 DEF PromoteNext, Close
  <2>. QED  BY <1>0, <2>2, NewRequestIsARequest, RequestsSound
<1>10. ASSUME NEW c \in AddressCalls, AbandonRequest(c)
       PROVE  AddressesSound'
  BY <1>0, <1>10, NewRequestIsARequest, RequestsSound DEF AbandonRequest, Close
<1>. QED  BY <1>1, <1>2, <1>3, <1>4, <1>5, <1>6, <1>7, <1>8, <1>9, <1>10 DEF AddressNext

(* Addresses, requests and the flag keep their types, however many         *)
(* requests overlap.                                                       *)
THEOREM AddressesTyped == AddressSpec => []AddressTypeOK
<1>1. AddressInit => AddressesSound
  BY AddressStart, NewRequestIsARequest DEF AddressInv, AddressesSound, AddressInit, Promotable
<1>2. AddressesSound => AddressTypeOK
  BY DEF AddressesSound
<1>3. AddressesSound /\ [AddressNext]_addressVars => AddressesSound'
  BY AddressesStaySound
<1>. QED  BY <1>1, <1>2, <1>3, PTL DEF AddressSpec

-----------------------------------------------------------------------------
(***************************************************************************)
(* Reminder.  ReminderInv says whom the run of a day has still to read,    *)
(* and that whoever is due is waiting, told, or was lost to a failure.     *)
(***************************************************************************)

(* The day on which the reminder of kind k for a visit at x is due.        *)
DayFor(k, x) == IF k = "DAY_BEFORE" THEN x \div 24 - 1 ELSE x \div 24

(* The kinds the run under way has not read yet.                           *)
ToRead(k) ==
  \/ job.pc = "read" /\ k = job.kind
  \/ job.pc # "idle" /\ job.kind = "DAY_BEFORE" /\ k = "DAY_OF"

(* Whom the run has read and not finished.                                 *)
Waiting == job.left \union IF job.pc = "send" THEN job.current ELSE {}

(* What was sent was due, on a day the job has run.                        *)
SentWhenDue ==
  \A b \in Bookings, k \in Kinds :
    reminded[<<b, k>>] # 0 =>
      /\ booking[b].status # "NONE"
      /\ DayFor(k, booking[b].at) <= ranOn
      /\ ToRead(k) => DayFor(k, booking[b].at) < ranOn

(* Who waits is due today and has not been reminded.                       *)
WaitingIsDue ==
  job.pc \in {"next", "send"} =>
    \A b \in Waiting :
      /\ booking[b].status # "NONE" /\ DayFor(job.kind, booking[b].at) = ranOn
      /\ reminded[<<b, job.kind>>] = 0
      /\ b \in job.sometime

(* The run keeps its account right, and takes the customers one by one.    *)
RunInOrder ==
  /\ job.pc # "idle" =>
       /\ ranOn = clock \div 24
       /\ \A b \in Bookings : booking[b].status = "CONFIRMED" => b \in job.sometime
       /\ \A b \in Bookings : wanted[b] => b \in job.someWanted
       /\ \A b \in job.steady : booking[b].status = "CONFIRMED" /\ wanted[b]
       /\ job.tried \subseteq job.sometime \intersect job.someWanted
  /\ job.pc = "send" =>
       job.current \subseteq job.someWanted /\ job.current \intersect job.left = {}

(* Who was to be reminded of the kinds already read waits or was tried.    *)
NobodyLost ==
  \A b \in job.steady :
    /\ job.pc \in {"next", "send"} /\ booking[b].at \in DueWindow(job.kind, clock)
         => b \in Waiting \union job.tried
    /\ job.pc # "idle" /\ job.kind = "DAY_OF" /\ booking[b].at \in DueWindow("DAY_BEFORE", clock)
         => b \in job.tried

VisitsTimed ==
  \A b \in Bookings : booking[b].status # "NONE" => booking[b].at \in Instants

ReminderInv ==
  /\ ReminderTypeOK /\ VisitsTimed /\ RemindedOnce
  /\ SentWhenDue /\ WaitingIsDue /\ RunInOrder /\ NobodyLost

-----------------------------------------------------------------------------
LEMMA DayOfHour ==
  ASSUME NEW t \in Nat
  PROVE  /\ t \div 24 \in Nat
         /\ 24 * (t \div 24) <= t /\ t < 24 * (t \div 24) + 24
OBVIOUS

LEMMA InstantsAreHours ==
  /\ Instants \subseteq Nat
  /\ \A t \in Instants \union {0} : t \in Nat /\ t \div 24 \in 0..LastDay
<1>1. ASSUME NEW t \in Instants PROVE t \in Nat /\ t \div 24 \in 0..LastDay
  <2>1. PICK d \in 0..LastDay, h \in HoursKst : t = 24 * d + h
    BY <1>1 DEF Instants
  <2>2. h \in 0..23
    BY ReminderAssumption
  <2>. QED  BY <2>1, <2>2, ReminderAssumption
<1>2. 0 \in Nat /\ 0 \div 24 \in 0..LastDay
  BY ReminderAssumption
<1>. QED  BY <1>1, <1>2

(* The windows of a run are today and tomorrow.                            *)
LEMMA WindowsAreDays ==
  ASSUME NEW k \in Kinds, NEW t \in Nat, NEW x \in Instants
  PROVE  /\ x \in DueWindow(k, t) => DayFor(k, x) = t \div 24
         /\ x >= t /\ x \div 24 <= t \div 24 + 1
              => x \in DueWindow("DAY_OF", t) \/ x \in DueWindow("DAY_BEFORE", t)
<1>. DEFINE d == t \div 24
            e == x \div 24
<1>1. x \in Nat
  BY InstantsAreHours
<1>2. d \in Nat /\ 24 * d <= t /\ t < 24 * d + 24
  BY DayOfHour
<1>3. e \in Nat /\ 24 * e <= x /\ x < 24 * e + 24
  BY <1>1, DayOfHour
<1>. HIDE DEF d, e
<1>4. DayFor(k, x) = IF k = "DAY_BEFORE" THEN e - 1 ELSE e
  BY DEF DayFor, e
<1>5. /\ x \in DueWindow("DAY_BEFORE", t) <=> 24 * (d + 1) <= x /\ x < 24 * (d + 2)
      /\ x \in DueWindow("DAY_OF", t) <=> t <= x /\ x < 24 * (d + 1)
  BY DEF DueWindow, Midnight, d
<1>6. x \in DueWindow("DAY_BEFORE", t) => e = d + 1
  BY <1>1, <1>2, <1>3, <1>5
<1>7. x \in DueWindow("DAY_OF", t) => e = d
  BY <1>1, <1>2, <1>3, <1>5
<1>8. k \in {"DAY_BEFORE", "DAY_OF"}
  BY DEF Kinds
<1>9. x \in DueWindow(k, t) => DayFor(k, x) = d
  BY <1>2, <1>3, <1>4, <1>6, <1>7, <1>8
<1>10. x >= t /\ e <= d + 1 => x \in DueWindow("DAY_OF", t) \/ x \in DueWindow("DAY_BEFORE", t)
  BY <1>1, <1>2, <1>3, <1>5
<1>. QED  BY <1>9, <1>10 DEF d, e

LEMMA ReminderStart == ReminderInit => ReminderInv
<1>. SUFFICES ASSUME ReminderInit PROVE ReminderInv
  OBVIOUS
<1>1. NoJob \in JobRecord /\ NoJob.pc = "idle" /\ NoJob.steady = {}
  BY DEF NoJob, JobRecord, Kinds
<1>2. ReminderTypeOK
  BY <1>1, ReminderAssumption DEF ReminderInit, ReminderTypeOK
<1>3. VisitsTimed /\ RemindedOnce /\ SentWhenDue
  BY DEF ReminderInit, VisitsTimed, RemindedOnce, SentWhenDue
<1>4. WaitingIsDue /\ RunInOrder /\ NobodyLost
  BY <1>1 DEF ReminderInit, WaitingIsDue, RunInOrder, NobodyLost
<1>. QED  BY <1>2, <1>3, <1>4 DEF ReminderInv

LEMMA TheJob ==
  ASSUME ReminderInv
  PROVE  /\ job \in JobRecord /\ job.kind \in Kinds
         /\ clock \in Nat /\ clock \div 24 \in 0..LastDay /\ ranOn \in Int
         /\ \A b \in Bookings : booking[b].at \in Nat
         /\ job.left \subseteq Bookings /\ job.current \subseteq Bookings
         /\ job.steady \subseteq Bookings
         /\ Waiting \subseteq Bookings
<1>1. job \in JobRecord /\ clock \in Instants \union {0} /\ ranOn \in Int
  BY ReminderAssumption DEF ReminderInv, ReminderTypeOK
<1>2. /\ job.kind \in Kinds /\ job.left \subseteq Bookings /\ job.current \subseteq Bookings
      /\ job.steady \subseteq Bookings
  BY <1>1 DEF JobRecord
<1>3. clock \in Nat /\ clock \div 24 \in 0..LastDay
  BY <1>1, InstantsAreHours
<1>4. \A b \in Bookings : booking[b].at \in Instants \union {0}
  BY DEF ReminderInv, ReminderTypeOK
<1>5. \A b \in Bookings : booking[b].at \in Nat
  BY <1>4, InstantsAreHours
<1>6. Waiting \subseteq Bookings
  BY <1>2 DEF Waiting
<1>. QED  BY <1>1, <1>2, <1>3, <1>5, <1>6

(* Customers book free times, cancel, and change their settings.           *)
LEMMA CustomersChange ==
  ASSUME ReminderInv,
         NEW newBooking \in [Bookings -> [at : Instants \union {0},
                                          status : {"NONE", "CONFIRMED", "CANCELLED"}]],
         NEW newWanted \in [Bookings -> BOOLEAN],
         CustomersDo(newBooking, newWanted),
         \A b \in Bookings :
           /\ newBooking[b].status # "NONE" => newBooking[b].at \in Instants
           /\ booking[b].status # "NONE" =>
                newBooking[b].at = booking[b].at /\ newBooking[b].status # "NONE"
  PROVE  ReminderInv'
<1>. DEFINE good == {b \in Bookings : newBooking[b].status = "CONFIRMED"}
            on == {b \in Bookings : newWanted[b]}
            r == [job EXCEPT !.steady = @ \intersect good \intersect on,
                             !.sometime = @ \union good, !.someWanted = @ \union on]
<1>1. /\ booking' = newBooking /\ wanted' = newWanted
      /\ UNCHANGED <<clock, ranOn, reminded>>
      /\ job' = IF job.pc = "idle" THEN job ELSE r
  BY DEF CustomersDo
<1>2. good \subseteq Bookings /\ on \subseteq Bookings
  OBVIOUS
<1>2a. \A b \in Bookings : /\ newBooking[b].status = "CONFIRMED" <=> b \in good
                           /\ newWanted[b] <=> b \in on
  OBVIOUS
<1>. HIDE DEF good, on
<1>3. /\ r \in JobRecord /\ r.pc = job.pc /\ r.kind = job.kind /\ r.left = job.left
      /\ r.current = job.current /\ r.tried = job.tried
      /\ r.steady = job.steady \intersect good \intersect on
      /\ r.sometime = job.sometime \union good /\ r.someWanted = job.someWanted \union on
  BY <1>2, TheJob DEF JobRecord
<1>. HIDE DEF r
<1>4. /\ job'.pc = job.pc /\ job'.kind = job.kind /\ job'.left = job.left
      /\ job'.current = job.current /\ job'.tried = job.tried
      /\ job'.steady \subseteq job.steady
      /\ job.sometime \subseteq job'.sometime /\ job.someWanted \subseteq job'.someWanted
      /\ job.pc # "idle" => /\ good \subseteq job'.sometime /\ on \subseteq job'.someWanted
                            /\ job'.steady \subseteq good \intersect on
  BY <1>1, <1>3
<1>5. ReminderTypeOK'
  BY <1>1, <1>3 DEF ReminderInv, ReminderTypeOK
<1>6. VisitsTimed' /\ RemindedOnce'
  BY <1>1 DEF ReminderInv, VisitsTimed, RemindedOnce
<1>7. SentWhenDue'
  BY <1>1, <1>4 DEF ReminderInv, SentWhenDue, ToRead
<1>8. Waiting' = Waiting /\ Waiting \subseteq Bookings
  BY <1>4, TheJob DEF Waiting
<1>9. WaitingIsDue'
  BY <1>1, <1>4, <1>8 DEF ReminderInv, WaitingIsDue
<1>10. RunInOrder'
  BY <1>1, <1>2a, <1>4, TheJob DEF ReminderInv, RunInOrder
<1>11. NobodyLost'
  <2>1. \A b \in job'.steady : b \in job.steady /\ booking[b].at = newBooking[b].at
    <3>1. job.pc = "idle" => job.steady = {}
      BY DEF ReminderInv, ReminderTypeOK, NoJob
    <3>2. \A b \in job.steady : b \in Bookings /\ booking[b].status = "CONFIRMED"
      BY <3>1, TheJob DEF ReminderInv, RunInOrder
    <3>. QED  BY <1>4, <3>2
  <2>. QED  BY <1>1, <1>4, <1>8, <2>1 DEF ReminderInv, NobodyLost, DueWindow
<1>. QED  BY <1>5, <1>6, <1>7, <1>9, <1>10, <1>11 DEF ReminderInv

LEMMA CustomersStep ==
  ASSUME ReminderInv, NEW b \in Bookings,
         (\E t \in Instants : BookVisit(b, t)) \/ CancelBooking(b) \/ SwitchSetting(b)
  PROVE  ReminderInv'
<1>. DEFINE Rows == [at : Instants \union {0}, status : {"NONE", "CONFIRMED", "CANCELLED"}]
<1>1. booking \in [Bookings -> Rows] /\ wanted \in [Bookings -> BOOLEAN]
  BY DEF ReminderInv, ReminderTypeOK
<1>2. VisitsTimed
  BY DEF ReminderInv
<1>3. ASSUME NEW t \in Instants, BookVisit(b, t)
      PROVE  ReminderInv'
  <2>. DEFINE new == [booking EXCEPT ![b] = [at |-> t, status |-> "CONFIRMED"]]
  <2>1. new \in [Bookings -> Rows]
    BY <1>1
  <2>2. \A x \in Bookings :
          new[x] = IF x = b THEN [at |-> t, status |-> "CONFIRMED"] ELSE booking[x]
    BY <1>1
  <2>3. booking[b].status = "NONE" /\ CustomersDo(new, wanted)
    BY <1>3 DEF BookVisit
  <2>. HIDE DEF new
  <2>. QED  BY <1>1, <1>2, <2>1, <2>2, <2>3, CustomersChange DEF VisitsTimed
<1>4. ASSUME CancelBooking(b)
      PROVE  ReminderInv'
  <2>. DEFINE new == [booking EXCEPT ![b].status = "CANCELLED"]
  <2>1. new \in [Bookings -> Rows]
    BY <1>1
  <2>2. \A x \in Bookings :
          /\ new[x].at = booking[x].at
          /\ new[x].status = IF x = b THEN "CANCELLED" ELSE booking[x].status
    BY <1>1
  <2>3. booking[b].status = "CONFIRMED" /\ CustomersDo(new, wanted)
    BY <1>4 DEF CancelBooking
  <2>. HIDE DEF new
  <2>. QED  BY <1>1, <1>2, <2>1, <2>2, <2>3, CustomersChange DEF VisitsTimed
<1>5. ASSUME SwitchSetting(b)
      PROVE  ReminderInv'
  <2>1. [wanted EXCEPT ![b] = ~@] \in [Bookings -> BOOLEAN]
    BY <1>1
  <2>. QED  BY <1>1, <1>2, <1>5, <2>1, CustomersChange DEF SwitchSetting, VisitsTimed
<1>. QED  BY <1>3, <1>4, <1>5

(* The run begins: no day is run twice.                                    *)
LEMMA RunBegins ==
  ASSUME ReminderInv, StartJob PROVE ReminderInv'
<1>. DEFINE on == {b \in Bookings : wanted[b]}
            r == [NoJob EXCEPT !.pc = "read", !.steady = Confirmed \intersect on,
                               !.sometime = Confirmed, !.someWanted = on]
<1>1. /\ job.pc = "idle" /\ ranOn < clock \div 24 /\ ranOn' = clock \div 24 /\ job' = r
      /\ UNCHANGED <<clock, booking, wanted, reminded>>
  BY DEF StartJob
<1>2. /\ \A b \in Bookings : booking[b].status = "CONFIRMED" <=> b \in Confirmed
      /\ \A b \in Bookings : wanted[b] <=> b \in on
      /\ Confirmed \subseteq Bookings /\ on \subseteq Bookings
  BY DEF Confirmed
<1>. HIDE DEF on
<1>3. /\ r \in JobRecord /\ r.pc = "read" /\ r.kind = "DAY_BEFORE" /\ r.left = {}
      /\ r.tried = {} /\ r.steady = Confirmed \intersect on
      /\ r.sometime = Confirmed /\ r.someWanted = on
  BY <1>2 DEF NoJob, JobRecord, Kinds
<1>. HIDE DEF r
<1>4. clock' \div 24 \in -1..LastDay
  BY <1>1, TheJob, ReminderAssumption
<1>5. ReminderTypeOK'
  BY <1>1, <1>3, <1>4 DEF ReminderInv, ReminderTypeOK
<1>6. VisitsTimed' /\ RemindedOnce'
  BY <1>1 DEF ReminderInv, VisitsTimed, RemindedOnce
<1>7. SentWhenDue'
  <2>1. \A b \in Bookings, k \in Kinds : DayFor(k, booking[b].at) \in Int
    BY TheJob, DayOfHour DEF DayFor
  <2>2. \A b \in Bookings, k \in Kinds :
          reminded[<<b, k>>] # 0 => /\ booking[b].status # "NONE"
                                    /\ DayFor(k, booking[b].at) < ranOn'
    BY <1>1, <2>1, TheJob DEF ReminderInv, SentWhenDue
  <2>. QED  BY <1>1, <2>1, <2>2, <1>4 DEF SentWhenDue
<1>8. WaitingIsDue' /\ RunInOrder' /\ NobodyLost'
  BY <1>1, <1>2, <1>3 DEF WaitingIsDue, RunInOrder, NobodyLost
<1>. QED  BY <1>5, <1>6, <1>7, <1>8 DEF ReminderInv

(* The run reads whom it has to remind: those of one day.                  *)
LEMMA DueRead ==
  ASSUME ReminderInv, ReadDue PROVE ReminderInv'
<1>. DEFINE due == {b \in Confirmed : booking[b].at \in DueWindow(job.kind, clock)}
            r == [job EXCEPT !.pc = "next", !.left = due]
<1>1. job.pc = "read" /\ job' = r /\ UNCHANGED <<clock, booking, wanted, ranOn, reminded>>
  BY DEF ReadDue
<1>2. /\ due \subseteq Bookings
      /\ \A b \in due : booking[b].status = "CONFIRMED"
                        /\ booking[b].at \in DueWindow(job.kind, clock)
      /\ \A b \in Bookings : booking[b].status = "CONFIRMED"
                             /\ booking[b].at \in DueWindow(job.kind, clock) => b \in due
  BY DEF Confirmed
<1>. HIDE DEF due
<1>3. /\ r \in JobRecord /\ r.pc = "next" /\ r.kind = job.kind /\ r.left = due
      /\ r.current = job.current /\ r.tried = job.tried /\ r.steady = job.steady
      /\ r.sometime = job.sometime /\ r.someWanted = job.someWanted
  BY <1>2, TheJob DEF JobRecord
<1>. HIDE DEF r
<1>4. ReminderTypeOK'
  BY <1>1, <1>3 DEF ReminderInv, ReminderTypeOK
<1>5. VisitsTimed' /\ RemindedOnce'
  BY <1>1 DEF ReminderInv, VisitsTimed, RemindedOnce
<1>6. \A k : ToRead(k)' => ToRead(k)
  BY <1>1, <1>3 DEF ToRead
<1>7. SentWhenDue'
  BY <1>1, <1>6 DEF ReminderInv, SentWhenDue
<1>8. ToRead(job.kind) /\ ranOn = clock \div 24
  BY <1>1 DEF ToRead, ReminderInv, RunInOrder
<1>9. ASSUME NEW b \in due
      PROVE  /\ booking[b].status # "NONE" /\ DayFor(job.kind, booking[b].at) = ranOn
             /\ reminded[<<b, job.kind>>] = 0
  <2>1. booking[b].at \in Instants /\ b \in Bookings
    BY <1>2 DEF ReminderInv, VisitsTimed
  <2>2. DayFor(job.kind, booking[b].at) = ranOn
    BY <1>2, <1>8, <2>1, TheJob, WindowsAreDays
  <2>. QED  BY <1>2, <1>8, <2>1, <2>2, TheJob DEF ReminderInv, SentWhenDue
<1>10. Waiting' = due
  BY <1>1, <1>3 DEF Waiting
<1>11. WaitingIsDue'
  BY <1>1, <1>2, <1>3, <1>9, <1>10 DEF WaitingIsDue, ReminderInv, RunInOrder
<1>12. RunInOrder'
  BY <1>1, <1>3 DEF ReminderInv, RunInOrder
<1>13. NobodyLost'
  <2>1. \A b \in job.steady : b \in Bookings /\ booking[b].status = "CONFIRMED"
    BY <1>1, TheJob DEF ReminderInv, RunInOrder
  <2>. QED  BY <1>1, <1>2, <1>3, <1>10, <2>1 DEF ReminderInv, NobodyLost, DueWindow
<1>. QED  BY <1>4, <1>5, <1>7, <1>11, <1>12, <1>13 DEF ReminderInv

(* A step within one kind: who waits no longer was tried, or has turned    *)
(* the notices off; what is sent goes to those who waited.                 *)
LEMMA RunGoesOn ==
  ASSUME ReminderInv, NEW r \in JobRecord, job' = r,
         UNCHANGED <<clock, booking, wanted, ranOn>>,
         job.pc \in {"next", "send"}, r.pc \in {"next", "send"}, r.kind = job.kind,
         r.steady = job.steady, r.sometime = job.sometime, r.someWanted = job.someWanted,
         Waiting' \subseteq Waiting,
         job.tried \subseteq r.tried,
         r.tried \subseteq r.sometime \intersect r.someWanted,
         \A b \in job.steady \intersect Waiting : b \in Waiting' \union r.tried,
         r.pc = "send" => r.current \subseteq r.someWanted /\ r.current \intersect r.left = {},
         reminded' \in [Bookings \X Kinds -> 0..2],
         \A x \in Bookings \X Kinds :
           \/ reminded'[x] = reminded[x]
           \/ x[1] \in Waiting \ Waiting' /\ x[2] = job.kind /\ reminded'[x] = reminded[x] + 1
  PROVE  ReminderInv'
<1>1. ReminderTypeOK'
  BY DEF ReminderInv, ReminderTypeOK
<1>2. \A b \in Waiting : /\ booking[b].status # "NONE"
                         /\ DayFor(job.kind, booking[b].at) = ranOn
                         /\ reminded[<<b, job.kind>>] = 0 /\ b \in job.sometime
  BY DEF ReminderInv, WaitingIsDue
<1>3. VisitsTimed' /\ RemindedOnce'
  <2>1. \A x \in Bookings \X Kinds : x = <<x[1], x[2]>>
    OBVIOUS
  <2>2. \A x \in Bookings \X Kinds : reminded[x] <= 1
    BY DEF ReminderInv, RemindedOnce
  <2>3. \A x \in Bookings \X Kinds : reminded'[x] <= 1
    BY <1>2, <2>1, <2>2
  <2>. QED  BY <2>3 DEF ReminderInv, VisitsTimed, RemindedOnce
<1>4. \A b \in Bookings, k \in Kinds :
        reminded'[<<b, k>>] # 0 =>
          reminded[<<b, k>>] # 0 \/ (b \in Waiting \ Waiting' /\ k = job.kind)
  <2>. SUFFICES ASSUME NEW b \in Bookings, NEW k \in Kinds, reminded'[<<b, k>>] # 0
                PROVE  reminded[<<b, k>>] # 0 \/ (b \in Waiting \ Waiting' /\ k = job.kind)
    OBVIOUS
  <2>. DEFINE x == <<b, k>>
  <2>1. x \in Bookings \X Kinds /\ x[1] = b /\ x[2] = k
    OBVIOUS
  <2>. HIDE DEF x
  <2>2. reminded'[x] # 0
    BY DEF x
  <2>3. reminded[x] # 0 \/ (b \in Waiting \ Waiting' /\ k = job.kind)
    BY <2>1, <2>2
  <2>. QED  BY <2>3 DEF x
<1>5. \A k : (ToRead(k)' <=> ToRead(k)) /\ (k = job.kind => ~ToRead(k)) 
  BY DEF ToRead
<1>6. SentWhenDue'
  <2>1. ranOn \in Int
    BY TheJob
  <2>. QED  BY <1>2, <1>4, <1>5, <2>1 DEF ReminderInv, SentWhenDue
<1>7. WaitingIsDue'
  <2>1. \A b \in Waiting' : reminded'[<<b, job.kind>>] = 0
    BY <1>2, TheJob
  <2>. QED  BY <1>2, <2>1 DEF WaitingIsDue
<1>8. RunInOrder'
  BY DEF ReminderInv, RunInOrder
<1>9. NobodyLost'
  BY DEF ReminderInv, NobodyLost, DueWindow
<1>. QED  BY <1>1, <1>3, <1>6, <1>7, <1>8, <1>9 DEF ReminderInv

LEMMA WantedChecked ==
  ASSUME ReminderInv, NEW b \in Bookings, CheckWanted(b) PROVE ReminderInv'
<1>. DEFINE pc == IF wanted[b] THEN "send" ELSE "next"
            one == IF wanted[b] THEN {b} ELSE {}
            r == [job EXCEPT !.left = @ \ {b}, !.pc = pc, !.current = one]
<1>1. /\ job.pc = "next" /\ b \in job.left /\ job' = r
      /\ UNCHANGED <<clock, booking, wanted, ranOn, reminded>>
  BY DEF CheckWanted
<1>2. /\ pc \in {"send", "next"} /\ one \subseteq {b} /\ (pc = "send" => wanted[b])
      /\ (pc = "next" => ~wanted[b]) /\ (wanted[b] => one = {b} /\ pc = "send")
  OBVIOUS
<1>. HIDE DEF pc, one
<1>3. /\ r \in JobRecord /\ r.pc = pc /\ r.kind = job.kind /\ r.left = job.left \ {b}
      /\ r.current = one /\ r.tried = job.tried /\ r.steady = job.steady
      /\ r.sometime = job.sometime /\ r.someWanted = job.someWanted
  BY <1>2, TheJob DEF JobRecord
<1>. HIDE DEF r
<1>4. Waiting = job.left /\ Waiting' = (job.left \ {b}) \union IF pc = "send" THEN one ELSE {}
  BY <1>1, <1>3 DEF Waiting
<1>5. Waiting' \subseteq Waiting /\ (Waiting \ Waiting' # {} => ~wanted[b])
      /\ Waiting \ Waiting' \subseteq {b}
  BY <1>1, <1>2, <1>4
<1>6. \A x \in job.steady : wanted[x]
  BY <1>1 DEF ReminderInv, RunInOrder
<1>7. pc = "send" => one \subseteq job.someWanted /\ one \intersect (job.left \ {b}) = {}
  BY <1>1, <1>2 DEF ReminderInv, RunInOrder
<1>8. /\ job.tried \subseteq job.sometime \intersect job.someWanted
      /\ reminded \in [Bookings \X Kinds -> 0..2]
  BY <1>1 DEF ReminderInv, RunInOrder, ReminderTypeOK
<1>. QED  BY <1>1, <1>2, <1>3, <1>5, <1>6, <1>7, <1>8, RunGoesOn

LEMMA ReminderSent ==
  ASSUME ReminderInv, SendReminder PROVE ReminderInv'
<1>. DEFINE r == [job EXCEPT !.pc = "next", !.tried = @ \union job.current]
<1>1. job.pc = "send" /\ job' = r /\ UNCHANGED <<clock, booking, wanted, ranOn>>
  BY DEF SendReminder
<1>2. /\ r \in JobRecord /\ r.pc = "next" /\ r.kind = job.kind /\ r.left = job.left
      /\ r.tried = job.tried \union job.current /\ r.steady = job.steady
      /\ r.sometime = job.sometime /\ r.someWanted = job.someWanted
  BY TheJob DEF JobRecord
<1>. HIDE DEF r
<1>3. Waiting = job.left \union job.current /\ Waiting' = job.left
  BY <1>1, <1>2 DEF Waiting
<1>4. job.current \subseteq job.sometime \intersect job.someWanted
      /\ job.current \intersect job.left = {}
      /\ job.tried \subseteq job.sometime \intersect job.someWanted
  BY <1>1, <1>3 DEF ReminderInv, RunInOrder, WaitingIsDue
<1>5. /\ reminded' \in [Bookings \X Kinds -> 0..2]
      /\ \A x \in Bookings \X Kinds :
           \/ reminded'[x] = reminded[x]
           \/ x[1] \in Waiting \ Waiting' /\ x[2] = job.kind /\ reminded'[x] = reminded[x] + 1
  <2>1. reminded \in [Bookings \X Kinds -> 0..2]
    BY DEF ReminderInv, ReminderTypeOK
  <2>2. CASE UNCHANGED reminded
    BY <2>1, <2>2
  <2>3. CASE reminded' = [x \in Bookings \X Kinds |->
                IF x[1] \in job.current /\ x[2] = job.kind /\ reminded[x] < 2
                THEN reminded[x] + 1 ELSE reminded[x]]
    <3>1. \A x \in Bookings \X Kinds : reminded[x] \in 0..2
      BY <2>1
    <3>2. \A x \in Bookings \X Kinds :
            \/ reminded'[x] = reminded[x]
            \/ /\ x[1] \in job.current /\ x[2] = job.kind
               /\ reminded'[x] = reminded[x] + 1 /\ reminded[x] < 2
      BY <2>3
    <3>3. \A x \in Bookings \X Kinds : reminded'[x] \in 0..2
      BY <3>1, <3>2
    <3>. QED  BY <1>3, <1>4, <2>3, <3>2, <3>3
  <2>. QED  BY <2>2, <2>3 DEF SendReminder
<1>6. \A b \in job.steady \intersect Waiting : b \in Waiting' \union r.tried
  BY <1>2, <1>3
<1>. QED  BY <1>1, <1>2, <1>3, <1>4, <1>5, <1>6, RunGoesOn

LEMMA KindChanges ==
  ASSUME ReminderInv, NextKind PROVE ReminderInv'
<1>. DEFINE r == [job EXCEPT !.pc = "read", !.kind = "DAY_OF", !.current = {}]
<1>1. /\ job.pc = "next" /\ job.left = {} /\ job.kind = "DAY_BEFORE" /\ job' = r
      /\ UNCHANGED <<clock, booking, wanted, ranOn, reminded>>
  BY DEF NextKind
<1>2. /\ r \in JobRecord /\ r.pc = "read" /\ r.kind = "DAY_OF" /\ r.left = {}
      /\ r.tried = job.tried /\ r.steady = job.steady
      /\ r.sometime = job.sometime /\ r.someWanted = job.someWanted
  BY <1>1, TheJob DEF JobRecord, Kinds
<1>. HIDE DEF r
<1>3. \A k \in Kinds : ToRead(k)' => ToRead(k)
  BY <1>1, <1>2 DEF ToRead
<1>4. ReminderTypeOK' /\ VisitsTimed' /\ RemindedOnce'
  BY <1>1, <1>2 DEF ReminderInv, ReminderTypeOK, VisitsTimed, RemindedOnce
<1>5. SentWhenDue' /\ WaitingIsDue' /\ RunInOrder'
  BY <1>1, <1>2, <1>3 DEF ReminderInv, SentWhenDue, WaitingIsDue, RunInOrder
<1>6. NobodyLost'
  <2>1. Waiting = {}
    BY <1>1 DEF Waiting
  <2>. QED  BY <1>1, <1>2, <2>1 DEF ReminderInv, NobodyLost, DueWindow
<1>. QED  BY <1>4, <1>5, <1>6 DEF ReminderInv

LEMMA RunEnds ==
  ASSUME ReminderInv, EndJob \/ BreakJob PROVE ReminderInv'
<1>1. job' = NoJob /\ UNCHANGED <<clock, booking, wanted, ranOn, reminded>>
  BY DEF EndJob, BreakJob
<1>2. NoJob \in JobRecord /\ NoJob.pc = "idle" /\ NoJob.steady = {}
  BY DEF NoJob, JobRecord, Kinds
<1>3. ReminderTypeOK' /\ VisitsTimed' /\ RemindedOnce'
  BY <1>1, <1>2 DEF ReminderInv, ReminderTypeOK, VisitsTimed, RemindedOnce
<1>4. SentWhenDue' /\ WaitingIsDue' /\ RunInOrder' /\ NobodyLost'
  BY <1>1, <1>2
  DEF ReminderInv, SentWhenDue, ToRead, WaitingIsDue, RunInOrder, NobodyLost
<1>. QED  BY <1>3, <1>4 DEF ReminderInv

LEMMA HourPasses ==
  ASSUME ReminderInv, Hour PROVE ReminderInv'
<1>1. /\ job.pc = "idle" /\ clock' \in Instants
      /\ UNCHANGED <<booking, wanted, ranOn, job, reminded>>
  BY DEF Hour
<1>2. job.steady = {}
  BY <1>1 DEF ReminderInv, ReminderTypeOK, NoJob
<1>3. ReminderTypeOK' /\ VisitsTimed' /\ RemindedOnce'
  BY <1>1 DEF ReminderInv, ReminderTypeOK, VisitsTimed, RemindedOnce
<1>4. SentWhenDue' /\ WaitingIsDue' /\ RunInOrder' /\ NobodyLost'
  BY <1>1, <1>2
  DEF ReminderInv, SentWhenDue, ToRead, WaitingIsDue, RunInOrder, NobodyLost
<1>. QED  BY <1>3, <1>4 DEF ReminderInv

LEMMA ReminderStep == ReminderInv /\ [ReminderNext]_reminderVars => ReminderInv'
<1>. SUFFICES ASSUME ReminderInv, [ReminderNext]_reminderVars PROVE ReminderInv'
  OBVIOUS
<1>1. CASE UNCHANGED reminderVars
  BY <1>1 DEF reminderVars, ReminderInv, ReminderTypeOK, VisitsTimed, RemindedOnce, SentWhenDue,
              ToRead, WaitingIsDue, Waiting, RunInOrder, NobodyLost, DueWindow
<1>2. ASSUME NEW b \in Bookings,
             (\E t \in Instants : BookVisit(b, t)) \/ CancelBooking(b) \/ SwitchSetting(b)
      PROVE  ReminderInv'
  BY <1>2, CustomersStep
<1>3. ASSUME NEW b \in Bookings, CheckWanted(b)
      PROVE  ReminderInv'
  BY <1>3, WantedChecked
<1>4. CASE StartJob \/ ReadDue \/ SendReminder
  BY <1>4, RunBegins, DueRead, ReminderSent
<1>5. CASE NextKind \/ EndJob \/ BreakJob \/ Hour
  BY <1>5, KindChanges, RunEnds, HourPasses
<1>. QED  BY <1>1, <1>2, <1>3, <1>4, <1>5 DEF ReminderNext

(* A run that comes to its end has passed nobody over.                     *)
LEMMA EndPassesNobodyOver == ReminderInv => NobodyPassedOver
<1>. SUFFICES ASSUME ReminderInv, EndJob, NEW b \in job.steady,
                     booking[b].at >= clock, booking[b].at \div 24 <= clock \div 24 + 1
              PROVE  b \in job.tried
  BY DEF NobodyPassedOver
<1>1. job.pc = "next" /\ job.left = {} /\ job.kind = "DAY_OF" /\ Waiting = {}
  BY DEF EndJob, Waiting
<1>2. booking[b].at \in Instants
  BY <1>1, TheJob DEF ReminderInv, RunInOrder, VisitsTimed
<1>3. \/ booking[b].at \in DueWindow("DAY_OF", clock)
      \/ booking[b].at \in DueWindow("DAY_BEFORE", clock)
  BY <1>2, TheJob, WindowsAreDays
<1>. QED  BY <1>1, <1>3 DEF ReminderInv, NobodyLost

(* Reminders go, once for each kind, to those whose visit is tomorrow or   *)
(* later today, to all of them, and to nobody without a reason.            *)
THEOREM RemindersGoOut == ReminderSpec => RemindersArrive
<1>1. ReminderInv' => RemindedOnce' /\ RemindersHaveReason'
  <2>1. job'.pc = "idle" /\ ReminderInv' => job'.tried = {}
    BY DEF ReminderInv, ReminderTypeOK, NoJob
  <2>. QED  BY <2>1 DEF ReminderInv, RunInOrder, RemindersHaveReason
<1>2. ReminderInv /\ [ReminderNext]_reminderVars
        => ReminderInv' /\ NobodyPassedOver /\ RemindedOnce' /\ RemindersHaveReason'
  BY <1>1, ReminderStep, EndPassesNobodyOver
<1>. QED  BY <1>2, ReminderStart, PTL DEF ReminderSpec, RemindersArrive

(* The clock, the bookings and the run keep their types.                   *)
THEOREM RemindersTyped == ReminderSpec => []ReminderTypeOK
<1>1. ReminderInv => ReminderTypeOK
  BY DEF ReminderInv
<1>. QED  BY <1>1, ReminderStart, ReminderStep, PTL DEF ReminderSpec

-----------------------------------------------------------------------------
(***************************************************************************)
(* The parts together (MCCustomer).                                        *)
(***************************************************************************)

(* A run of all the parts is a run of each of them.                        *)
LEMMA PartsAreThemselves ==
  MCSpec => Spec /\ AddressSpec /\ NotificationSpec /\ PushSpec /\ ReminderSpec
<1>1. MCInit => Init /\ AddressInit /\ NotificationInit /\ PushInit /\ ReminderInit
  BY DEF MCInit
<1>2. [MCNext]_MCVars =>
        /\ [Next]_accountVars /\ [AddressNext]_addressVars /\ [NotificationNext]_noticeVars
        /\ [PushNext]_pushVars /\ [ReminderNext]_reminderVars
  BY Zenon DEF MCNext, MCVars
<1>. QED
  BY <1>1, <1>2, PTL
  DEF MCSpec, Spec, AddressSpec, NotificationSpec, PushSpec, ReminderSpec

(* Every part keeps its types, whatever users, calls and bounds there are. *)
THEOREM CustomersTyped == MCSpec => []CustomerTypeOK
  BY PartsAreThemselves, TypeCorrect, AddressesTyped, NoticesTyped, DevicesTyped, RemindersTyped,
     PTL DEF CustomerTypeOK
=============================================================================
