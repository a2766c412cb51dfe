-------------------------------- MODULE Account --------------------------------
(***************************************************************************)
(* Accounts and sessions: UserAuthService, SocialAuthService, TokenService *)
(* and UserService over the tables users, user_auth_providers and          *)
(* refresh_tokens.                                                         *)
(*                                                                         *)
(* A refresh token is a JWT over the user and the second in which it was   *)
(* signed (and constants): two tokens signed for one user in one second    *)
(* are the same string, so a token is the pair <<user, second>>.  The      *)
(* password of a local account is known to who owns its login id: whoever  *)
(* signs in as "id" knows the password of id and of no other account.      *)
(*                                                                         *)
(* A call is one request; its first statement is its first step, and every *)
(* later statement is a step of its own.  What it reads of a JWT does not  *)
(* change and is read with the statement that follows.                     *)
(***************************************************************************)
EXTENDS Integers, Sequences, FiniteSets

CONSTANTS
  LoginIds,    \* login ids of local accounts
  SocialIds,   \* <<provider, id>> of social accounts
  Emails,      \* never login ids: the signup schema refuses "@" in a login id
  Registered,  \* the identities of the users there are at first, user 1 first
  MaxUsers,    \* bound on the ids given to users
  MaxTime,     \* bound on the clock, in seconds
  Lifetime,    \* JWT_REFRESH_EXPIRES_IN
  Calls,
  None

ASSUME RegisteredAssumption ==
  /\ Registered \in Seq(LoginIds \union SocialIds)
  /\ \A i, j \in 1..Len(Registered) : Registered[i] = Registered[j] => i = j
  /\ Len(Registered) <= MaxUsers
ASSUME BoundsAssumption == MaxUsers \in Nat /\ MaxTime \in Nat /\ Lifetime \in Nat \ {0}
ASSUME NamesAssumption ==
  /\ LoginIds \cap SocialIds = {}
  /\ None \notin LoginIds \union SocialIds \union Emails \union Nat \union (Nat \X Nat)

VARIABLES
  email,     \* email[u]: users.email
  existing,  \* users that have a row
  lastUser,  \* the last id the table has given out, also to inserts undone
  owner,     \* owner[i]: user of the user_auth_providers row of identity i
  tokens,    \* refresh_tokens, by their unique token
  booked,    \* users a row of reservations refers to
  now,
  call       \* call[c]: where a request stands

rows == <<email, existing, lastUser, owner, tokens>>
accountVars == <<rows, booked, now, call>>

-----------------------------------------------------------------------------
(* Types *)

Identities == LoginIds \union SocialIds
Users == 1..MaxUsers
Tokens == Users \X (0..MaxTime)

Kind == {"none", "signup", "login", "social", "refresh", "logout", "update", "delete"}

CallPoint ==
  {"idle", "email", "create", "sign", "store", "update", "profile", "delete", "done"}

(* "conflict" 409, "denied" 401, "missing" 404; "constraint" is the 500 of *)
(* a constraint nobody caught, "error" any other 500, "lost" no answer.    *)
Reply ==
  {"none", "ok", "tokens", "conflict", "denied", "missing", "constraint", "error", "lost"}

CallRecord ==
  [kind: Kind, pc: CallPoint, reply: Reply,
   id: Identities \union {None},      \* who the caller can prove to be
   email: Emails \union {None},
   user: Users \union {None},         \* the account found, or of the access token
   token: Tokens \union {None},       \* the refresh token the body carries
   signed: Tokens \union {None}]      \* the refresh token of the answer

TypeOK ==
  /\ email \in [Users -> Emails \union {None}]
  /\ existing \in SUBSET Users
  /\ lastUser \in 0..MaxUsers
  /\ owner \in [Identities -> Users \union {None}]
  /\ tokens \in SUBSET Tokens
  /\ booked \in SUBSET Users
  /\ now \in 0..MaxTime
  /\ call \in [Calls -> CallRecord]

-----------------------------------------------------------------------------
(* A request on behalf of identity i, with e-mail e, user u and token t. *)
Called(kind, i, e, u, t, pc, reply) ==
  [kind |-> kind, pc |-> pc, reply |-> reply, id |-> i, email |-> e,
   user |-> u, token |-> t, signed |-> None]

NewCall == Called("none", None, None, None, None, "idle", "none")

Init ==
  /\ existing = 1..Len(Registered)
  /\ email \in {f \in [Users -> Emails \union {None}] : \A u \in Users \ existing : f[u] = None}
  /\ lastUser = Len(Registered)
  /\ owner = [i \in Identities |->
       IF \E u \in existing : Registered[u] = i
       THEN CHOOSE u \in existing : Registered[u] = i ELSE None]
  /\ tokens = {}
  /\ booked = {}
  /\ now = 0
  /\ call = [c \in Calls |-> NewCall]

(* The tokens clients hold. *)
Held == {call[c].signed : c \in {d \in Calls : call[d].reply = "tokens"}}

Expired(t) == now >= t[2] + Lifetime

Waits(c, pc) == call[c].pc = pc

Answer(c, reply) == call' = [call EXCEPT ![c].pc = "done", ![c].reply = reply]

GoOn(c, pc) == call' = [call EXCEPT ![c].pc = pc]

Start(c, record) ==
  /\ Waits(c, "idle")
  /\ call' = [call EXCEPT ![c] = record]

-----------------------------------------------------------------------------
(* Signing up and signing in *)

(* signup: the login id must be free. *)
CheckLoginId(c, i, e) ==
  /\ Start(c, IF owner[i] = None
              THEN Called("signup", i, e, None, None, "email", "none")
              ELSE Called("signup", i, e, None, None, "done", "conflict"))
  /\ UNCHANGED <<rows, booked, now>>

(* signup and update: so must the e-mail be, at this moment. *)
CheckEmail(c) ==
  LET holders == {u \in existing : email[u] = call[c].email} IN
  /\ Waits(c, "email")
  /\ \/ /\ \/ holders = {}
           \/ call[c].kind = "update" /\ call[c].user \in holders
        /\ GoOn(c, IF call[c].kind = "signup" THEN "create" ELSE "update")
     \/ /\ \E u \in holders : call[c].kind = "signup" \/ u # call[c].user
        /\ Answer(c, "conflict")
  /\ UNCHANGED <<rows, booked, now>>

(* The row of the new user of call c. *)
InsertUser(c) ==
  /\ lastUser < MaxUsers
  /\ lastUser' = lastUser + 1
  /\ existing' = existing \union {lastUser'}
  /\ email' = [email EXCEPT ![lastUser'] = call[c].email]

(* Variant: the user and its identity are inserted one after the other. *)
CreateUserThenProvider(c) ==
  /\ Waits(c, "create")
  /\ InsertUser(c)
  /\ IF owner[call[c].id] = None
     THEN /\ owner' = [owner EXCEPT ![call[c].id] = lastUser']
          /\ IF call[c].kind = "signup" THEN Answer(c, "ok")
             ELSE call' = [call EXCEPT ![c].pc = "sign", ![c].user = lastUser']
     ELSE /\ Answer(c, "conflict")
          /\ UNCHANGED owner
  /\ UNCHANGED <<tokens, booked, now>>

(* createLocalUser, createSocialUser: user and identity are one            *)
(* transaction.  If the identity exists by now the unique key refuses both *)
(* rows (the id is used up); signup says 409, the callback does not catch. *)
CreateUser(c) ==
  /\ Waits(c, "create")
  /\ \/ /\ owner[call[c].id] = None
        /\ InsertUser(c)
        /\ owner' = [owner EXCEPT ![call[c].id] = lastUser']
        /\ IF call[c].kind = "signup" THEN Answer(c, "ok")
           ELSE call' = [call EXCEPT ![c].pc = "sign", ![c].user = lastUser']
     \/ /\ owner[call[c].id] # None
        /\ lastUser < MaxUsers
        /\ lastUser' = lastUser + 1
        /\ Answer(c, IF call[c].kind = "signup" THEN "conflict" ELSE "constraint")
        /\ UNCHANGED <<email, existing, owner>>
  /\ UNCHANGED <<tokens, booked, now>>

(* Variant: any account that the identifier names. *)
FindAuthUnproved(c, i, e) ==
  LET found == {j \in LoginIds : /\ owner[j] # None
                                 /\ j = i \/ (e # None /\ email[owner[j]] = e)}
  IN
  /\ \/ \E j \in found : Start(c, Called("login", i, e, owner[j], None, "sign", "none"))
     \/ found = {} /\ Start(c, Called("login", i, e, None, None, "done", "denied"))
  /\ UNCHANGED <<rows, booked, now>>

(* login by the own login id i, or by an e-mail e and the password of i.   *)
(* Of several local accounts with that e-mail any may be found first.      *)
FindAuth(c, i, e) ==
  LET found == {j \in LoginIds : /\ owner[j] # None
                                 /\ IF e = None THEN j = i ELSE email[owner[j]] = e}
  IN
  /\ \/ i \in found /\ Start(c, Called("login", i, e, owner[i], None, "sign", "none"))
     \/ found # {i} /\ Start(c, Called("login", i, e, None, None, "done", "denied"))
  /\ UNCHANGED <<rows, booked, now>>

(* Variant: signs tokens also when no account was found. *)
FindProviderUnfound(c, i, e) ==
  /\ Start(c, Called("social", i, e, owner[i], None, "sign", "none"))
  /\ UNCHANGED <<rows, booked, now>>

(* handleCallback, the profile being fetched: log in or sign up. *)
FindProvider(c, i, e) ==
  /\ Start(c, IF owner[i] # None
              THEN Called("social", i, e, owner[i], None, "sign", "none")
              ELSE Called("social", i, e, None, None, "create", "none"))
  /\ UNCHANGED <<rows, booked, now>>

-----------------------------------------------------------------------------
(* Tokens *)

(* issueTokens: signed when the call resumes. *)
SignTokens(c) ==
  /\ Waits(c, "sign")
  /\ call' = [call EXCEPT ![c].pc = "store", ![c].signed = <<call[c].user, now>>]
  /\ UNCHANGED <<rows, booked, now>>

(* saveRefreshToken: the hash is unique and its user must exist.           *)
StoreToken(c) ==
  LET t == call[c].signed IN
  /\ Waits(c, "store")
  /\ \/ /\ t \notin tokens /\ t[1] \in existing
        /\ tokens' = tokens \union {t}
        /\ Answer(c, "tokens")
     \/ /\ t \in tokens \/ t[1] \notin existing
        /\ Answer(c, "constraint")
        /\ UNCHANGED tokens
  /\ UNCHANGED <<email, existing, lastUser, owner, booked, now>>

(* Variant: nobody looks at how many rows were deleted. *)
RefreshUncounted(c, t) ==
  /\ Start(c, IF Expired(t)
              THEN Called("refresh", None, None, t[1], t, "done", "denied")
              ELSE Called("refresh", None, None, t[1], t, "sign", "none"))
  /\ tokens' = tokens \ {t}
  /\ UNCHANGED <<email, existing, lastUser, owner, booked, now>>

(* refresh: the token is deleted, expired or not; who deleted a valid one  *)
(* is given the next.  (A forged token deletes nothing and is denied.)     *)
Refresh(c, t) ==
  /\ Start(c, IF Expired(t) \/ t \notin tokens
              THEN Called("refresh", None, None, t[1], t, "done", "denied")
              ELSE Called("refresh", None, None, t[1], t, "sign", "none"))
  /\ tokens' = tokens \ {t}
  /\ UNCHANGED <<email, existing, lastUser, owner, booked, now>>

Logout(c, t) ==
  /\ Start(c, Called("logout", None, None, t[1], t, "done", "ok"))
  /\ tokens' = tokens \ {t}
  /\ UNCHANGED <<email, existing, lastUser, owner, booked, now>>

-----------------------------------------------------------------------------
(* The own account; the access token outlives it *)

(* updateMyProfile, an e-mail or (e = None) only a picture. *)
FindForUpdate(c, u, e) ==
  /\ u <= lastUser
  /\ Start(c, IF u \notin existing
              THEN Called("update", None, e, u, None, "done", "missing")
              ELSE Called("update", None, e, u, None,
                          IF e \in {None, email[u]} THEN "update" ELSE "email", "none"))
  /\ UNCHANGED <<rows, booked, now>>

UpdateUser(c) ==
  LET u == call[c].user IN
  /\ Waits(c, "update")
  /\ \/ /\ u \in existing
        /\ email' = IF call[c].email = None THEN email ELSE [email EXCEPT ![u] = call[c].email]
        /\ GoOn(c, "profile")
     \/ /\ u \notin existing
        /\ Answer(c, "error")
        /\ UNCHANGED email
  /\ UNCHANGED <<existing, lastUser, owner, tokens, booked, now>>

(* buildProfileResponse: the counts of the answer; if a query fails it is  *)
(* an error (Break), though the account is updated.                        *)
BuildProfile(c) ==
  /\ Waits(c, "profile")
  /\ Answer(c, "ok")
  /\ UNCHANGED <<rows, booked, now>>

FindForDelete(c, u) ==
  /\ u <= lastUser
  /\ Start(c, IF u \in existing
              THEN Called("delete", None, None, u, None, "delete", "none")
              ELSE Called("delete", None, None, u, None, "done", "missing"))
  /\ UNCHANGED <<rows, booked, now>>

(* Rows that vanish with user u, besides the tokens. *)
RemoveUser(u) ==
  /\ existing' = existing \ {u}
  /\ email' = [email EXCEPT ![u] = None]
  /\ owner' = [i \in Identities |-> IF owner[i] = u THEN None ELSE owner[i]]

(* Variant: the tokens are deleted, then the user, in no transaction. *)
DeleteTokensThenUser(c) ==
  LET u == call[c].user IN
  /\ Waits(c, "delete")
  /\ tokens' = {t \in tokens : t[1] # u}
  /\ IF u \in existing /\ u \notin booked
     THEN /\ RemoveUser(u)
          /\ Answer(c, "ok")
     ELSE /\ Answer(c, "constraint")
          /\ UNCHANGED <<existing, email, owner>>
  /\ UNCHANGED <<lastUser, booked, now>>

(* deleteUserWithTokens: the tokens, then the user, in one transaction; a  *)
(* reservation forbids it, identities (and more) are deleted along.  If    *)
(* another call deleted the user first, nothing is found to delete.        *)
DeleteUser(c) ==
  LET u == call[c].user IN
  /\ Waits(c, "delete")
  /\ \/ /\ u \in existing /\ u \notin booked
        /\ tokens' = {t \in tokens : t[1] # u}
        /\ RemoveUser(u)
        /\ Answer(c, "ok")
     \/ /\ u \notin existing \/ u \in booked
        /\ Answer(c, IF u \in existing THEN "constraint" ELSE "error")
        /\ UNCHANGED <<tokens, existing, email, owner>>
  /\ UNCHANGED <<lastUser, booked, now>>

-----------------------------------------------------------------------------
(* The environment *)

(* The statement a call waits for fails, or its server dies. *)
Break(c) ==
  /\ call[c].pc \notin {"idle", "done"}
  /\ \E reply \in {"error", "lost"} : Answer(c, reply)
  /\ UNCHANGED <<rows, booked, now>>

(* A reservation of user u is stored (Reservation.tla); none is deleted. *)
Book(u) ==
  /\ u \in existing \ booked
  /\ booked' = booked \union {u}
  /\ UNCHANGED <<rows, now, call>>

Tick ==
  /\ now < MaxTime
  /\ now' = now + 1
  /\ UNCHANGED <<rows, booked, call>>

Arrival(c) ==
  \/ \E i \in LoginIds, e \in Emails : CheckLoginId(c, i, e)
  \/ \E i \in LoginIds, e \in Emails \union {None} : FindAuth(c, i, e)
  \/ \E i \in SocialIds, e \in Emails \union {None} : FindProvider(c, i, e)
  \/ \E t \in Held : Refresh(c, t) \/ Logout(c, t)
  \/ \E u \in Users, e \in Emails \union {None} : FindForUpdate(c, u, e)
  \/ \E u \in Users : FindForDelete(c, u)

Progress(c) ==
  \/ CheckEmail(c) \/ CreateUser(c) \/ SignTokens(c) \/ StoreToken(c)
  \/ UpdateUser(c) \/ BuildProfile(c) \/ DeleteUser(c) \/ Break(c)

Next ==
  \/ \E c \in Calls : Arrival(c) \/ Progress(c)
  \/ \E u \in Users : Book(u)
  \/ Tick

Spec == Init /\ [][Next]_accountVars

-----------------------------------------------------------------------------
(* Properties *)

(* Rotation: of two refreshes with one token, in whatever order their      *)
(* statements run, at most as many get a new token as the old one was      *)
(* stored, even where signing again in the same second stores it again.    *)
LetThrough(t) ==
  {c \in Calls : call[c].kind = "refresh" /\ call[c].token = t /\ call[c].reply # "denied"}
StoredBy(t) == {c \in Calls : call[c].reply = "tokens" /\ call[c].signed = t}
RotationConsumes ==
  \A t \in Tokens :
    Cardinality(LetThrough(t)) + (IF t \in tokens THEN 1 ELSE 0)
      <= Cardinality(StoredBy(t))

(* No race of sign-ups, callbacks and deletions leaves a user that nobody  *)
(* can sign in as, or an identity of a user that is gone.                  *)
EveryUserCanSignIn == {owner[i] : i \in Identities} \ {None} = existing

(* A stored session ends only by a refresh or logout with its own token,   *)
(* or together with its user: a deletion that is refused signs nobody out. *)
SessionsEndForAReason ==
  [][\A t \in tokens \ tokens' :
       \/ t[1] \notin existing'
       \/ \E c \in Calls : call[c].pc = "idle" /\ call'[c].token = t]_accountVars

(* Whoever gets tokens gets those of the account of the identity it        *)
(* proved, although e-mails are shared and the account may be deleted and  *)
(* its login id taken again between the lookup and the answer; and nobody  *)
(* gets tokens of an account that is gone.                                 *)
SignedInAsOwner ==
  [][\A c \in Calls :
       call[c].reply = "none" /\ call'[c].reply = "tokens" =>
         /\ call'[c].signed[1] \in existing'
         /\ call[c].kind \in {"login", "social"} =>
              owner'[call[c].id] = call'[c].signed[1]
         /\ call[c].kind = "refresh" => call'[c].signed[1] = call[c].token[1]]_accountVars

(* Sessions begin for the owner of an identity and end for a reason.       *)
SessionsHaveReason == SessionsEndForAReason /\ SignedInAsOwner

(* "RefreshToken must be deleted before the user to avoid the violation of *)
(* a foreign key" (user.repository.ts): refuted, the foreign key of        *)
(* reservations is violated all the same and the user cannot leave.        *)
DeletionNotRefused ==
  \A c \in Calls : call[c].kind = "delete" => call[c].reply # "constraint"
=============================================================================
