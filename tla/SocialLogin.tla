----------------------------- MODULE SocialLogin -----------------------------
(***************************************************************************)
(* The way of a social login through the browser (SocialAuthController):   *)
(* the start that leaves a state in a cookie, the page of the provider,    *)
(* the callback that compares the two, and the landing page with the       *)
(* tokens.  Which user the tokens are for is in Account; the two calls of  *)
(* fetchProfile and their timers are in Outbound.                          *)
(*                                                                         *)
(* Answers reach a browser late and in any order, a callback URL may be    *)
(* opened again, or in another browser, as a link is.                      *)
(***************************************************************************)
EXTENDS Naturals

CONSTANTS
  Browsers,
  Logins,      \* logins, each with its state
  Callbacks,   \* callback requests
  NoState      \* no cookie

ASSUME LoginAssumption == NoState \notin Logins /\ NoState \notin Browsers

VARIABLES
  startedIn,   \* startedIn[l]: the browser of login l
  page,        \* page[l]: where login l stands at the provider
  cookie,      \* cookie[b]: STATE_COOKIE
  callback,    \* callback[k]: where callback request k stands
  tokens       \* <<login, browser>>: the tokens of the login are in the browser

loginVars == <<startedIn, page, cookie, callback, tokens>>

-----------------------------------------------------------------------------
(* page: "sent" until the redirect of the start arrives, then "open"; the  *)
(* user agrees and there is a "code", which can be exchanged once.         *)
CallbackRecord ==
  [pc : {"idle", "sent", "exchange", "landing", "ended"},
   state : Logins \union {NoState}, browser : Browsers \union {NoState},
   cookie : Logins \union {NoState}]

LoginTypeOK ==
  /\ startedIn \in [Logins -> Browsers \union {NoState}]
  /\ page \in [Logins -> {"none", "sent", "open", "code", "used"}]
  /\ \A l \in Logins : startedIn[l] = NoState <=> page[l] = "none"
  /\ cookie \in [Browsers -> Logins \union {NoState}]
  /\ callback \in [Callbacks -> CallbackRecord]
  /\ tokens \subseteq Logins \X Browsers

NoCallback ==
  [pc |-> "idle", state |-> NoState, browser |-> NoState, cookie |-> NoState]

LoginInit ==
  /\ startedIn = [l \in Logins |-> NoState]
  /\ page = [l \in Logins |-> "none"]
  /\ cookie = [b \in Browsers |-> NoState]
  /\ callback = [k \in Callbacks |-> NoCallback]
  /\ tokens = {}

-----------------------------------------------------------------------------
PageTo(l, p) == page' = [page EXCEPT ![l] = p]
CallbackTo(k, pc) == callback' = [callback EXCEPT ![k].pc = pc]

(* start: generateState, the cookie and the redirect are on their way. *)
Start(l, b) ==
  /\ page[l] = "none"
  /\ PageTo(l, "sent")
  /\ startedIn' = [startedIn EXCEPT ![l] = b]
  /\ UNCHANGED <<cookie, callback, tokens>>

(* They arrive.  A cookie of another login of the browser is overwritten. *)
Redirected(l) ==
  /\ page[l] = "sent"
  /\ PageTo(l, "open")
  /\ cookie' = [cookie EXCEPT ![startedIn[l]] = l]
  /\ UNCHANGED <<startedIn, callback, tokens>>

(* Five minutes have passed, or the browser forgets its cookies. *)
ExpireState(b) ==
  /\ cookie[b] # NoState
  /\ cookie' = [cookie EXCEPT ![b] = NoState]
  /\ UNCHANGED <<startedIn, page, callback, tokens>>

(* The user agrees at the provider, which issues the code. *)
Agree(l) ==
  /\ page[l] = "open"
  /\ PageTo(l, "code")
  /\ UNCHANGED <<startedIn, cookie, callback, tokens>>

(* The callback URL of login l is opened in browser b. *)
OpenCallback(k, l, b) ==
  /\ callback[k].pc = "idle"
  /\ page[l] \in {"code", "used"}
  /\ callback' = [callback EXCEPT ![k] =
       [pc |-> "sent", state |-> l, browser |-> b, cookie |-> cookie[b]]]
  /\ UNCHANGED <<startedIn, page, cookie, tokens>>

(* Variant: that there is a cookie is enough. *)
CheckAnyState(k) ==
  /\ callback[k].pc = "sent"
  /\ CallbackTo(k, IF callback[k].cookie # NoState THEN "exchange" ELSE "ended")
  /\ UNCHANGED <<startedIn, page, cookie, tokens>>

(* readStateCookie, and the comparison: 400 unless the two are the same.   *)
CheckState(k) ==
  /\ callback[k].pc = "sent"
  /\ CallbackTo(k, IF callback[k].cookie = callback[k].state THEN "exchange" ELSE "ended")
  /\ UNCHANGED <<startedIn, page, cookie, tokens>>

(* handleCallback: the provider takes a code once; 502 for the second call *)
(* and whenever it fails, 500 if the database does.                        *)
Exchange(k, ok) ==
  LET l == callback[k].state IN
  /\ callback[k].pc = "exchange"
  /\ CallbackTo(k, IF ok /\ page[l] = "code" THEN "landing" ELSE "ended")
  /\ IF ok THEN PageTo(l, "used") ELSE UNCHANGED page
  /\ UNCHANGED <<startedIn, cookie, tokens>>

(* The redirect to the landing page arrives: the browser's cookie goes,    *)
(* whichever login it was of, and completeLanding opens the app.           *)
Land(k) ==
  LET b == callback[k].browser IN
  /\ callback[k].pc = "landing"
  /\ CallbackTo(k, "ended")
  /\ cookie' = [cookie EXCEPT ![b] = NoState]
  /\ tokens' = tokens \union {<<callback[k].state, b>>}
  /\ UNCHANGED <<startedIn, page>>

LoginNext ==
  \/ \E l \in Logins, b \in Browsers : Start(l, b)
  \/ \E l \in Logins : Redirected(l) \/ Agree(l)
  \/ \E b \in Browsers : ExpireState(b)
  \/ \E k \in Callbacks :
       \/ \E l \in Logins, b \in Browsers : OpenCallback(k, l, b)
       \/ CheckState(k) \/ \E ok \in BOOLEAN : Exchange(k, ok)
       \/ Land(k)

LoginSpec == LoginInit /\ [][LoginNext]_loginVars

-----------------------------------------------------------------------------
(* The tokens of a login reach only the browser that began it, whatever    *)
(* other logins begin and end meanwhile, there and elsewhere               *)
(* (social-auth.controller.ts:113).                                        *)
LoginStaysInBrowser == \A t \in tokens : startedIn[t[1]] = t[2]

(* A login that landed leaves no state behind: the callback URL, opened    *)
(* again from then on, is refused before the provider is asked (:126).     *)
StateIsUsedOnce == \A t \in tokens : cookie[t[2]] # t[1]

(* A login ends once, in the browser it began in.                          *)
LoginsEndAtHome == LoginStaysInBrowser /\ StateIsUsedOnce
=============================================================================
