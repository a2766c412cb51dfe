---------------------------- MODULE ServiceProofs -----------------------------
(***************************************************************************)
(* Proofs about the ways in and out of the server: logins with other       *)
(* services, calls to them, and how a request of a client finds its        *)
(* handler.                                                                *)
(***************************************************************************)
EXTENDS MCSystem, Outbound, ShopProofs, TLAPS

-----------------------------------------------------------------------------
(***************************************************************************)
(* SocialLogin.  LoginInv follows a state on its way: a cookie, and the    *)
(* copy of it that a callback request carries, hold a login of that very   *)
(* browser (CookiesOfOwn); past the comparison the state of the callback   *)
(* is such a login too (CheckedOfOwn), and the tokens inherit it.  A login *)
(* with tokens has its code used up, so no redirect can bring its state    *)
(* back.                                                                   *)
(***************************************************************************)

AskedAt(l) == page[l] \in {"open", "code", "used"}

CookiesOfOwn ==
  /\ \A b \in Browsers :
       cookie[b] # NoState => startedIn[cookie[b]] = b /\ AskedAt(cookie[b])
  /\ \A k \in Callbacks :
       callback[k].cookie # NoState =>
         /\ startedIn[callback[k].cookie] = callback[k].browser
         /\ AskedAt(callback[k].cookie)

CheckedOfOwn ==
  \A k \in Callbacks :
    /\ callback[k].pc # "idle" =>
         /\ callback[k].state \in Logins /\ callback[k].browser \in Browsers
         /\ AskedAt(callback[k].state)
    /\ callback[k].pc \in {"exchange", "landing"} =>
         startedIn[callback[k].state] = callback[k].browser
    /\ callback[k].pc = "landing" => page[callback[k].state] = "used"

TokensUsedUp == \A t \in tokens : page[t[1]] = "used"

LoginInv ==
  /\ LoginTypeOK
  /\ CookiesOfOwn /\ CheckedOfOwn /\ TokensUsedUp
  /\ LoginStaysInBrowser /\ StateIsUsedOnce

-----------------------------------------------------------------------------
LEMMA LoginStart == LoginInit => LoginInv
  BY LoginAssumption
  DEF LoginInit, NoCallback, LoginInv, LoginTypeOK, CallbackRecord, CookiesOfOwn,
      CheckedOfOwn, TokensUsedUp, LoginStaysInBrowser, StateIsUsedOnce

(* Where a callback request is put, it has the other fields it had. *)
LEMMA CallbackMoves ==
  ASSUME LoginTypeOK, NEW k \in Callbacks,
         NEW pc \in {"exchange", "landing", "ended"}, CallbackTo(k, pc)
  PROVE  /\ callback' \in [Callbacks -> CallbackRecord]
         /\ callback'[k].pc = pc /\ callback'[k].state = callback[k].state
         /\ callback'[k].browser = callback[k].browser
         /\ callback'[k].cookie = callback[k].cookie
         /\ \A j \in Callbacks \ {k} : callback'[j] = callback[j]
<1> DEFINE r == [callback[k] EXCEPT !.pc = pc]
<1>1. callback \in [Callbacks -> CallbackRecord] /\ callback[k] \in CallbackRecord
  BY DEF LoginTypeOK
<1>2. /\ r \in CallbackRecord /\ r.pc = pc /\ r.state = callback[k].state
      /\ r.browser = callback[k].browser /\ r.cookie = callback[k].cookie
  BY <1>1 DEF CallbackRecord
<1>3. callback' = [callback EXCEPT ![k] = r]
  BY <1>1 DEF CallbackTo
<1> HIDE DEF r
<1> QED
  BY <1>1, <1>2, <1>3

LEMMA StartStep ==
  ASSUME LoginInv, NEW l \in Logins, NEW b \in Browsers, Start(l, b) PROVE LoginInv'
<1>1. LoginTypeOK'
  BY LoginAssumption DEF LoginInv, LoginTypeOK, Start, PageTo
<1>2. /\ page[l] = "none" /\ UNCHANGED <<cookie, callback, tokens>>
      /\ \A m \in Logins : m # l => page'[m] = page[m] /\ startedIn'[m] = startedIn[m]
  BY DEF LoginInv, LoginTypeOK, Start, PageTo
<1>3. /\ \A d \in Browsers : cookie[d] # NoState => cookie[d] \in Logins
      /\ \A k \in Callbacks : callback[k].cookie # NoState => callback[k].cookie \in Logins
      /\ \A t \in tokens : t[1] \in Logins
  BY DEF LoginInv, LoginTypeOK, CallbackRecord
<1>4. CookiesOfOwn'
  BY <1>2, <1>3 DEF LoginInv, CookiesOfOwn, AskedAt
<1>5. CheckedOfOwn'
  BY <1>2 DEF LoginInv, CheckedOfOwn, AskedAt
<1>6. TokensUsedUp' /\ LoginStaysInBrowser' /\ StateIsUsedOnce'
  BY <1>2, <1>3 DEF LoginInv, TokensUsedUp, LoginStaysInBrowser, StateIsUsedOnce
<1> QED
  BY <1>1, <1>4, <1>5, <1>6 DEF LoginInv

(* Redirected and Agree: a login goes on, and may be in its browser's      *)
(* cookie then.                                                            *)
LEMMA PageStep ==
  ASSUME LoginInv, NEW l \in Logins, Redirected(l) \/ Agree(l) PROVE LoginInv'
<1>1. startedIn[l] \in Browsers /\ page[l] \in {"sent", "open"}
  BY DEF LoginInv, LoginTypeOK, Redirected, Agree
<1>2. /\ UNCHANGED <<startedIn, callback, tokens>>
      /\ page'[l] \in {"open", "code"} /\ \A m \in Logins : m # l => page'[m] = page[m]
      /\ cookie' = cookie \/ cookie' = [cookie EXCEPT ![startedIn[l]] = l]
      /\ cookie' # cookie => page[l] = "sent"
  BY DEF LoginInv, LoginTypeOK, Redirected, Agree, PageTo
<1>3. LoginTypeOK'
  BY <1>1 DEF LoginInv, LoginTypeOK, Redirected, Agree, PageTo
<1>4. /\ \A d \in Browsers : cookie[d] # NoState => cookie[d] \in Logins
      /\ \A d \in Browsers : cookie'[d] \in {cookie[d], l}
      /\ \A d \in Browsers : cookie'[d] # cookie[d] => d = startedIn[l]
      /\ \A k \in Callbacks : callback[k].cookie # NoState => callback[k].cookie \in Logins
      /\ \A t \in tokens : t[1] \in Logins /\ t[2] \in Browsers
  BY <1>1, <1>2 DEF LoginInv, LoginTypeOK, CallbackRecord
<1>5. \A m \in Logins : AskedAt(m) => page'[m] \in {"open", "code", "used"}
  BY <1>2 DEF AskedAt
<1>6. CookiesOfOwn'
  <2>1. ASSUME NEW d \in Browsers, cookie'[d] # NoState
        PROVE  startedIn[cookie'[d]] = d /\ page'[cookie'[d]] \in {"open", "code", "used"}
    <3>1. CASE cookie'[d] = cookie[d]
      BY <1>4, <1>5, <2>1, <3>1 DEF LoginInv, CookiesOfOwn
    <3>2. CASE cookie'[d] # cookie[d]
      BY <1>2, <1>4, <3>2
    <3> QED
      BY <3>1, <3>2
  <2> QED
    BY <1>2, <1>4, <1>5, <2>1 DEF LoginInv, CookiesOfOwn, AskedAt
<1>7. CheckedOfOwn'
  BY <1>1, <1>2, <1>5 DEF LoginInv, CheckedOfOwn, AskedAt
<1>8. \A t \in tokens : t[1] # l
  BY <1>1 DEF LoginInv, TokensUsedUp
<1>9. TokensUsedUp' /\ LoginStaysInBrowser' /\ StateIsUsedOnce'
  BY <1>2, <1>4, <1>8 DEF LoginInv, TokensUsedUp, LoginStaysInBrowser, StateIsUsedOnce
<1> QED
  BY <1>3, <1>6, <1>7, <1>9 DEF LoginInv

LEMMA ExpireStep == ASSUME LoginInv, NEW b \in Browsers, ExpireState(b) PROVE LoginInv'
<1>1. /\ UNCHANGED <<startedIn, page, callback, tokens>>
      /\ cookie' \in [Browsers -> Logins \union {NoState}]
      /\ \A d \in Browsers : cookie'[d] \in {cookie[d], NoState}
  BY DEF LoginInv, LoginTypeOK, ExpireState
<1>2. \A t \in tokens : t[1] \in Logins /\ t[2] \in Browsers
  BY DEF LoginInv, LoginTypeOK
<1>3. LoginTypeOK' /\ CheckedOfOwn' /\ TokensUsedUp' /\ LoginStaysInBrowser'
  BY <1>1 DEF LoginInv, LoginTypeOK, CheckedOfOwn, AskedAt, TokensUsedUp, LoginStaysInBrowser
<1>4. CookiesOfOwn'
  BY <1>1 DEF LoginInv, CookiesOfOwn, AskedAt
<1>5. StateIsUsedOnce'
  BY <1>1, <1>2, LoginAssumption DEF LoginInv, StateIsUsedOnce
<1> QED
  BY <1>3, <1>4, <1>5 DEF LoginInv

(* The callback carries what the browser it is opened in has. *)
LEMMA OpenStep ==
  ASSUME LoginInv, NEW k \in Callbacks, NEW l \in Logins, NEW b \in Browsers, OpenCallback(k, l, b)
  PROVE  LoginInv'
<1> DEFINE r == [pc |-> "sent", state |-> l, browser |-> b, cookie |-> cookie[b]]
<1>1. /\ UNCHANGED <<startedIn, page, cookie, tokens>> /\ page[l] \in {"code", "used"}
      /\ callback' = [callback EXCEPT ![k] = r]
  BY DEF OpenCallback
<1>2. r \in CallbackRecord
  BY DEF LoginInv, LoginTypeOK, CallbackRecord
<1>3. r.pc = "sent" /\ r.state = l /\ r.browser = b /\ r.cookie = cookie[b]
  OBVIOUS
<1> HIDE DEF r
<1>4. callback'[k] = r /\ \A j \in Callbacks \ {k} : callback'[j] = callback[j]
  BY <1>1 DEF LoginInv, LoginTypeOK
<1>5. LoginTypeOK'
  BY <1>1, <1>2 DEF LoginInv, LoginTypeOK
<1>6. CookiesOfOwn'
  BY <1>1, <1>3, <1>4 DEF LoginInv, CookiesOfOwn, AskedAt
<1>7. CheckedOfOwn'
  BY <1>1, <1>3, <1>4 DEF LoginInv, CheckedOfOwn, AskedAt
<1>8. TokensUsedUp' /\ LoginStaysInBrowser' /\ StateIsUsedOnce'
  BY <1>1 DEF LoginInv, TokensUsedUp, LoginStaysInBrowser, StateIsUsedOnce
<1> QED
  BY <1>5, <1>6, <1>7, <1>8 DEF LoginInv

LEMMA StateChecked == ASSUME LoginInv, NEW k \in Callbacks, CheckState(k) PROVE LoginInv'
<1>1. /\ UNCHANGED <<startedIn, page, cookie, tokens>> /\ callback[k].pc = "sent"
  BY DEF CheckState
<1>2. PICK pc \in {"exchange", "ended"} :
        CallbackTo(k, pc) /\ (pc = "exchange" => callback[k].cookie = callback[k].state)
  BY DEF CheckState
<1>3. /\ callback' \in [Callbacks -> CallbackRecord]
      /\ callback'[k].pc = pc /\ callback'[k].state = callback[k].state
      /\ callback'[k].browser = callback[k].browser
      /\ callback'[k].cookie = callback[k].cookie
      /\ \A j \in Callbacks \ {k} : callback'[j] = callback[j]
  BY <1>2, CallbackMoves DEF LoginInv
<1>4. LoginTypeOK' /\ TokensUsedUp' /\ LoginStaysInBrowser' /\ StateIsUsedOnce'
  BY <1>1, <1>3 DEF LoginInv, LoginTypeOK, TokensUsedUp, LoginStaysInBrowser, StateIsUsedOnce
<1>5. CookiesOfOwn'
  BY <1>1, <1>3 DEF LoginInv, CookiesOfOwn, AskedAt
<1>6. pc = "exchange" => startedIn[callback[k].state] = callback[k].browser
  BY <1>1, <1>2, LoginAssumption DEF LoginInv, CookiesOfOwn, CheckedOfOwn
<1>7. CheckedOfOwn'
  BY <1>1, <1>2, <1>3, <1>6 DEF LoginInv, CheckedOfOwn, AskedAt
<1> QED
  BY <1>4, <1>5, <1>7 DEF LoginInv

LEMMA ExchangeStep ==
  ASSUME LoginInv, NEW k \in Callbacks, NEW ok \in BOOLEAN, Exchange(k, ok) PROVE LoginInv'
<1> DEFINE l == callback[k].state
<1>1. /\ UNCHANGED <<startedIn, cookie, tokens>> /\ callback[k].pc = "exchange"
      /\ l \in Logins /\ AskedAt(l)
  BY DEF Exchange, LoginInv, CheckedOfOwn
<1>2. PICK pc \in {"landing", "ended"} :
        CallbackTo(k, pc) /\ (pc = "landing" => ok)
  BY DEF Exchange
<1>3. /\ callback' \in [Callbacks -> CallbackRecord]
      /\ callback'[k].pc = pc /\ callback'[k].state = l
      /\ callback'[k].browser = callback[k].browser
      /\ callback'[k].cookie = callback[k].cookie
      /\ \A j \in Callbacks \ {k} : callback'[j] = callback[j]
  BY <1>2, CallbackMoves DEF LoginInv
<1>4. /\ page' \in [Logins -> {"none", "sent", "open", "code", "used"}]
      /\ \A m \in Logins : page'[m] \in {page[m], "used"}
      /\ \A m \in Logins : m # l => page'[m] = page[m]
      /\ ok => page'[l] = "used"
  BY <1>1 DEF Exchange, LoginInv, LoginTypeOK, PageTo
<1>5. LoginTypeOK'
  BY <1>1, <1>3, <1>4 DEF LoginInv, LoginTypeOK, AskedAt
<1>6. CookiesOfOwn'
  <2>1. /\ \A d \in Browsers : cookie[d] # NoState => cookie[d] \in Logins
        /\ \A j \in Callbacks : callback[j].cookie # NoState => callback[j].cookie \in Logins
    BY DEF LoginInv, LoginTypeOK, CallbackRecord
  <2> QED
    BY <1>1, <1>3, <1>4, <2>1 DEF LoginInv, CookiesOfOwn, AskedAt
<1>7. CheckedOfOwn'
  BY <1>1, <1>2, <1>3, <1>4 DEF LoginInv, CheckedOfOwn, AskedAt
<1>8. TokensUsedUp' /\ LoginStaysInBrowser' /\ StateIsUsedOnce'
  BY <1>1, <1>4 DEF LoginInv, LoginTypeOK, TokensUsedUp, LoginStaysInBrowser, StateIsUsedOnce
<1> QED
  BY <1>5, <1>6, <1>7, <1>8 DEF LoginInv

LEMMA LandStep == ASSUME LoginInv, NEW k \in Callbacks, Land(k) PROVE LoginInv'
<1> DEFINE l == callback[k].state
           b == callback[k].browser
<1>1. /\ UNCHANGED <<startedIn, page>> /\ callback[k].pc = "landing"
      /\ CallbackTo(k, "ended")
      /\ cookie' = [cookie EXCEPT ![b] = NoState]
      /\ tokens' = tokens \union {<<l, b>>}
  BY DEF Land
<1>2. l \in Logins /\ b \in Browsers /\ startedIn[l] = b /\ page[l] = "used"
  BY <1>1 DEF LoginInv, CheckedOfOwn
<1>3. /\ callback' \in [Callbacks -> CallbackRecord]
      /\ callback'[k].pc = "ended" /\ callback'[k].state = l /\ callback'[k].browser = b
      /\ callback'[k].cookie = callback[k].cookie
      /\ \A j \in Callbacks \ {k} : callback'[j] = callback[j]
  BY <1>1, CallbackMoves DEF LoginInv
<1> HIDE DEF l, b
<1>4. /\ cookie' \in [Browsers -> Logins \union {NoState}] /\ cookie'[b] = NoState
      /\ \A d \in Browsers : cookie'[d] \in {cookie[d], NoState}
  BY <1>1, <1>2 DEF LoginInv, LoginTypeOK
<1>5. LoginTypeOK'
  BY <1>1, <1>2, <1>3, <1>4 DEF LoginInv, LoginTypeOK
<1>6. CookiesOfOwn'
  BY <1>1, <1>3, <1>4 DEF LoginInv, CookiesOfOwn, AskedAt, l, b
<1>7. CheckedOfOwn'
  <2>1. AskedAt(l)
    BY <1>2 DEF AskedAt
  <2> QED
    BY <1>1, <1>2, <1>3, <2>1 DEF LoginInv, CheckedOfOwn, AskedAt
<1>8. TokensUsedUp' /\ LoginStaysInBrowser'
  BY <1>1, <1>2 DEF LoginInv, TokensUsedUp, LoginStaysInBrowser
<1>9. StateIsUsedOnce'
  <2>1. \A t \in tokens : t[1] \in Logins /\ t[2] \in Browsers
    BY DEF LoginInv, LoginTypeOK
  <2> QED
    BY <1>1, <1>2, <1>4, <2>1, LoginAssumption DEF LoginInv, StateIsUsedOnce
<1> QED
  BY <1>5, <1>6, <1>7, <1>8, <1>9 DEF LoginInv

LEMMA LoginMoves == LoginInv /\ [LoginNext]_loginVars => LoginInv'
<1> SUFFICES ASSUME LoginInv, [LoginNext]_loginVars PROVE LoginInv'
  OBVIOUS
<1>1. CASE LoginNext
  BY <1>1, StartStep, PageStep, ExpireStep, OpenStep, StateChecked, ExchangeStep, LandStep
  DEF LoginNext
<1>2. CASE UNCHANGED loginVars
  BY <1>2 DEF loginVars, LoginInv, LoginTypeOK, CookiesOfOwn, CheckedOfOwn, AskedAt,
              TokensUsedUp, LoginStaysInBrowser, StateIsUsedOnce
<1> QED
  BY <1>1, <1>2

-----------------------------------------------------------------------------
(* The tokens of a social login end up in the browser that began it, for   *)
(* any number of logins, stale cookies and callback URLs opened elsewhere. *)
LEMMA TokensStayHome == LoginSpec => []LoginStaysInBrowser
<1>1. LoginInv => LoginStaysInBrowser
  BY DEF LoginInv
<1> QED
  BY <1>1, LoginStart, LoginMoves, PTL DEF LoginSpec

(* Nor does a browser with the tokens of a login keep the state of it,     *)
(* however late the redirects of its other logins arrive.                  *)
LEMMA StateEnds == LoginSpec => []StateIsUsedOnce
<1>1. LoginInv => StateIsUsedOnce
  BY DEF LoginInv
<1> QED
  BY <1>1, LoginStart, LoginMoves, PTL DEF LoginSpec

(* A social login ends once, in its own browser, for any number of them.   *)
THEOREM LoginsAtHome == LoginSpec => []LoginsEndAtHome
  BY TokensStayHome, StateEnds, PTL DEF LoginsEndAtHome

-----------------------------------------------------------------------------
(***************************************************************************)
(* Outbound.  A call's record changes by itself, so the invariant is a set *)
(* of records (SoundCall) that every action stays in; it adds to the two   *)
(* properties what a call in its backoff has left behind and may still do. *)
(***************************************************************************)

OwnTimer(r) ==
  /\ r.pc = "headers" => r.timers = {r.fetch}
  /\ r.pc = "body" => r.timers = IF r.service = "sbiz" THEN {} ELSE {r.fetch}
  /\ r.pc = "ended" /\ r.service # "sms" => r.timers = {}

SoundCall ==
  {r \in CallRecord :
     /\ OwnTimer(r)
     /\ r.fetch <= MaxAttempts(r.service) * Stages(r.service)
     /\ (r.result = "none") <=> (r.pc # "ended")
     /\ r.pc \in {"body", "backoff"} => r.service # "sms"
     /\ r.pc = "backoff" => r.fetch < MaxAttempts(r.service)}

CallsInv == caller \in [Callers -> SoundCall]

-----------------------------------------------------------------------------
LEMMA Bounds ==
  ASSUME NEW service \in Services
  PROVE  /\ MaxAttempts(service) \in 1..3 /\ Stages(service) \in 1..2
         /\ MaxAttempts(service) = 1 \/ Stages(service) = 1
         /\ MaxAttempts(service) * Stages(service) \in 1..3
         /\ MaxAttempts(service) <= MaxAttempts(service) * Stages(service)
         /\ Stages(service) <= MaxAttempts(service) * Stages(service)
  BY DEF Services, MaxAttempts, Stages

(* The next fetch of a call that may make one, with no timer running. *)
LEMMA FetchingSound ==
  ASSUME NEW r \in CallRecord, r.timers = {}, r.result = "none",
         r.fetch < MaxAttempts(r.service) * Stages(r.service)
  PROVE  Fetching(r) \in SoundCall
<1> DEFINE f == r.fetch + 1
           t == r.timers \union {f}
           q == [r EXCEPT !.pc = "headers", !.fetch = f, !.timers = t]
<1>1. MaxAttempts(r.service) * Stages(r.service) \in 1..3 /\ r.fetch \in 0..3
  BY Bounds DEF CallRecord
<1>2. f \in 1..3 /\ f <= MaxAttempts(r.service) * Stages(r.service) /\ t = {f}
  BY <1>1
<1>3. Fetching(r) = q
  BY DEF Fetching
<1> HIDE DEF f, t
<1>4. /\ q \in CallRecord /\ q.pc = "headers" /\ q.fetch = f /\ q.timers = {f}
      /\ q.service = r.service /\ q.result = "none"
  <2>1. t \in SUBSET (1..3) /\ f \in 0..3
    BY <1>2
  <2>2. r \in CallRecord /\ r.result = "none"
    OBVIOUS
  <2>3. /\ q \in CallRecord /\ q.pc = "headers" /\ q.fetch = f /\ q.timers = t
        /\ q.service = r.service /\ q.result = r.result
    BY ONLY <2>1, <2>2 DEF CallRecord
  <2> QED
    BY <1>2, <2>2, <2>3
<1> HIDE DEF q
<1> QED
  BY <1>2, <1>3, <1>4 DEF SoundCall, OwnTimer

LEMMA ClearedSound ==
  ASSUME NEW r \in CallRecord
  PROVE  /\ Cleared(r) \in CallRecord
         /\ Cleared(r).timers = IF r.service = "sms" THEN r.timers ELSE {}
         /\ Cleared(r).service = r.service /\ Cleared(r).pc = r.pc
         /\ Cleared(r).fetch = r.fetch /\ Cleared(r).result = r.result
  BY DEF Cleared, CallRecord

LEMMA EndedSound ==
  ASSUME NEW r \in CallRecord, NEW result \in {"value", "error"},
         r.fetch <= MaxAttempts(r.service) * Stages(r.service)
  PROVE  Ended(r, result) \in SoundCall
<1> DEFINE q == [r EXCEPT !.pc = "ended", !.result = result]
<1>1. /\ q \in CallRecord /\ q.pc = "ended" /\ q.result = result
      /\ q.service = r.service /\ q.fetch = r.fetch
  BY DEF CallRecord
<1>2. Ended(r, result) = Cleared(q)
  BY DEF Ended
<1> HIDE DEF q
<1> QED
  BY <1>1, <1>2, ClearedSound DEF SoundCall, OwnTimer

(* A call whose new record is sound leaves every record sound. *)
LEMMA OneCallerMoves ==
  ASSUME CallsInv, NEW c \in Callers, NEW r \in SoundCall, CallTo(c, r) PROVE CallsInv'
  BY DEF CallsInv, CallTo

LEMMA CallBegins ==
  ASSUME CallsInv, NEW c \in Callers, NEW service \in Services, BeginOutbound(c, service)
  PROVE  CallsInv'
<1> DEFINE r == [NoCallYet EXCEPT !.service = service]
<1>1. /\ r \in CallRecord /\ r.timers = {} /\ r.result = "none" /\ r.fetch = 0
      /\ r.service = service
  BY DEF NoCallYet, CallRecord
<1>2. \/ CallTo(c, Fetching(r))
      \/ CallTo(c, Ended(r, IF service = "sms" THEN "value" ELSE "error"))
  BY DEF BeginOutbound
<1> HIDE DEF r
<1>3. MaxAttempts(service) * Stages(service) \in 1..3
  BY Bounds
<1>4. Fetching(r) \in SoundCall
  BY <1>1, <1>3, FetchingSound
<1>5. Ended(r, IF service = "sms" THEN "value" ELSE "error") \in SoundCall
  BY <1>1, <1>3, EndedSound
<1> QED
  BY <1>2, <1>4, <1>5, OneCallerMoves

LEMMA BodyStep == ASSUME CallsInv, NEW c \in Callers, ReadBody(c) PROVE CallsInv'
<1> DEFINE r == caller[c]
           t == IF r.service = "sbiz" THEN {} ELSE r.timers
           q == [r EXCEPT !.pc = "body", !.timers = t]
<1>1. r \in SoundCall /\ r.pc = "headers" /\ r.service # "sms" /\ CallTo(c, q)
  BY DEF CallsInv, ReadBody
<1> HIDE DEF r
<1>2. t \in SUBSET (1..3) /\ r \in CallRecord
  BY <1>1 DEF SoundCall, CallRecord
<1> HIDE DEF t
<1>3. /\ q \in CallRecord /\ q.pc = "body" /\ q.timers = t /\ q.fetch = r.fetch
      /\ q.service = r.service /\ q.result = r.result
  BY <1>2 DEF CallRecord
<1> HIDE DEF q
<1>4. q \in SoundCall
  BY <1>1, <1>3 DEF SoundCall, OwnTimer, t
<1> QED
  BY <1>1, <1>4, OneCallerMoves

LEMMA RefusedStep ==
  ASSUME CallsInv, NEW c \in Callers, NEW busy \in BOOLEAN, Refused(c, busy) PROVE CallsInv'
<1> DEFINE r == caller[c]
           q == [r EXCEPT !.pc = "backoff"]
<1>1. r \in SoundCall /\ r.pc = "headers"
  BY DEF CallsInv, Refused
<1>2. IF busy /\ r.fetch < MaxAttempts(r.service) THEN CallTo(c, q)
      ELSE CallTo(c, Ended(r, "error"))
  BY DEF Refused
<1> HIDE DEF r
<1>3. r \in CallRecord /\ r.fetch <= MaxAttempts(r.service) * Stages(r.service)
  BY <1>1 DEF SoundCall
<1>4. /\ q \in CallRecord /\ q.pc = "backoff" /\ q.fetch = r.fetch
      /\ q.service = r.service /\ q.result = r.result /\ q.timers = r.timers
  BY <1>3 DEF CallRecord
<1> HIDE DEF q
<1>5. CASE busy /\ r.fetch < MaxAttempts(r.service)
  <2>1. r.service # "sms"
    <3>1. r.fetch \in 1..3
      BY <1>1, <1>3 DEF SoundCall, OwnTimer, CallRecord
    <3> QED
      BY <1>5, <3>1 DEF MaxAttempts
  <2>2. q \in SoundCall
    BY <1>1, <1>4, <1>5, <2>1 DEF SoundCall, OwnTimer
  <2> QED
    BY <1>2, <1>5, <2>2, OneCallerMoves
<1>6. CASE ~(busy /\ r.fetch < MaxAttempts(r.service))
  BY <1>2, <1>3, <1>6, EndedSound, OneCallerMoves
<1> QED
  BY <1>5, <1>6

LEMMA RetryStep == ASSUME CallsInv, NEW c \in Callers, Retry(c) PROVE CallsInv'
<1> DEFINE r == caller[c]
<1>1. r \in SoundCall /\ r.pc = "backoff" /\ CallTo(c, Fetching(Cleared(r)))
  BY DEF CallsInv, Retry
<1> HIDE DEF r
<1>2. /\ r \in CallRecord /\ r.service \in Services /\ r.result = "none"
      /\ r.service # "sms" /\ r.fetch < MaxAttempts(r.service) /\ r.fetch \in 0..3
  BY <1>1 DEF SoundCall, CallRecord
<1>3. r.fetch < MaxAttempts(r.service) * Stages(r.service)
  BY <1>2, Bounds
<1>4. Fetching(Cleared(r)) \in SoundCall
  BY <1>2, <1>3, ClearedSound, FetchingSound
<1> QED
  BY <1>1, <1>4, OneCallerMoves

LEMMA EndBodyStep ==
  ASSUME CallsInv, NEW c \in Callers, NEW valid \in BOOLEAN, EndBody(c, valid) PROVE CallsInv'
<1> DEFINE r == caller[c]
<1>1. /\ r \in SoundCall /\ r.pc = "body"
      /\ CallTo(c, IF ~valid THEN Ended(r, "error")
                   ELSE IF r.fetch < Stages(r.service) THEN Fetching(Cleared(r))
                   ELSE Ended(r, "value"))
  BY DEF CallsInv, EndBody
<1> HIDE DEF r
<1>2. /\ r \in CallRecord /\ r.service \in Services /\ r.result = "none" /\ r.service # "sms"
      /\ r.fetch <= MaxAttempts(r.service) * Stages(r.service) /\ r.fetch \in 0..3
  BY <1>1 DEF SoundCall, CallRecord
<1>3. Ended(r, "error") \in SoundCall /\ Ended(r, "value") \in SoundCall
  BY <1>2, EndedSound
<1>4. r.fetch < Stages(r.service) => Fetching(Cleared(r)) \in SoundCall
  <2> SUFFICES ASSUME r.fetch < Stages(r.service) PROVE Fetching(Cleared(r)) \in SoundCall
    OBVIOUS
  <2>1. r.fetch < MaxAttempts(r.service) * Stages(r.service)
    BY <1>2, Bounds
  <2> QED
    BY <1>2, <2>1, ClearedSound, FetchingSound
<1> QED
  BY <1>1, <1>3, <1>4, OneCallerMoves

LEMMA EndStep == ASSUME CallsInv, NEW c \in Callers, Sent(c) \/ NetworkError(c) PROVE CallsInv'
<1> DEFINE r == caller[c]
<1>1. r \in SoundCall /\ \E result \in {"value", "error"} : CallTo(c, Ended(r, result))
  BY DEF CallsInv, Sent, NetworkError
<1> HIDE DEF r
<1> QED
  BY <1>1, EndedSound, OneCallerMoves DEF SoundCall

(* A timer that fires is the one of the fetch, or one of a text message    *)
(* that is sent, or it fires in the backoff.                               *)
LEMMA TimerStep ==
  ASSUME CallsInv, NEW c \in Callers, NEW k \in 1..3, TimerFires(c, k) PROVE CallsInv'
<1> DEFINE r == caller[c]
           t == r.timers \ {k}
           q == [r EXCEPT !.timers = t]
<1>1. r \in SoundCall /\ k \in r.timers
  BY DEF CallsInv, TimerFires
<1>2. CallTo(c, IF r.pc \in {"headers", "body"} THEN Ended(q, "error") ELSE q)
  BY DEF TimerFires
<1> HIDE DEF r
<1>3. /\ r \in CallRecord /\ t \in SUBSET (1..3)
      /\ r.fetch <= MaxAttempts(r.service) * Stages(r.service)
  BY <1>1 DEF SoundCall, CallRecord
<1>4. r.pc = "ended" => r.service = "sms"
  BY <1>1 DEF SoundCall, OwnTimer
<1> HIDE DEF t
<1>5. /\ q \in CallRecord /\ q.timers = t /\ q.pc = r.pc /\ q.fetch = r.fetch
      /\ q.service = r.service /\ q.result = r.result
  BY <1>3 DEF CallRecord
<1> HIDE DEF q
<1>6. CASE r.pc \in {"headers", "body"}
  BY <1>2, <1>3, <1>5, <1>6, EndedSound, OneCallerMoves
<1>7. CASE r.pc \notin {"headers", "body"}
  <2>1. q \in SoundCall
    BY <1>1, <1>3, <1>4, <1>5, <1>7 DEF SoundCall, OwnTimer
  <2> QED
    BY <1>2, <1>7, <2>1, OneCallerMoves
<1> QED
  BY <1>6, <1>7

LEMMA CallsStart == OutboundInit => CallsInv
<1>1. NoCallYet \in SoundCall
  <2>1. "sms" \in Services /\ MaxAttempts("sms") * Stages("sms") \in 1..3
    BY Bounds DEF Services
  <2> QED
    BY <2>1 DEF NoCallYet, SoundCall, CallRecord, OwnTimer
<1> QED
  BY <1>1 DEF OutboundInit, CallsInv

LEMMA CallsMove == CallsInv /\ [OutboundNext]_outboundVars => CallsInv'
<1> SUFFICES ASSUME CallsInv, [OutboundNext]_outboundVars PROVE CallsInv'
  OBVIOUS
<1>1. CASE OutboundNext
  BY <1>1, CallBegins, BodyStep, RefusedStep, RetryStep, EndBodyStep, EndStep, TimerStep
  DEF OutboundNext
<1>2. CASE UNCHANGED outboundVars
  BY <1>2 DEF outboundVars, CallsInv
<1> QED
  BY <1>1, <1>2

-----------------------------------------------------------------------------
(* A call makes no more fetches than its attempts and stages allow, and    *)
(* has a result exactly when it is over.                                   *)
THEOREM CallsBounded == OutboundSpec => []OutboundTypeOK
<1>1. CallsInv => OutboundTypeOK
  BY DEF CallsInv, SoundCall, OutboundTypeOK
<1> QED
  BY <1>1, CallsStart, CallsMove, PTL DEF OutboundSpec

(* While a call waits, the timer that runs is that of the fetch it waits   *)
(* for, through every retry of the parser and both steps of a login        *)
(* (openai client, kakao and naver clients, finally clearTimeout).         *)
THEOREM TimersOwned == OutboundSpec => []OwnTimerRuns
<1>1. CallsInv => OwnTimerRuns
  BY DEF CallsInv, SoundCall, OwnTimer, OwnTimerRuns
<1> QED
  BY <1>1, CallsStart, CallsMove, PTL DEF OutboundSpec

-----------------------------------------------------------------------------
(***************************************************************************)
(* Http.  Every route that is registered is safe (SoundRoute, TopRoute),   *)
(* and stays so when its router is mounted; HttpInv says what the guards   *)
(* that a request has passed have left behind.                             *)
(***************************************************************************)

(* The segments of the paths of all routes.                                *)
Words ==
  {":", "addresses", "admin", "api", "auth", "bookmark", "callback", "complete", "designs",
   "detail", "device-tokens", "estimate", "health", "image", "kakao", "login", "logout",
   "matches", "me", "naver", "notifications", "read", "read-all", "refresh", "reserve",
   "result", "reviews", "search", "settings", "shops", "signup", "sms", "sync", "time",
   "toggle", "upload", "users", "v1", "wish", "wishlist"}

KeyGuards == {shopSyncAuth, designAdminAuth, smsWebhookAuth}
UserGuards == {User, <<"user", "upload">>}

(* Routes whose guards ask for what their handlers take for granted.       *)
SoundRoute ==
  {r \in [method : {"GET", "POST", "PATCH", "DELETE"}, path : Seq(Words),
          guards : {<<>>} \union UserGuards \union KeyGuards,
          handler : [user : BOOLEAN, checks : BOOLEAN, status : {200, 201, 202, 204, 302}]] :
     /\ r.handler.user => r.guards \in UserGuards
     /\ (\E i \in DOMAIN r.path : r.path[i] = ":") => r.handler.checks}

(* Routes with a literal from W as the i-th segment.                       *)
Segment(i, W) == {r \in SoundRoute : i \in DOMAIN r.path /\ r.path[i] \in W \ {":"}}

(* a matches all that b matches, and more.                                 *)
Shadows(a, b) == a.method = b.method /\ Matches(b.path, a.path) /\ a.path # b.path

Clear(A, B) == \A i \in DOMAIN A, j \in DOMAIN B : ~Shadows(A[i], B[j])
InOrder(A) == \A i, j \in DOMAIN A : i < j => ~Shadows(A[i], A[j])

(* Routers one after the other.                                            *)
LEMMA Joined ==
  ASSUME NEW S, NEW A \in Seq(S), NEW B \in Seq(S), InOrder(A), InOrder(B), Clear(A, B)
  PROVE  A \o B \in Seq(S) /\ InOrder(A \o B)
<1>. SUFFICES ASSUME NEW i \in DOMAIN (A \o B), NEW j \in DOMAIN (A \o B), i < j
              PROVE  ~Shadows((A \o B)[i], (A \o B)[j])
  BY DEF InOrder
<1>. DEFINE m == Len(A)
            n == Len(B)
<1>1. m \in Nat /\ n \in Nat /\ DOMAIN A = 1..m /\ DOMAIN B = 1..n /\ DOMAIN (A \o B) = 1..(m + n)
  OBVIOUS
<1>2. /\ \A k \in 1..m : (A \o B)[k] = A[k]
      /\ \A k \in (m + 1)..(m + n) : (A \o B)[k] = B[k - m]
  OBVIOUS
<1>. HIDE DEF m, n
<1>3. CASE j <= m
  <2>1. (A \o B)[i] = A[i] /\ (A \o B)[j] = A[j] /\ i \in DOMAIN A /\ j \in DOMAIN A
    BY <1>1, <1>2, <1>3
  <2>. QED  BY <2>1 DEF InOrder
<1>4. CASE i <= m /\ m < j
  <2>1. (A \o B)[i] = A[i] /\ (A \o B)[j] = B[j - m] /\ i \in DOMAIN A /\ j - m \in DOMAIN B
    BY <1>1, <1>2, <1>4
  <2>. QED  BY <2>1 DEF Clear
<1>5. CASE m < i
  <2>1. /\ (A \o B)[i] = B[i - m] /\ (A \o B)[j] = B[j - m]
        /\ i - m \in DOMAIN B /\ j - m \in DOMAIN B /\ i - m < j - m
    BY <1>1, <1>2, <1>5
  <2>. QED  BY <2>1 DEF InOrder
<1>. QED  BY <1>1, <1>3, <1>4, <1>5

(* What is clear of two routers is clear of both together.                 *)
LEMMA ClearOfBoth ==
  ASSUME NEW S, NEW A \in Seq(S), NEW B \in Seq(S), NEW C, Clear(A, C), Clear(B, C)
  PROVE  Clear(A \o B, C)
<1>. SUFFICES ASSUME NEW i \in DOMAIN (A \o B), NEW j \in DOMAIN C
              PROVE  ~Shadows((A \o B)[i], C[j])
  BY DEF Clear
<1>1. \/ i \in DOMAIN A /\ (A \o B)[i] = A[i]
      \/ i - Len(A) \in DOMAIN B /\ (A \o B)[i] = B[i - Len(A)]
  OBVIOUS
<1>. QED  BY <1>1 DEF Clear

(* Different literals in one segment keep routers apart.                   *)
LEMMA Apart ==
  ASSUME NEW i, NEW V, NEW W, V \intersect W = {},
         NEW A \in Seq(Segment(i, V)), NEW B \in Seq(Segment(i, W))
  PROVE  Clear(A, B)
<1>. SUFFICES ASSUME NEW j \in DOMAIN A, NEW k \in DOMAIN B, Matches(B[k].path, A[j].path)
              PROVE  FALSE
  BY DEF Clear, Shadows
<1>1. A[j] \in Segment(i, V) /\ B[k] \in Segment(i, W)
  OBVIOUS
<1>. QED  BY <1>1 DEF Segment, Matches

(* A prefix changes neither soundness nor order.                           *)
LEMMA Mounted ==
  ASSUME NEW R \in Seq(SoundRoute), NEW p \in Seq(Words), p # <<>>,
         \A i \in DOMAIN p : p[i] # ":"
  PROVE  /\ Mount(p, R) \in Seq(SoundRoute) /\ DOMAIN Mount(p, R) = DOMAIN R
         /\ \A i \in DOMAIN p : \A W : p[i] \in W => Mount(p, R) \in Seq(Segment(i, W))
         /\ \A i \in DOMAIN R : /\ Mount(p, R)[i].path = p \o R[i].path
                                /\ Mount(p, R)[i].method = R[i].method
                                /\ Mount(p, R)[i].guards = R[i].guards
<1>1. Len(R) \in Nat /\ DOMAIN R = 1..Len(R) /\ DOMAIN Mount(p, R) = 1..Len(R)
  BY DEF Mount
<1>2. ASSUME NEW i \in DOMAIN R
      PROVE  /\ Mount(p, R)[i] \in SoundRoute
             /\ Mount(p, R)[i].path = p \o R[i].path
             /\ Mount(p, R)[i].method = R[i].method
             /\ Mount(p, R)[i].guards = R[i].guards
  <2>. DEFINE r == R[i]
              q == p \o r.path
  <2>1. r \in SoundRoute
    OBVIOUS
  <2>2. Mount(p, R)[i] = [r EXCEPT !.path = q]
    BY DEF Mount
  <2>3. r.path \in Seq(Words) /\ q \in Seq(Words)
    BY <2>1 DEF SoundRoute
  <2>4. (\E k \in DOMAIN q : q[k] = ":") => \E k \in DOMAIN r.path : r.path[k] = ":"
    <3>. SUFFICES ASSUME NEW k \in DOMAIN q, q[k] = ":"
                  PROVE  \E l \in DOMAIN r.path : r.path[l] = ":"
      OBVIOUS
    <3>1. k \in DOMAIN p \/ (k - Len(p) \in DOMAIN r.path /\ q[k] = r.path[k - Len(p)])
      BY <2>3
    <3>2. k \notin DOMAIN p
      BY <2>3
    <3>. QED  BY <3>1, <3>2
  <2>. HIDE DEF q, r
  <2>. DEFINE c == [r EXCEPT !.path = q]
  <2>5. /\ c.path = q /\ c.method = r.method /\ c.guards = r.guards /\ c.handler = r.handler
        /\ c \in [method : {"GET", "POST", "PATCH", "DELETE"}, path : Seq(Words),
                  guards : {<<>>} \union UserGuards \union KeyGuards,
                  handler : [user : BOOLEAN, checks : BOOLEAN, status : {200, 201, 202, 204, 302}]]
    <3>. DEFINE M == {"GET", "POST", "PATCH", "DELETE"}
                P == Seq(Words)
                G == {<<>>} \union UserGuards \union KeyGuards
                H == [user : BOOLEAN, checks : BOOLEAN, status : {200, 201, 202, 204, 302}]
    <3>1. r \in [method : M, path : P, guards : G, handler : H] /\ q \in P
      BY <2>1, <2>3 DEF SoundRoute
    <3>. HIDE DEF M, P, G, H
    <3>2. /\ c.path = q /\ c.method = r.method /\ c.guards = r.guards /\ c.handler = r.handler
          /\ c \in [method : M, path : P, guards : G, handler : H]
      BY ONLY <3>1
    <3>. QED  BY <3>2 DEF M, P, G, H
  <2>. HIDE DEF c
  <2>6. c \in SoundRoute
    BY <2>1, <2>4, <2>5 DEF SoundRoute
  <2>. QED  BY <2>2, <2>5, <2>6 DEF q, r, c
<1>3. Mount(p, R) \in Seq(SoundRoute)
  <2>. DEFINE M == Mount(p, R)
  <2>1. M = [i \in 1..Len(R) |-> M[i]]
    BY <1>1 DEF Mount
  <2>. HIDE DEF M
  <2>. QED  BY <1>1, <1>2, <2>1 DEF M
<1>4. ASSUME NEW i \in DOMAIN p, NEW W, p[i] \in W PROVE Mount(p, R) \in Seq(Segment(i, W))
  <2>. DEFINE M == Mount(p, R)
  <2>1. ASSUME NEW k \in DOMAIN R PROVE M[k] \in Segment(i, W)
    <3>1. M[k] \in SoundRoute /\ M[k].path = p \o R[k].path /\ R[k].path \in Seq(Words)
      BY <1>2 DEF SoundRoute
    <3>2. i \in DOMAIN (p \o R[k].path) /\ (p \o R[k].path)[i] = p[i]
      BY <3>1
    <3>. QED  BY <1>4, <3>1, <3>2 DEF Segment
  <2>. HIDE DEF M
  <2>2. M \in Seq(SoundRoute) /\ DOMAIN M = 1..Len(R)
    BY <1>1, <1>3 DEF M
  <2>. QED  BY <1>1, <2>1, <2>2 DEF M
<1>. QED  BY <1>1, <1>2, <1>3, <1>4

(* Two routers mounted at the same prefix.                                 *)
LEMMA MountedTogether ==
  ASSUME NEW A \in Seq(SoundRoute), NEW B \in Seq(SoundRoute), NEW p \in Seq(Words), p # <<>>,
         \A i \in DOMAIN p : p[i] # ":"
  PROVE  /\ Clear(A, B) => Clear(Mount(p, A), Mount(p, B))
         /\ InOrder(A) => InOrder(Mount(p, A))
<1>1. ASSUME NEW a \in SoundRoute, NEW b \in SoundRoute, NEW c, NEW d,
             c.path = p \o a.path, d.path = p \o b.path, c.method = a.method, d.method = b.method,
             Shadows(c, d)
      PROVE  Shadows(a, b)
  <2>. DEFINE s == a.path
              t == b.path
  <2>1. s \in Seq(Words) /\ t \in Seq(Words)
    BY DEF SoundRoute
  <2>2. a.method = b.method /\ Matches(p \o t, p \o s) /\ s # t
    BY <1>1 DEF Shadows
  <2>. HIDE DEF s, t
  <2>3. Len(p \o t) = Len(p) + Len(t) /\ Len(p \o s) = Len(p) + Len(s)
    BY <2>1
  <2>4. Len(s) = Len(t)
    <3>1. Len(p \o t) = Len(p \o s)
      BY <2>2 DEF Matches
    <3>2. Len(p) \in Nat /\ Len(s) \in Nat /\ Len(t) \in Nat
      BY <2>1
    <3>. QED  BY <2>3, <3>1, <3>2
  <2>5. ASSUME NEW i \in DOMAIN t PROVE s[i] \in {t[i], ":"}
    <3>1. /\ Len(p) + i \in DOMAIN (p \o t)
          /\ (p \o t)[Len(p) + i] = t[i] /\ (p \o s)[Len(p) + i] = s[i]
      BY <2>1, <2>4
    <3>. QED  BY <2>2, <3>1 DEF Matches
  <2>. QED  BY <2>2, <2>4, <2>5 DEF Shadows, Matches, s, t
<1>2. /\ \A i \in DOMAIN A : A[i] \in SoundRoute
      /\ \A i \in DOMAIN B : B[i] \in SoundRoute
  OBVIOUS
<1>3. /\ DOMAIN Mount(p, A) = DOMAIN A /\ DOMAIN Mount(p, B) = DOMAIN B
      /\ \A i \in DOMAIN A : Mount(p, A)[i].path = p \o A[i].path /\ Mount(p, A)[i].method = A[i].method
      /\ \A i \in DOMAIN B : Mount(p, B)[i].path = p \o B[i].path /\ Mount(p, B)[i].method = B[i].method
  BY Mounted
<1>4. Clear(A, B) => Clear(Mount(p, A), Mount(p, B))
  BY <1>1, <1>2, <1>3 DEF Clear
<1>5. InOrder(A) => InOrder(Mount(p, A))
  BY <1>1, <1>2, <1>3, ZenonT(60) DEF InOrder
<1>. QED  BY <1>4, <1>5

-----------------------------------------------------------------------------
(* DesignRouter: guarded as its handlers need, and in order.               *)
LEMMA DesignRoutes ==
  DesignRouter \in Seq(SoundRoute) /\ InOrder(DesignRouter)
<1>1. DesignRouter \in Seq(SoundRoute)
  BY DEF DesignRouter, DesignController, SoundRoute, Words, Route, Does, User,
    UserGuards, KeyGuards
<1>2. InOrder(DesignRouter)
  BY SMTT(30) DEF DesignRouter, DesignController, InOrder, Shadows, Matches, Route, Does
<1>. QED  BY <1>1, <1>2

(* EstimateRequestRouter: guarded as its handlers need, and in order.      *)
LEMMA EstimateRequestRoutes ==
  EstimateRequestRouter \in Seq(SoundRoute) /\ InOrder(EstimateRequestRouter)
<1>1. EstimateRequestRouter \in Seq(SoundRoute)
  BY DEF EstimateRequestRouter, EstimateRequestController, SoundRoute, Words, Route, Does, User,
    UserGuards, KeyGuards
<1>2. InOrder(EstimateRequestRouter)
  BY DEF EstimateRequestRouter, EstimateRequestController, InOrder, Shadows, Matches, Route, Does
<1>. QED  BY <1>1, <1>2

(* EstimateResponseRouter: guarded as its handlers need, and in order.     *)
LEMMA EstimateResponseRoutes ==
  EstimateResponseRouter \in Seq(SoundRoute) /\ InOrder(EstimateResponseRouter)
<1>1. EstimateResponseRouter \in Seq(SoundRoute)
  BY DEF EstimateResponseRouter, EstimateResponseController, SoundRoute, Words, Route, Does, User,
    UserGuards, KeyGuards
<1>2. InOrder(EstimateResponseRouter)
  <2>1. /\ DOMAIN EstimateResponseRouter = 1..4
        /\ EstimateResponseRouter[1].path = <<"result", ":">>
        /\ EstimateResponseRouter[2].path = <<"sms">>
        /\ EstimateResponseRouter[3].path = <<":", "time">>
        /\ EstimateResponseRouter[4].path = <<":", "detail">>
    BY DEF EstimateResponseRouter, EstimateResponseController, Route, Does
  <2>. QED  BY <2>1 DEF InOrder, Shadows, Matches
<1>. QED  BY <1>1, <1>2

(* ReservationRouter: guarded as its handlers need, and in order.          *)
LEMMA ReservationRoutes ==
  ReservationRouter \in Seq(SoundRoute) /\ InOrder(ReservationRouter)
<1>1. ReservationRouter \in Seq(SoundRoute)
  BY DEF ReservationRouter, ReservationController, SoundRoute, Words, Route, Does, User,
    UserGuards, KeyGuards
<1>2. InOrder(ReservationRouter)
  BY DEF ReservationRouter, ReservationController, InOrder, Shadows, Matches, Route, Does
<1>. QED  BY <1>1, <1>2

(* ReviewRouter: guarded as its handlers need, and in order.               *)
LEMMA ReviewRoutes ==
  ReviewRouter \in Seq(SoundRoute) /\ InOrder(ReviewRouter)
<1>1. ReviewRouter \in Seq(SoundRoute)
  BY DEF ReviewRouter, ReviewController, SoundRoute, Words, Route, Does, User,
    UserGuards, KeyGuards
<1>2. InOrder(ReviewRouter)
  BY DEF ReviewRouter, ReviewController, InOrder, Shadows, Matches, Route, Does
<1>. QED  BY <1>1, <1>2

(* ShopMatchingRouter: guarded as its handlers need, and in order.         *)
LEMMA ShopMatchingRoutes ==
  ShopMatchingRouter \in Seq(SoundRoute) /\ InOrder(ShopMatchingRouter)
<1>1. ShopMatchingRouter \in Seq(SoundRoute)
  BY DEF ShopMatchingRouter, ShopMatchingController, SoundRoute, Words, Route, Does, User,
    UserGuards, KeyGuards
<1>2. InOrder(ShopMatchingRouter)
  BY DEF ShopMatchingRouter, ShopMatchingController, InOrder, Shadows, Matches, Route, Does
<1>. QED  BY <1>1, <1>2

(* ShopQueryRouter: guarded as its handlers need, and in order.            *)
LEMMA ShopQueryRoutes ==
  ShopQueryRouter \in Seq(SoundRoute) /\ InOrder(ShopQueryRouter)
<1>1. ShopQueryRouter \in Seq(SoundRoute)
  BY DEF ShopQueryRouter, ShopQueryController, SoundRoute, Words, Route, Does, User,
    UserGuards, KeyGuards
<1>2. InOrder(ShopQueryRouter)
  BY DEF ShopQueryRouter, ShopQueryController, InOrder, Shadows, Matches, Route, Does
<1>. QED  BY <1>1, <1>2

(* BookmarkToggleRouter: guarded as its handlers need, and in order.       *)
LEMMA BookmarkToggleRoutes ==
  BookmarkToggleRouter \in Seq(SoundRoute) /\ InOrder(BookmarkToggleRouter)
<1>1. BookmarkToggleRouter \in Seq(SoundRoute)
  BY DEF BookmarkToggleRouter, ShopQueryController, SoundRoute, Words, Route, Does, User,
    UserGuards, KeyGuards
<1>2. InOrder(BookmarkToggleRouter)
  BY DEF BookmarkToggleRouter, ShopQueryController, InOrder, Shadows, Matches, Route, Does
<1>. QED  BY <1>1, <1>2

(* BookmarkListRouter: guarded as its handlers need, and in order.         *)
LEMMA BookmarkListRoutes ==
  BookmarkListRouter \in Seq(SoundRoute) /\ InOrder(BookmarkListRouter)
<1>1. BookmarkListRouter \in Seq(SoundRoute)
  BY DEF BookmarkListRouter, ShopQueryController, SoundRoute, Words, Route, Does, User,
    UserGuards, KeyGuards
<1>2. InOrder(BookmarkListRouter)
  BY DEF BookmarkListRouter, ShopQueryController, InOrder, Shadows, Matches, Route, Does
<1>. QED  BY <1>1, <1>2

(* ImageRouter: guarded as its handlers need, and in order.                *)
LEMMA ImageRoutes ==
  ImageRouter \in Seq(SoundRoute) /\ InOrder(ImageRouter)
<1>1. ImageRouter \in Seq(SoundRoute)
  BY DEF ImageRouter, ImageController, SoundRoute, Words, Route, Does, User,
    UserGuards, KeyGuards
<1>2. InOrder(ImageRouter)
  BY DEF ImageRouter, ImageController, InOrder, Shadows, Matches, Route, Does
<1>. QED  BY <1>1, <1>2

(* UserAuthRouter: guarded as its handlers need, and in order.             *)
LEMMA UserAuthRoutes ==
  UserAuthRouter \in Seq(SoundRoute) /\ InOrder(UserAuthRouter)
<1>1. UserAuthRouter \in Seq(SoundRoute)
  BY DEF UserAuthRouter, UserAuthController, SoundRoute, Words, Route, Does, User,
    UserGuards, KeyGuards
<1>2. InOrder(UserAuthRouter)
  <2>1. /\ DOMAIN UserAuthRouter = 1..4
        /\ UserAuthRouter[1].path = <<"signup">>
        /\ UserAuthRouter[2].path = <<"login">>
        /\ UserAuthRouter[3].path = <<"auth", "refresh">>
        /\ UserAuthRouter[4].path = <<"auth", "logout">>
    BY DEF UserAuthRouter, UserAuthController, Route, Does
  <2>. QED  BY <2>1 DEF InOrder, Shadows, Matches
<1>. QED  BY <1>1, <1>2

(* UserRouter: guarded as its handlers need, and in order.                 *)
LEMMA UserRoutes ==
  UserRouter \in Seq(SoundRoute) /\ InOrder(UserRouter)
<1>1. UserRouter \in Seq(SoundRoute)
  BY DEF UserRouter, UserController, SoundRoute, Words, Route, Does, User,
    UserGuards, KeyGuards
<1>2. InOrder(UserRouter)
  BY DEF UserRouter, UserController, InOrder, Shadows, Matches, Route, Does
<1>. QED  BY <1>1, <1>2

(* UserAddressRouter: guarded as its handlers need, and in order.          *)
LEMMA UserAddressRoutes ==
  UserAddressRouter \in Seq(SoundRoute) /\ InOrder(UserAddressRouter)
<1>1. UserAddressRouter \in Seq(SoundRoute)
  BY DEF UserAddressRouter, UserAddressController, SoundRoute, Words, Route, Does, User,
    UserGuards, KeyGuards
<1>2. InOrder(UserAddressRouter)
  BY DEF UserAddressRouter, UserAddressController, InOrder, Shadows, Matches, Route, Does
<1>. QED  BY <1>1, <1>2

(* SocialAuthRouter: guarded as its handlers need, and in order.           *)
LEMMA SocialAuthRoutes ==
  SocialAuthRouter \in Seq(SoundRoute) /\ InOrder(SocialAuthRouter)
<1>1. SocialAuthRouter \in Seq(SoundRoute)
  BY DEF SocialAuthRouter, SocialAuthController, SoundRoute, Words, Route, Does, User,
    UserGuards, KeyGuards
<1>2. InOrder(SocialAuthRouter)
  BY DEF SocialAuthRouter, SocialAuthController, InOrder, Shadows, Matches, Route, Does
<1>. QED  BY <1>1, <1>2

(* SocialAuthCallbackRouter: guarded as its handlers need, and in order.   *)
LEMMA SocialAuthCallbackRoutes ==
  SocialAuthCallbackRouter \in Seq(SoundRoute) /\ InOrder(SocialAuthCallbackRouter)
<1>1. SocialAuthCallbackRouter \in Seq(SoundRoute)
  BY DEF SocialAuthCallbackRouter, SocialAuthController, SoundRoute, Words, Route, Does, User,
    UserGuards, KeyGuards
<1>2. InOrder(SocialAuthCallbackRouter)
  BY DEF SocialAuthCallbackRouter, SocialAuthController, InOrder, Shadows, Matches, Route, Does
<1>. QED  BY <1>1, <1>2

(* NotificationSettingRouter: guarded as its handlers need, and in order.  *)
LEMMA NotificationSettingRoutes ==
  NotificationSettingRouter \in Seq(SoundRoute) /\ InOrder(NotificationSettingRouter)
<1>1. NotificationSettingRouter \in Seq(SoundRoute)
  BY DEF NotificationSettingRouter, NotificationSettingController, SoundRoute, Words, Route, Does, User,
    UserGuards, KeyGuards
<1>2. InOrder(NotificationSettingRouter)
  BY DEF NotificationSettingRouter, NotificationSettingController, InOrder, Shadows, Matches, Route, Does
<1>. QED  BY <1>1, <1>2

(* NotificationRouter: guarded as its handlers need, and in order.         *)
LEMMA NotificationRoutes ==
  NotificationRouter \in Seq(SoundRoute) /\ InOrder(NotificationRouter)
<1>1. NotificationRouter \in Seq(SoundRoute)
  BY DEF NotificationRouter, NotificationController, SoundRoute, Words, Route, Does, User,
    UserGuards, KeyGuards
<1>2. InOrder(NotificationRouter)
  BY DEF NotificationRouter, NotificationController, InOrder, Shadows, Matches, Route, Does
<1>. QED  BY <1>1, <1>2

(* DeviceTokenRouter: guarded as its handlers need, and in order.          *)
LEMMA DeviceTokenRoutes ==
  DeviceTokenRouter \in Seq(SoundRoute) /\ InOrder(DeviceTokenRouter)
<1>1. DeviceTokenRouter \in Seq(SoundRoute)
  BY DEF DeviceTokenRouter, DeviceTokenController, SoundRoute, Words, Route, Does, User,
    UserGuards, KeyGuards
<1>2. InOrder(DeviceTokenRouter)
  BY DEF DeviceTokenRouter, DeviceTokenController, InOrder, Shadows, Matches, Route, Does
<1>. QED  BY <1>1, <1>2

(* ShopSyncRouter: guarded as its handlers need, and in order.             *)
LEMMA ShopSyncRoutes ==
  ShopSyncRouter \in Seq(SoundRoute) /\ InOrder(ShopSyncRouter)
<1>1. ShopSyncRouter \in Seq(SoundRoute)
  BY DEF ShopSyncRouter, ShopSyncController, SoundRoute, Words, Route, Does, User,
    UserGuards, KeyGuards
<1>2. InOrder(ShopSyncRouter)
  BY DEF ShopSyncRouter, ShopSyncController, InOrder, Shadows, Matches, Route, Does
<1>. QED  BY <1>1, <1>2

(* ShopAdminRouter: guarded as its handlers need, and in order.            *)
LEMMA ShopAdminRoutes ==
  ShopAdminRouter \in Seq(SoundRoute) /\ InOrder(ShopAdminRouter)
<1>1. ShopAdminRouter \in Seq(SoundRoute)
  BY DEF ShopAdminRouter, ShopAdminController, SoundRoute, Words, Route, Does, User,
    UserGuards, KeyGuards
<1>2. InOrder(ShopAdminRouter)
  BY DEF ShopAdminRouter, ShopAdminController, InOrder, Shadows, Matches, Route, Does
<1>. QED  BY <1>1, <1>2

(* DesignAdminRouter: guarded as its handlers need, and in order.          *)
LEMMA DesignAdminRoutes ==
  DesignAdminRouter \in Seq(SoundRoute) /\ InOrder(DesignAdminRouter)
<1>1. DesignAdminRouter \in Seq(SoundRoute)
  BY DEF DesignAdminRouter, DesignAdminController, SoundRoute, Words, Route, Does, User,
    UserGuards, KeyGuards
<1>2. InOrder(DesignAdminRouter)
  BY DEF DesignAdminRouter, DesignAdminController, InOrder, Shadows, Matches, Route, Does
<1>. QED  BY <1>1, <1>2

-----------------------------------------------------------------------------
(* A router all of whose routes are in T.                                  *)
LEMMA AllOf ==
  ASSUME NEW S, NEW R \in Seq(S), NEW T, \A i \in DOMAIN R : R[i] \in T
  PROVE  R \in Seq(T)
OBVIOUS

(* A sequence over a set is one over a larger set.                         *)
LEMMA AlsoOf ==
  ASSUME NEW S, NEW T, S \subseteq T, NEW R \in Seq(S)
  PROVE  R \in Seq(T)
OBVIOUS

(* Where the elements of two sequences are in their concatenation.         *)
LEMMA LengthsAdd ==
  ASSUME NEW S, NEW s \in Seq(S), NEW t \in Seq(S)
  PROVE  /\ Len(s \o t) = Len(s) + Len(t) /\ Len(s) \in Nat /\ Len(t) \in Nat
         /\ DOMAIN s = 1..Len(s) /\ DOMAIN t = 1..Len(t)
         /\ \A i \in 1..Len(t) : (s \o t)[Len(s) + i] = t[i]
OBVIOUS

(* A router under one segment.                                             *)
LEMMA Prefixed ==
  ASSUME NEW R \in Seq(SoundRoute), InOrder(R), NEW w \in Words \ {":"}
  PROVE  Mount(<<w>>, R) \in Seq(Segment(1, {w})) /\ InOrder(Mount(<<w>>, R))
<1>1. <<w>> \in Seq(Words) /\ <<w>> # <<>> /\ DOMAIN <<w>> = {1} /\ <<w>>[1] = w
  OBVIOUS
<1>. QED  BY <1>1, Mounted, MountedTogether

(* The segments behind a prefix.                                           *)
LEMMA Behind ==
  ASSUME NEW i \in Nat \ {0}, NEW W, NEW R \in Seq(Segment(i, W)), NEW p \in Seq(Words), p # <<>>,
         \A j \in DOMAIN p : p[j] # ":"
  PROVE  Mount(p, R) \in Seq(Segment(Len(p) + i, W))
<1>. DEFINE M == Mount(p, R)
<1>1. R \in Seq(SoundRoute) /\ DOMAIN R = 1..Len(R) /\ Len(R) \in Nat
  BY DEF Segment
<1>2. /\ M \in Seq(SoundRoute) /\ DOMAIN M = DOMAIN R
      /\ \A k \in DOMAIN R : M[k].path = p \o R[k].path
  BY <1>1, Mounted
<1>. HIDE DEF M
<1>3. ASSUME NEW k \in DOMAIN R PROVE M[k] \in Segment(Len(p) + i, W)
  <2>1. R[k] \in SoundRoute /\ i \in DOMAIN R[k].path /\ R[k].path[i] \in W \ {":"}
    BY DEF Segment
  <2>2. R[k].path \in Seq(Words)
    BY <2>1 DEF SoundRoute
  <2>3. Len(p) + i \in DOMAIN (p \o R[k].path) /\ (p \o R[k].path)[Len(p) + i] = R[k].path[i]
    BY <2>1, <2>2
  <2>4. M[k] \in SoundRoute
    BY <1>2
  <2>. QED  BY <1>2, <2>1, <2>3, <2>4 DEF Segment
<1>4. M \in Seq(Segment(Len(p) + i, W))
  BY <1>1, <1>2, <1>3
<1>. QED  BY <1>4 DEF M

(* A router under a segment of its own.                                    *)
LEMMA OneMore ==
  ASSUME NEW V, NEW w, w \notin V,
         NEW A \in Seq(Segment(1, V)), NEW B \in Seq(Segment(1, {w})), InOrder(A), InOrder(B)
  PROVE  A \o B \in Seq(Segment(1, V \union {w})) /\ InOrder(A \o B)
<1>. DEFINE W == {w}
<1>0. V \intersect W = {}
  OBVIOUS
<1>1. Clear(A, B)
  BY <1>0, Apart
<1>2. A \in Seq(Segment(1, V \union W)) /\ B \in Seq(Segment(1, V \union W))
  BY DEF Segment
<1>. QED  BY <1>1, <1>2, Joined

(* Two that share a segment.                                               *)
LEMMA TwoMore ==
  ASSUME NEW V, NEW w, w \notin V, NEW A \in Seq(Segment(1, V)),
         NEW B \in Seq(Segment(1, {w})), NEW C \in Seq(Segment(1, {w})),
         InOrder(A), InOrder(B), InOrder(C), Clear(B, C)
  PROVE  A \o B \o C \in Seq(Segment(1, V \union {w})) /\ InOrder(A \o B \o C)
<1>1. A \o B \in Seq(Segment(1, V \union {w})) /\ InOrder(A \o B)
  BY OneMore
<1>2. /\ A \in Seq(Segment(1, V \union {w})) /\ B \in Seq(Segment(1, V \union {w}))
      /\ C \in Seq(Segment(1, V \union {w}))
  BY DEF Segment
<1>3. Clear(A, C)
  <2>1. V \intersect {w} = {}
    OBVIOUS
  <2>. QED  BY <2>1, Apart
<1>4. Clear(A \o B, C)
  BY <1>2, <1>3, ClearOfBoth
<1>. QED  BY <1>1, <1>2, <1>4, Joined

(* Routers of one prefix that are registered one after the other.          *)
LEMMA Neighbours ==
  /\ Clear(EstimateRequestRouter, EstimateResponseRouter)
  /\ Clear(ShopMatchingRouter, ShopQueryRouter)
  /\ Clear(NotificationSettingRouter, NotificationRouter)
  /\ Clear(ShopSyncRouter, ShopAdminRouter)
<1>1. Clear(EstimateRequestRouter, EstimateResponseRouter)
  BY DEF EstimateRequestRouter, EstimateRequestController, EstimateResponseRouter,
    EstimateResponseController, Clear, Shadows, Matches, Route, Does
<1>2. Clear(ShopMatchingRouter, ShopQueryRouter)
  BY DEF ShopMatchingRouter, ShopMatchingController, ShopQueryRouter,
    ShopQueryController, Clear, Shadows, Matches, Route, Does
<1>3. Clear(NotificationSettingRouter, NotificationRouter)
  BY DEF NotificationSettingRouter, NotificationSettingController, NotificationRouter,
    NotificationController, Clear, Shadows, Matches, Route, Does
<1>4. Clear(ShopSyncRouter, ShopAdminRouter)
  BY DEF ShopSyncRouter, ShopSyncController, ShopAdminRouter, ShopAdminController,
    shopSyncAuth, Clear, Shadows, Matches, Route, Does
<1>. QED  BY <1>1, <1>2, <1>3, <1>4

(* Those of a user.                                                        *)
LEMMA UsersApart ==
  LET a == Mount(<<"users">>, UserAuthRouter)
      b == Mount(<<"users", "me", "addresses">>, UserAddressRouter)
      c == Mount(<<"users">>, UserRouter)
      d == Mount(<<"users", "me", "bookmark">>, BookmarkListRouter)
  IN /\ a \in Seq(Segment(1, {"users"})) /\ InOrder(a)
     /\ b \in Seq(Segment(1, {"users"})) /\ InOrder(b)
     /\ c \in Seq(Segment(1, {"users"})) /\ InOrder(c)
     /\ d \in Seq(Segment(1, {"users"})) /\ InOrder(d)
     /\ Clear(a, b) /\ Clear(a, c) /\ Clear(a, d) /\ Clear(b, c) /\ Clear(b, d) /\ Clear(c, d)
<1>. DEFINE p == <<"users">>
            q == <<"users", "me", "addresses">>
            r == <<"users", "me", "bookmark">>
            a == Mount(p, UserAuthRouter)
            b == Mount(q, UserAddressRouter)
            c == Mount(p, UserRouter)
            d == Mount(r, BookmarkListRouter)
<1>1. /\ p \in Seq(Words) /\ p # <<>> /\ \A i \in DOMAIN p : p[i] # ":"
      /\ 1 \in DOMAIN p /\ p[1] = "users" /\ Len(p) = 1
  BY DEF Words
<1>2. /\ q \in Seq(Words) /\ q # <<>> /\ \A i \in DOMAIN q : q[i] # ":"
      /\ 1 \in DOMAIN q /\ q[1] = "users" /\ 2 \in DOMAIN q /\ q[2] = "me"
      /\ 3 \in DOMAIN q /\ q[3] = "addresses"
  BY DEF Words
<1>3. /\ r \in Seq(Words) /\ r # <<>> /\ \A i \in DOMAIN r : r[i] # ":"
      /\ 1 \in DOMAIN r /\ r[1] = "users" /\ 2 \in DOMAIN r /\ r[2] = "me"
      /\ 3 \in DOMAIN r /\ r[3] = "bookmark"
  BY DEF Words
<1>4. UserAuthRouter \in Seq(Segment(1, {"signup", "login", "auth"}))
  <2>1. /\ DOMAIN UserAuthRouter = 1..4
        /\ UserAuthRouter[1].path = <<"signup">>
        /\ UserAuthRouter[2].path = <<"login">>
        /\ UserAuthRouter[3].path = <<"auth", "refresh">>
        /\ UserAuthRouter[4].path = <<"auth", "logout">>
    BY DEF UserAuthRouter, UserAuthController, Route, Does
  <2>2. ASSUME NEW i \in 1..4
        PROVE  /\ 1 \in DOMAIN UserAuthRouter[i].path
               /\ UserAuthRouter[i].path[1] \in {"signup", "login", "auth"} \ {":"}
    BY <2>1
  <2>3. \A i \in DOMAIN UserAuthRouter : UserAuthRouter[i] \in Segment(1, {"signup", "login", "auth"})
    BY <2>1, <2>2, UserAuthRoutes DEF Segment
  <2>. QED  BY <2>3, UserAuthRoutes, AllOf
<1>5. UserRouter \in Seq(Segment(1, {"me"})) /\ \A i \in DOMAIN UserRouter : Len(UserRouter[i].path) = 1
  <2>1. /\ DOMAIN UserRouter = 1..3
        /\ \A i \in 1..3 : UserRouter[i].path = <<"me">>
    BY DEF UserRouter, UserController, Route, Does
  <2>2. ASSUME NEW i \in 1..3
        PROVE  /\ 1 \in DOMAIN UserRouter[i].path /\ UserRouter[i].path[1] \in {"me"} \ {":"}
               /\ Len(UserRouter[i].path) = 1
    BY <2>1
  <2>3. \A i \in DOMAIN UserRouter : UserRouter[i] \in Segment(1, {"me"})
    BY <2>1, <2>2, UserRoutes DEF Segment
  <2>4. UserRouter \in Seq(Segment(1, {"me"}))
    BY <2>3, UserRoutes, AllOf
  <2>. QED  BY <2>1, <2>2, <2>4
<1>. HIDE DEF p, q, r
<1>6. /\ a \in Seq(Segment(1, {"users"})) /\ InOrder(a)
      /\ c \in Seq(Segment(1, {"users"})) /\ InOrder(c)
  BY <1>1, UserAuthRoutes, UserRoutes, Mounted, MountedTogether
<1>7. /\ b \in Seq(Segment(1, {"users"})) /\ InOrder(b)
      /\ b \in Seq(Segment(2, {"me"})) /\ b \in Seq(Segment(3, {"addresses"}))
  BY <1>2, UserAddressRoutes, Mounted, MountedTogether
<1>8. /\ d \in Seq(Segment(1, {"users"})) /\ InOrder(d)
      /\ d \in Seq(Segment(2, {"me"})) /\ d \in Seq(Segment(3, {"bookmark"}))
  BY <1>3, BookmarkListRoutes, Mounted, MountedTogether
<1>9. a \in Seq(Segment(2, {"signup", "login", "auth"})) /\ c \in Seq(Segment(2, {"me"}))
  <2>1. 1 \in Nat \ {0} /\ Len(p) + 1 = 2
    BY <1>1
  <2>2. a \in Seq(Segment(Len(p) + 1, {"signup", "login", "auth"}))
    BY <1>1, <1>4, <2>1, Behind
  <2>3. c \in Seq(Segment(Len(p) + 1, {"me"}))
    BY <1>1, <1>5, <2>1, Behind
  <2>. QED  BY <2>1, <2>2, <2>3
<1>10. \A i \in DOMAIN c : Len(c[i].path) = 2
  <2>1. DOMAIN c = DOMAIN UserRouter /\ \A i \in DOMAIN UserRouter : c[i].path = p \o UserRouter[i].path
    BY <1>1, UserRoutes, Mounted
  <2>2. \A i \in DOMAIN UserRouter : UserRouter[i].path \in Seq(Words)
    BY UserRoutes DEF SoundRoute
  <2>. HIDE DEF c
  <2>3. ASSUME NEW i \in DOMAIN UserRouter PROVE Len(p \o UserRouter[i].path) = 2
    <3>. DEFINE t == UserRouter[i].path
    <3>1. t \in Seq(Words) /\ Len(t) = 1
      BY <1>5, <2>2
    <3>. HIDE DEF t
    <3>2. p \in Seq(Words) /\ Len(p) = 1
      BY <1>1
    <3>3. Len(p \o t) = Len(p) + Len(t)
      BY <3>1, <3>2, LengthsAdd
    <3>. QED  BY <3>1, <3>2, <3>3 DEF t
  <2>. QED  BY <2>1, <2>3
<1>. HIDE DEF a, b, c, d
<1>11. Clear(a, b) /\ Clear(a, c) /\ Clear(a, d) /\ Clear(b, d)
  BY <1>7, <1>8, <1>9, Apart, SMTT(30)
<1>12. ASSUME NEW W, NEW A \in Seq(Segment(3, W)) PROVE Clear(A, c) /\ Clear(c, A)
  <2>1. \A i \in DOMAIN A : Len(A[i].path) # 2
    <3>1. \A i \in DOMAIN A : A[i].path \in Seq(Words) /\ 3 \in DOMAIN A[i].path
      BY DEF Segment, SoundRoute
    <3>. QED  BY <3>1, SMTT(30)
  <2>. QED  BY <1>10, <2>1 DEF Clear, Shadows, Matches
<1>13. Clear(b, c) /\ Clear(c, d)
  BY <1>7, <1>8, <1>12
<1>. QED  BY <1>6, <1>7, <1>8, <1>11, <1>13 DEF a, b, c, d, p, q, r

(* The order of the user API.                                              *)
LEMMA V1InOrder == V1Router \in Seq(SoundRoute) /\ InOrder(V1Router)
<1>. DEFINE m1 == Mount(<<"designs">>, DesignRouter)
            m2 == Mount(<<"estimate">>, EstimateRequestRouter)
            m3 == Mount(<<"estimate">>, EstimateResponseRouter)
            m4 == Mount(<<"reserve">>, ReservationRouter)
            m5 == Mount(<<"reviews">>, ReviewRouter)
            m6 == Mount(<<"shops">>, ShopMatchingRouter)
            m7 == Mount(<<"shops">>, ShopQueryRouter)
            m8 == Mount(<<"bookmark">>, BookmarkToggleRouter)
            m9 == Mount(<<"image">>, ImageRouter)
            ua == Mount(<<"users">>, UserAuthRouter)
            ub == Mount(<<"users", "me", "addresses">>, UserAddressRouter)
            uc == Mount(<<"users">>, UserRouter)
            ud == Mount(<<"users", "me", "bookmark">>, BookmarkListRouter)
            n1 == Mount(<<"auth">>, SocialAuthRouter)
            n2 == Mount(<<"notifications">>, NotificationSettingRouter)
            n3 == Mount(<<"notifications">>, NotificationRouter)
            n4 == Mount(<<"device-tokens">>, DeviceTokenRouter)
            S(W) == Segment(1, W)
<1>1. /\ m1 \in Seq(S({"designs"})) /\ InOrder(m1)
      /\ m2 \in Seq(S({"estimate"})) /\ InOrder(m2)
      /\ m3 \in Seq(S({"estimate"})) /\ InOrder(m3)
      /\ m4 \in Seq(S({"reserve"})) /\ InOrder(m4)
      /\ m5 \in Seq(S({"reviews"})) /\ InOrder(m5)
  <2>1. {"designs", "estimate", "reserve", "reviews"} \subseteq Words \ {":"}
    BY DEF Words
  <2>. QED  BY <2>1, Prefixed, DesignRoutes, EstimateRequestRoutes, EstimateResponseRoutes,
    ReservationRoutes, ReviewRoutes
<1>2. /\ m6 \in Seq(S({"shops"})) /\ InOrder(m6)
      /\ m7 \in Seq(S({"shops"})) /\ InOrder(m7)
      /\ m8 \in Seq(S({"bookmark"})) /\ InOrder(m8)
      /\ m9 \in Seq(S({"image"})) /\ InOrder(m9)
  <2>1. {"shops", "bookmark", "image"} \subseteq Words \ {":"}
    BY DEF Words
  <2>. QED  BY <2>1, Prefixed, ShopMatchingRoutes, ShopQueryRoutes, BookmarkToggleRoutes, ImageRoutes
<1>3. /\ n1 \in Seq(S({"auth"})) /\ InOrder(n1)
      /\ n2 \in Seq(S({"notifications"})) /\ InOrder(n2)
      /\ n3 \in Seq(S({"notifications"})) /\ InOrder(n3)
      /\ n4 \in Seq(S({"device-tokens"})) /\ InOrder(n4)
  <2>1. {"auth", "notifications", "device-tokens"} \subseteq Words \ {":"}
    BY DEF Words
  <2>. QED  BY <2>1, Prefixed, SocialAuthRoutes, NotificationSettingRoutes, NotificationRoutes,
    DeviceTokenRoutes
<1>4. /\ ua \in Seq(S({"users"})) /\ InOrder(ua) /\ ub \in Seq(S({"users"})) /\ InOrder(ub)
      /\ uc \in Seq(S({"users"})) /\ InOrder(uc) /\ ud \in Seq(S({"users"})) /\ InOrder(ud)
      /\ Clear(ua, ub) /\ Clear(ua, uc) /\ Clear(ua, ud) /\ Clear(ub, uc) /\ Clear(ub, ud)
      /\ Clear(uc, ud)
  BY UsersApart
<1>5. Clear(m2, m3) /\ Clear(m6, m7) /\ Clear(n2, n3)
  <2>1. ASSUME NEW w \in {"estimate", "shops", "notifications"}
        PROVE  <<w>> \in Seq(Words) /\ <<w>> # <<>> /\ \A i \in DOMAIN <<w>> : <<w>>[i] # ":"
    BY DEF Words
  <2>2. Clear(m2, m3)
    BY <2>1, Neighbours, MountedTogether, EstimateRequestRoutes, EstimateResponseRoutes
  <2>3. Clear(m6, m7)
    BY <2>1, Neighbours, MountedTogether, ShopMatchingRoutes, ShopQueryRoutes
  <2>4. Clear(n2, n3)
    BY <2>1, Neighbours, MountedTogether, NotificationSettingRoutes, NotificationRoutes
  <2>. QED  BY <2>2, <2>3, <2>4
<1>6. V1Router = m1 \o m2 \o m3 \o m4 \o m5 \o m6 \o m7 \o m8 \o m9
                  \o ua \o ub \o uc \o ud \o n1 \o n2 \o n3 \o n4
  BY DEF V1Router
<1>. HIDE DEF m1, m2, m3, m4, m5, m6, m7, m8, m9, ua, ub, uc, ud, n1, n2, n3, n4
<1>. DEFINE V0 == {"designs"}
            V1 == V0 \union {"estimate"}
            V2 == V1 \union {"reserve"}
            V3 == V2 \union {"reviews"}
            V4 == V3 \union {"shops"}
            V5 == V4 \union {"bookmark"}
            V6 == V5 \union {"image"}
            V7 == V6 \union {"users"}
            V8 == V7 \union {"auth"}
            V9 == V8 \union {"notifications"}
<1>7. /\ "estimate" \notin V0 /\ "reserve" \notin V1 /\ "reviews" \notin V2 /\ "shops" \notin V3
      /\ "bookmark" \notin V4 /\ "image" \notin V5 /\ "users" \notin V6 /\ "auth" \notin V7
      /\ "notifications" \notin V8 /\ "device-tokens" \notin V9
  OBVIOUS
<1>. HIDE DEF V0
<1>8. m1 \o m2 \o m3 \in Seq(S(V1)) /\ InOrder(m1 \o m2 \o m3)
  BY <1>1, <1>5, <1>7, TwoMore DEF V0
<1>. DEFINE a1 == m1 \o m2 \o m3
<1>. HIDE DEF V1, a1
<1>9. a1 \o m4 \in Seq(S(V2)) /\ InOrder(a1 \o m4)
  BY <1>1, <1>7, <1>8, OneMore DEF a1
<1>. DEFINE a2 == a1 \o m4
<1>. HIDE DEF V2, a2
<1>10. a2 \o m5 \in Seq(S(V3)) /\ InOrder(a2 \o m5)
  BY <1>1, <1>7, <1>9, OneMore DEF a2
<1>. DEFINE a3 == a2 \o m5
<1>. HIDE DEF V3, a3
<1>11. a3 \o m6 \o m7 \in Seq(S(V4)) /\ InOrder(a3 \o m6 \o m7)
  BY <1>2, <1>5, <1>7, <1>10, TwoMore DEF a3
<1>. DEFINE a4 == a3 \o m6 \o m7
<1>. HIDE DEF V4, a4
<1>12. a4 \o m8 \in Seq(S(V5)) /\ InOrder(a4 \o m8)
  BY <1>2, <1>7, <1>11, OneMore DEF a4
<1>. DEFINE a5 == a4 \o m8
<1>. HIDE DEF V5, a5
<1>13. a5 \o m9 \in Seq(S(V6)) /\ InOrder(a5 \o m9)
  BY <1>2, <1>7, <1>12, OneMore DEF a5
<1>. DEFINE a6 == a5 \o m9
<1>. HIDE DEF a6
<1>14. a6 \o ua \o ub \o uc \o ud \in Seq(S(V7)) /\ InOrder(a6 \o ua \o ub \o uc \o ud)
  <2>1. /\ a6 \in Seq(S(V7)) /\ ua \in Seq(S(V7)) /\ ub \in Seq(S(V7))
        /\ uc \in Seq(S(V7)) /\ ud \in Seq(S(V7))
    <3>. HIDE DEF V6
    <3>1. S(V6) \subseteq S(V7) /\ S({"users"}) \subseteq S(V7)
      BY DEF Segment
    <3>2. a6 \in Seq(S(V6))
      BY <1>13 DEF a6
    <3>. HIDE DEF S, V7
    <3>. QED  BY <1>4, <3>1, <3>2, AlsoOf
  <2>2. V6 \intersect {"users"} = {}
    BY <1>7
  <2>. HIDE DEF V6, V7
  <2>3. Clear(a6, ua) /\ Clear(a6, ub) /\ Clear(a6, uc) /\ Clear(a6, ud) /\ InOrder(a6)
    BY <1>4, <1>13, <2>2, Apart DEF a6
  <2>4. a6 \o ua \in Seq(S(V7)) /\ InOrder(a6 \o ua)
    BY <1>4, <2>1, <2>3, Joined
  <2>5. Clear(a6 \o ua, ub) /\ Clear(a6 \o ua, uc) /\ Clear(a6 \o ua, ud)
    BY <1>4, <2>1, <2>3, ClearOfBoth
  <2>6. a6 \o ua \o ub \in Seq(S(V7)) /\ InOrder(a6 \o ua \o ub)
    BY <1>4, <2>1, <2>4, <2>5, Joined
  <2>7. Clear(a6 \o ua \o ub, uc) /\ Clear(a6 \o ua \o ub, ud)
    BY <1>4, <2>1, <2>4, <2>5, ClearOfBoth
  <2>8. a6 \o ua \o ub \o uc \in Seq(S(V7)) /\ InOrder(a6 \o ua \o ub \o uc)
    BY <1>4, <2>1, <2>6, <2>7, Joined
  <2>9. Clear(a6 \o ua \o ub \o uc, ud)
    BY <1>4, <2>1, <2>6, <2>7, ClearOfBoth
  <2>. QED  BY <1>4, <2>1, <2>8, <2>9, Joined
<1>. DEFINE a7 == a6 \o ua \o ub \o uc \o ud
<1>. HIDE DEF V7, a7
<1>15. a7 \o n1 \in Seq(S(V8)) /\ InOrder(a7 \o n1)
  BY <1>3, <1>7, <1>14, OneMore DEF a7
<1>. DEFINE a8 == a7 \o n1
<1>. HIDE DEF V8, a8
<1>16. a8 \o n2 \o n3 \in Seq(S(V9)) /\ InOrder(a8 \o n2 \o n3)
  BY <1>3, <1>5, <1>7, <1>15, TwoMore DEF a8
<1>. DEFINE a9 == a8 \o n2 \o n3
<1>. HIDE DEF V9, a9
<1>17. a9 \o n4 \in Seq(S(V9 \union {"device-tokens"})) /\ InOrder(a9 \o n4)
  BY <1>3, <1>7, <1>16, OneMore DEF a9
<1>18. V1Router = a9 \o n4
  BY <1>6 DEF a1, a2, a3, a4, a5, a6, a7, a8, a9
<1>19. a9 \o n4 \in Seq(SoundRoute)
  <2>1. S(V9 \union {"device-tokens"}) \subseteq SoundRoute
    BY DEF Segment
  <2>. HIDE DEF S
  <2>. QED  BY <1>17, <2>1, AlsoOf
<1>. QED  BY <1>17, <1>18, <1>19

(* Everything for the administrators asks for a key.                       *)
KeyedRoute == {r \in SoundRoute : r.guards \in KeyGuards}

(* A router all of whose routes ask for a key.                             *)
LEMMA Keyed ==
  ASSUME NEW R \in Seq(SoundRoute), \A i \in DOMAIN R : R[i].guards \in KeyGuards
  PROVE  R \in Seq(KeyedRoute)
<1>1. \A i \in DOMAIN R : R[i] \in KeyedRoute
  BY DEF KeyedRoute
<1>. QED  BY <1>1, AllOf

(* The administrators' API: each route asks for a key, none hides a later  *)
(* one (admin/v1.router.ts).                                               *)
LEMMA AdminRoutes == AdminV1Router \in Seq(KeyedRoute) /\ InOrder(AdminV1Router)
<1>. DEFINE m1 == Mount(<<"shops">>, ShopSyncRouter)
            m2 == Mount(<<"shops">>, ShopAdminRouter)
            m3 == Mount(<<"designs">>, DesignAdminRouter)
<1>1. /\ ShopSyncRouter \in Seq(KeyedRoute) /\ ShopAdminRouter \in Seq(KeyedRoute)
      /\ DesignAdminRouter \in Seq(KeyedRoute)
  <2>1. /\ \A i \in DOMAIN ShopSyncRouter : ShopSyncRouter[i].guards = shopSyncAuth
        /\ \A i \in DOMAIN ShopAdminRouter : ShopAdminRouter[i].guards = shopSyncAuth
        /\ \A i \in DOMAIN DesignAdminRouter : DesignAdminRouter[i].guards = designAdminAuth
    BY DEF ShopSyncRouter, ShopAdminRouter, DesignAdminRouter, Route
  <2>2. shopSyncAuth \in KeyGuards /\ designAdminAuth \in KeyGuards
    BY DEF KeyGuards
  <2>. QED  BY <2>1, <2>2, ShopSyncRoutes, ShopAdminRoutes, DesignAdminRoutes, Keyed
<1>2. ASSUME NEW w \in {"shops", "designs"}, NEW R \in Seq(KeyedRoute)
      PROVE  Mount(<<w>>, R) \in Seq(KeyedRoute)
  <2>1. <<w>> \in Seq(Words) /\ <<w>> # <<>> /\ \A i \in DOMAIN <<w>> : <<w>>[i] # ":"
    BY DEF Words
  <2>2. R \in Seq(SoundRoute) /\ \A i \in DOMAIN R : R[i].guards \in KeyGuards
    BY DEF KeyedRoute
  <2>. DEFINE M == Mount(<<w>>, R)
  <2>3. M \in Seq(SoundRoute) /\ \A i \in DOMAIN M : M[i].guards \in KeyGuards
    BY <2>1, <2>2, Mounted
  <2>. HIDE DEF M
  <2>. QED  BY <2>3, Keyed DEF M
<1>3. /\ m1 \in Seq(Segment(1, {"shops"})) /\ InOrder(m1)
      /\ m2 \in Seq(Segment(1, {"shops"})) /\ InOrder(m2)
      /\ m3 \in Seq(Segment(1, {"designs"})) /\ InOrder(m3)
  <2>1. {"shops", "designs"} \subseteq Words \ {":"}
    BY DEF Words
  <2>. QED  BY <2>1, Prefixed, ShopSyncRoutes, ShopAdminRoutes, DesignAdminRoutes
<1>4. Clear(m1, m2)
  <2>1. <<"shops">> \in Seq(Words) /\ <<"shops">> # <<>> /\ \A i \in DOMAIN <<"shops">> : <<"shops">>[i] # ":"
    BY DEF Words
  <2>. QED  BY <2>1, Neighbours, MountedTogether, ShopSyncRoutes, ShopAdminRoutes
<1>5. AdminV1Router = m1 \o m2 \o m3
  BY DEF AdminV1Router
<1>6. m1 \in Seq(KeyedRoute) /\ m2 \in Seq(KeyedRoute) /\ m3 \in Seq(KeyedRoute)
  BY <1>1, <1>2
<1>. HIDE DEF m1, m2, m3
<1>7. m1 \o m2 \in Seq(Segment(1, {"shops"})) /\ InOrder(m1 \o m2)
  BY <1>3, <1>4, Joined
<1>8. InOrder(m1 \o m2 \o m3)
  <2>1. "designs" \notin {"shops"}
    OBVIOUS
  <2>. QED  BY <1>3, <1>7, <2>1, OneMore
<1>. QED  BY <1>5, <1>6, <1>8

(* The relay phone's webhook is the only route of its path, and asks for   *)
(* its key.                                                                *)
Webhook == <<"estimate", "sms">>
WebhookGuarded == {r \in SoundRoute : r.path = Webhook => r.guards \in KeyGuards}

(* The users' API has the webhook once, behind its key.                    *)
LEMMA V1Guarded == V1Router \in Seq(WebhookGuarded)
<1>1. ASSUME NEW R \in Seq(SoundRoute), NEW p \in Seq(Words), p # <<>>,
             \A i \in DOMAIN p : p[i] # ":", 1 \in DOMAIN p, p[1] # "estimate"
      PROVE  Mount(p, R) \in Seq(WebhookGuarded)
  <2>1. p[1] \in {p[1]}
    OBVIOUS
  <2>2. Mount(p, R) \in Seq(Segment(1, {p[1]}))
    BY <1>1, <2>1, Mounted
  <2>3. Segment(1, {p[1]}) \subseteq WebhookGuarded
    BY <1>1 DEF Segment, WebhookGuarded, Webhook
  <2>. QED  BY <2>2, <2>3, AlsoOf
<1>2. ASSUME NEW w \in Words \ {":", "estimate"}
      PROVE  /\ <<w>> \in Seq(Words) /\ <<w>> # <<>> /\ 1 \in DOMAIN <<w>> /\ <<w>>[1] # "estimate"
             /\ \A i \in DOMAIN <<w>> : <<w>>[i] # ":"
  OBVIOUS
<1>3. ASSUME NEW R \in Seq(SoundRoute), NEW w \in Words \ {":", "estimate"}
      PROVE  Mount(<<w>>, R) \in Seq(WebhookGuarded)
  BY <1>1, <1>2
<1>4. /\ Mount(<<"designs">>, DesignRouter) \in Seq(WebhookGuarded)
      /\ Mount(<<"reserve">>, ReservationRouter) \in Seq(WebhookGuarded)
      /\ Mount(<<"reviews">>, ReviewRouter) \in Seq(WebhookGuarded)
      /\ Mount(<<"shops">>, ShopMatchingRouter) \in Seq(WebhookGuarded)
      /\ Mount(<<"shops">>, ShopQueryRouter) \in Seq(WebhookGuarded)
      /\ Mount(<<"bookmark">>, BookmarkToggleRouter) \in Seq(WebhookGuarded)
      /\ Mount(<<"image">>, ImageRouter) \in Seq(WebhookGuarded)
      /\ Mount(<<"users">>, UserAuthRouter) \in Seq(WebhookGuarded)
      /\ Mount(<<"users">>, UserRouter) \in Seq(WebhookGuarded)
      /\ Mount(<<"auth">>, SocialAuthRouter) \in Seq(WebhookGuarded)
      /\ Mount(<<"notifications">>, NotificationSettingRouter) \in Seq(WebhookGuarded)
      /\ Mount(<<"notifications">>, NotificationRouter) \in Seq(WebhookGuarded)
      /\ Mount(<<"device-tokens">>, DeviceTokenRouter) \in Seq(WebhookGuarded)
  <2>1. {"designs", "reserve", "reviews", "shops", "bookmark", "image", "users", "auth",
         "notifications", "device-tokens"} \subseteq Words \ {":", "estimate"}
    BY DEF Words
  <2>. QED
    BY <1>3, <2>1, DesignRoutes, ReservationRoutes, ReviewRoutes, ShopMatchingRoutes,
       ShopQueryRoutes, BookmarkToggleRoutes, ImageRoutes, UserAuthRoutes, UserRoutes,
       SocialAuthRoutes, NotificationSettingRoutes, NotificationRoutes, DeviceTokenRoutes
<1>5. /\ Mount(<<"users", "me", "addresses">>, UserAddressRouter) \in Seq(WebhookGuarded)
      /\ Mount(<<"users", "me", "bookmark">>, BookmarkListRouter) \in Seq(WebhookGuarded)
  <2>1. Segment(1, {"users"}) \subseteq WebhookGuarded
    BY DEF Segment, WebhookGuarded, Webhook
  <2>. QED  BY <2>1, UsersApart, AlsoOf
<1>6. ASSUME NEW R \in Seq(SoundRoute),
             \A i \in DOMAIN R : R[i].path = <<"sms">> => R[i].guards \in KeyGuards
      PROVE  Mount(<<"estimate">>, R) \in Seq(WebhookGuarded)
  <2>. DEFINE p == <<"estimate">>
              M == Mount(p, R)
  <2>1. p \in Seq(Words) /\ p # <<>> /\ (\A i \in DOMAIN p : p[i] # ":") /\ Len(p) = 1
    BY DEF Words
  <2>2. /\ M \in Seq(SoundRoute) /\ DOMAIN M = DOMAIN R
        /\ \A i \in DOMAIN R : M[i].path = p \o R[i].path /\ M[i].guards = R[i].guards
    <3>. HIDE DEF p
    <3>. QED  BY <2>1, Mounted
  <2>. HIDE DEF p, M
  <2>3. ASSUME NEW q \in Seq(Words), p \o q = Webhook PROVE q = <<"sms">>
    <3>1. Len(p \o q) = 2 /\ (p \o q)[2] = "sms"
      BY <2>3 DEF Webhook
    <3>2. /\ Len(p \o q) = Len(p) + Len(q) /\ Len(q) \in Nat
          /\ \A i \in 1..Len(q) : (p \o q)[Len(p) + i] = q[i]
      <4>1. p \in Seq(Words) /\ q \in Seq(Words)
        BY <2>1, <2>3
      <4>. QED  BY ONLY <4>1, LengthsAdd
    <3>3. Len(q) = 1 /\ q[1] = (p \o q)[1 + 1]
      BY <2>1, <3>1, <3>2
    <3>. QED  BY <3>1, <3>3
  <2>4. ASSUME NEW i \in DOMAIN M PROVE M[i] \in WebhookGuarded
    <3>1. M[i] \in SoundRoute /\ i \in DOMAIN R /\ R[i].path \in Seq(Words)
      BY <2>2 DEF SoundRoute
    <3>2. M[i].path = Webhook => R[i].path = <<"sms">>
      BY <2>2, <2>3, <3>1
    <3>. QED  BY <1>6, <2>2, <3>1, <3>2 DEF WebhookGuarded
  <2>. QED  BY <2>2, <2>4, AllOf DEF M, p
<1>7. Mount(<<"estimate">>, EstimateRequestRouter) \in Seq(WebhookGuarded)
  <2>1. \A i \in DOMAIN EstimateRequestRouter : EstimateRequestRouter[i].path # <<"sms">>
    BY DEF EstimateRequestRouter, EstimateRequestController, Route, Does
  <2>. QED  BY <1>6, <2>1, EstimateRequestRoutes
<1>8. Mount(<<"estimate">>, EstimateResponseRouter) \in Seq(WebhookGuarded)
  <2>1. \A i \in DOMAIN EstimateResponseRouter :
          EstimateResponseRouter[i].path = <<"sms">> => EstimateResponseRouter[i].guards = smsWebhookAuth
    BY DEF EstimateResponseRouter, EstimateResponseController, Route, Does
  <2>2. smsWebhookAuth \in KeyGuards
    BY DEF KeyGuards
  <2>. QED  BY <1>6, <2>1, <2>2, EstimateResponseRoutes
<1>9. \A A, B \in Seq(WebhookGuarded) : A \o B \in Seq(WebhookGuarded)
  OBVIOUS
<1>. QED  BY <1>4, <1>5, <1>7, <1>8, <1>9 DEF V1Router

(* All routes of the server.                                               *)
TopRoute ==
  {r \in SoundRoute :
     /\ 1 \in DOMAIN r.path /\ r.path[1] # ":"
     /\ r.path[1] = "admin" \/ r.path = <<"api", "v1", "estimate", "sms">>
          => r.guards \in KeyGuards}

(* Every registered route is sound, and none is more general than one      *)
(* behind it (app.ts, v1.router.ts).                                       *)
LEMMA RoutesAreSound == Routes \in Seq(TopRoute) /\ InOrder(Routes)
<1>. DEFINE h == <<Route("GET", <<"health">>, <<>>, Does(FALSE, FALSE, 200))>>
            a == <<"api", "auth">>
            v == <<"api", "v1">>
            x == <<"admin", "api", "v1">>
            ma == Mount(a, SocialAuthCallbackRouter)
            mv == Mount(v, V1Router)
            mx == Mount(x, AdminV1Router)
<1>1. h \in Seq(SoundRoute) /\ Len(h) = 1 /\ h[1].path = <<"health">> /\ h[1].guards = <<>>
  BY DEF SoundRoute, Words, Route, Does
<1>2. /\ a \in Seq(Words) /\ a # <<>> /\ (\A i \in DOMAIN a : a[i] # ":")
      /\ 1 \in DOMAIN a /\ a[1] = "api" /\ 2 \in DOMAIN a /\ a[2] = "auth"
  BY DEF Words
<1>3. /\ v \in Seq(Words) /\ v # <<>> /\ (\A i \in DOMAIN v : v[i] # ":") /\ Len(v) = 2
      /\ 1 \in DOMAIN v /\ v[1] = "api" /\ 2 \in DOMAIN v /\ v[2] = "v1"
  BY DEF Words
<1>4. /\ x \in Seq(Words) /\ x # <<>> /\ (\A i \in DOMAIN x : x[i] # ":")
      /\ 1 \in DOMAIN x /\ x[1] = "admin"
  BY DEF Words
<1>5. Routes = h \o ma \o mv \o mx
  BY DEF Routes
<1>. HIDE DEF h, a, v, x
<1>6. h \in Seq(Segment(1, {"health"})) /\ InOrder(h)
  <2>1. \A i \in DOMAIN h : h[i] \in Segment(1, {"health"})
    BY <1>1 DEF Segment
  <2>2. InOrder(h)
    BY <1>1 DEF InOrder
  <2>. QED  BY <1>1, <2>1, <2>2, AllOf
<1>7. /\ ma \in Seq(Segment(1, {"api"})) /\ ma \in Seq(Segment(2, {"auth"})) /\ InOrder(ma)
  BY <1>2, SocialAuthCallbackRoutes, Mounted, MountedTogether
<1>8. /\ mv \in Seq(Segment(1, {"api"})) /\ mv \in Seq(Segment(2, {"v1"})) /\ InOrder(mv)
  BY <1>3, V1InOrder, Mounted, MountedTogether
<1>9. AdminV1Router \in Seq(SoundRoute) /\ \A i \in DOMAIN AdminV1Router : AdminV1Router[i].guards \in KeyGuards
  BY AdminRoutes DEF KeyedRoute
<1>10. /\ mx \in Seq(Segment(1, {"admin"})) /\ InOrder(mx)
       /\ \A i \in DOMAIN mx : mx[i].guards \in KeyGuards
  BY <1>4, <1>9, AdminRoutes, Mounted, MountedTogether
<1>11. ASSUME NEW i \in DOMAIN mv, mv[i].path = <<"api", "v1", "estimate", "sms">>
       PROVE  mv[i].guards \in KeyGuards
  <2>1. /\ i \in DOMAIN V1Router /\ mv[i].path = v \o V1Router[i].path
        /\ mv[i].guards = V1Router[i].guards
    BY <1>3, V1InOrder, Mounted, ZenonT(60)
  <2>2. V1Router[i] \in SoundRoute /\ (V1Router[i].path = Webhook => V1Router[i].guards \in KeyGuards)
    BY <2>1, V1Guarded DEF WebhookGuarded
  <2>. DEFINE q == V1Router[i].path
  <2>3. q \in Seq(Words)
    BY <2>2 DEF SoundRoute
  <2>4. v \o q = <<"api", "v1", "estimate", "sms">>
    BY <1>11, <2>1
  <2>. HIDE DEF q
  <2>5. Len(v \o q) = 4 /\ (v \o q)[3] = "estimate" /\ (v \o q)[4] = "sms"
    BY <2>4
  <2>6. /\ Len(v \o q) = Len(v) + Len(q) /\ Len(q) \in Nat
        /\ \A j \in 1..Len(q) : (v \o q)[Len(v) + j] = q[j]
    <3>1. v \in Seq(Words)
      BY <1>3
    <3>. QED  BY ONLY <2>3, <3>1, LengthsAdd
  <2>7. Len(q) = 2 /\ q[1] = (v \o q)[2 + 1] /\ q[2] = (v \o q)[2 + 2]
    BY <1>3, <2>5, <2>6
  <2>8. q = Webhook
    BY <2>3, <2>5, <2>7 DEF Webhook
  <2>. QED  BY <2>1, <2>2, <2>8 DEF q
<1>. HIDE DEF ma, mv, mx
<1>12. h \in Seq(TopRoute) /\ ma \in Seq(TopRoute) /\ mv \in Seq(TopRoute) /\ mx \in Seq(TopRoute)
  <2>1. \A i \in DOMAIN h : h[i] \in TopRoute
    BY <1>1, <1>6 DEF Segment, TopRoute
  <2>2. \A i \in DOMAIN ma : ma[i] \in TopRoute
    <3>. SUFFICES ASSUME NEW i \in DOMAIN ma PROVE ma[i] \in TopRoute
      OBVIOUS
    <3>1. ma[i] \in Segment(1, {"api"}) /\ ma[i] \in Segment(2, {"auth"})
      BY <1>7
    <3>2. ma[i].path # <<"api", "v1", "estimate", "sms">>
      BY <3>1 DEF Segment
    <3>. QED  BY <3>1, <3>2 DEF Segment, TopRoute
  <2>3. \A i \in DOMAIN mv : mv[i] \in TopRoute
    <3>. SUFFICES ASSUME NEW i \in DOMAIN mv PROVE mv[i] \in TopRoute
      OBVIOUS
    <3>1. mv[i] \in Segment(1, {"api"})
      BY <1>8
    <3>. QED  BY <1>11, <3>1 DEF Segment, TopRoute
  <2>4. \A i \in DOMAIN mx : mx[i] \in TopRoute
    <3>. SUFFICES ASSUME NEW i \in DOMAIN mx PROVE mx[i] \in TopRoute
      OBVIOUS
    <3>1. mx[i] \in Segment(1, {"admin"}) /\ mx[i].guards \in KeyGuards
      BY <1>10
    <3>. QED  BY <3>1 DEF Segment, TopRoute
  <2>. QED  BY <1>1, <1>7, <1>8, <1>10, <2>1, <2>2, <2>3, <2>4, AllOf
<1>13. Routes \in Seq(TopRoute)
  BY <1>5, <1>12
<1>14. "api" \notin {"health"} /\ "admin" \notin {"health"} \union {"api"}
  OBVIOUS
<1>15. Clear(ma, mv)
  <2>1. {"auth"} \intersect {"v1"} = {}
    OBVIOUS
  <2>. QED  BY <1>7, <1>8, <2>1, Apart
<1>16. /\ h \o ma \o mv \in Seq(Segment(1, {"health"} \union {"api"}))
       /\ InOrder(h \o ma \o mv)
  BY <1>6, <1>7, <1>8, <1>14, <1>15, TwoMore
<1>17. InOrder(h \o ma \o mv \o mx)
  BY <1>10, <1>14, <1>16, OneMore
<1>. QED  BY <1>5, <1>13, <1>17

(* Which route a request finds: of those that match, the first.            *)
LEMMA RouteFound ==
  ASSUME NEW method, NEW path
  PROVE  LET k == FirstRoute(method, path) IN
         \/ k = 0
         \/ /\ k \in DOMAIN Routes /\ Routes[k] \in TopRoute
            /\ k \in RoutesFor(method, path) /\ \A j \in RoutesFor(method, path) : k <= j
<1>. DEFINE found == RoutesFor(method, path)
            k == FirstRoute(method, path)
<1>1. found \in SUBSET Nat /\ \A j \in found : j \in DOMAIN Routes /\ Routes[j] \in TopRoute
  BY RoutesAreSound DEF RoutesFor
<1>2. k = IF found = {} THEN 0 ELSE CHOOSE i \in found : \A j \in found : i <= j
  BY DEF FirstRoute
<1>. HIDE DEF found, k
<1>3. found # {} => \E i \in found : \A j \in found : i <= j
  BY <1>1, LeastOfNaturals
<1>4. found # {} => k \in found /\ \A j \in found : k <= j
  BY <1>2, <1>3
<1>. QED  BY <1>1, <1>2, <1>4 DEF found, k

(* The paths that are asked for.                                           *)
AskedWords == Words \union {"7", "nowhere"}

(* Paths that are asked for are sequences of segments.                     *)
LEMMA PathsAreSequences == Paths \subseteq Seq(AskedWords)
<1>1. ASSUME NEW k \in DOMAIN Routes
      PROVE  [i \in DOMAIN Routes[k].path |->
                IF Routes[k].path[i] = ":" THEN "7" ELSE Routes[k].path[i]] \in Seq(AskedWords)
  <2>. DEFINE p == Routes[k].path
  <2>1. p \in Seq(Words)
    BY RoutesAreSound DEF TopRoute, SoundRoute
  <2>. HIDE DEF p
  <2>2. Len(p) \in Nat /\ DOMAIN p = 1..Len(p) /\ \A i \in 1..Len(p) : p[i] \in Words
    BY <2>1
  <2>3. [i \in 1..Len(p) |-> IF p[i] = ":" THEN "7" ELSE p[i]] \in Seq(AskedWords)
    BY <2>2 DEF AskedWords
  <2>. QED  BY <2>2, <2>3 DEF p
<1>2. <<"api", "v1", "nowhere">> \in Seq(AskedWords)
  BY DEF AskedWords, Words
<1>. QED  BY <1>1, <1>2 DEF Paths

(* The first in an order without shadows is no more general than others.   *)
LEMMA FirstIsLiteral ==
  ASSUME NEW method, NEW path \in Seq(AskedWords),
         NEW k \in RoutesFor(method, path), NEW j \in RoutesFor(method, path),
         k <= j, \A i \in DOMAIN Routes[k].path : Routes[j].path[i] = ":" => Routes[k].path[i] = ":"
  PROVE  Routes[j].path = Routes[k].path
<1>. DEFINE a == Routes[k]
            b == Routes[j]
            p == a.path
            q == b.path
<1>1. /\ k \in DOMAIN Routes /\ j \in DOMAIN Routes /\ a.method = b.method
      /\ Matches(path, p) /\ Matches(path, q)
  BY DEF RoutesFor
<1>2. DOMAIN Routes \subseteq Nat /\ p \in Seq(Words) /\ q \in Seq(Words)
  BY <1>1, RoutesAreSound DEF TopRoute, SoundRoute
<1>3. k < j => ~Shadows(a, b)
  BY <1>1, RoutesAreSound DEF InOrder
<1>4. \A i \in DOMAIN p : q[i] = ":" => p[i] = ":"
  OBVIOUS
<1>. HIDE DEF p, q
<1>5. /\ Len(p) = Len(q) /\ \A i \in DOMAIN q : p[i] \in {q[i], ":"}
  <2>1. Len(path) = Len(p) /\ Len(path) = Len(q)
    BY <1>1 DEF Matches
  <2>2. DOMAIN path = DOMAIN q /\ DOMAIN p = DOMAIN q
    <3>1. DOMAIN path = 1..Len(path)
      OBVIOUS
    <3>2. DOMAIN p = 1..Len(p) /\ DOMAIN q = 1..Len(q)
      BY <1>2, LengthsAdd
    <3>. QED  BY <2>1, <3>1, <3>2
  <2>3. \A i \in DOMAIN q : p[i] \in {path[i], ":"} /\ q[i] \in {path[i], ":"}
    BY <1>1, <2>2 DEF Matches
  <2>4. \A i \in DOMAIN q : p[i] \in {q[i], ":"}
    BY <1>4, <2>2, <2>3
  <2>. QED  BY <2>1, <2>4
<1>6. Matches(q, p)
  BY <1>5 DEF Matches
<1>7. CASE k = j
  BY <1>7 DEF p, q
<1>8. CASE k < j
  BY <1>1, <1>3, <1>6, <1>8 DEF Shadows, p, q
<1>. QED  BY <1>1, <1>2, <1>7, <1>8 DEF p, q

-----------------------------------------------------------------------------
(* A request on its way.                                                   *)
Credentials == {"unasked", "right", "wrong", "expired", "forged", "missing"}

RequestRecord ==
  [pc : {"idle", "parse", "route", "guard", "handle", "error", "answered"},
   method : {"GET", "POST", "PATCH", "DELETE"}, path : Seq(AskedWords),
   route : {0} \union DOMAIN Routes,
   guards : {<<>>, <<"upload">>} \union UserGuards \union KeyGuards,
   credential : Credentials, user : BOOLEAN, form : {"unread", "right", "wrong"},
   served : BOOLEAN, error : [app : BOOLEAN, status : Nat, data : BOOLEAN],
   status : Nat, data : BOOLEAN]

(* The route that was found is the first one.                              *)
Found(r) ==
  r.route # 0 =>
    /\ r.route \in RoutesFor(r.method, r.path)
    /\ \A j \in RoutesFor(r.method, r.path) : r.route <= j

(* What is known of a request that has passed the first guard.             *)
Known(r) ==
  /\ Routes[r.route].guards \in UserGuards => r.user
  /\ Routes[r.route].guards \in KeyGuards => r.credential = "right"

(* The guards still to pass are those of the route, or what is left.       *)
GuardsAreSound(r) ==
  \/ r.guards = Routes[r.route].guards
  \/ r.guards = <<>> /\ Known(r)
  \/ r.guards = <<"upload">> /\ Known(r) /\ r.user

(* A request is where it is for a reason.                                  *)
OnItsWay(r) ==
  /\ r.pc \in {"idle", "parse", "route"} => r.guards = <<>> /\ r.route = 0
  /\ r.pc \in {"guard", "handle"} => r.route # 0
  /\ r.pc \in {"idle", "parse", "route", "guard", "handle"} => r.error.app /\ ~r.served
  /\ r.pc = "guard" => GuardsAreSound(r)
  /\ r.pc = "handle" => r.guards = <<>> /\ Known(r)
  /\ r.served => /\ r.route # 0 /\ Known(r)
                 /\ Routes[r.route].handler.checks => r.form = "right"
  /\ r.pc = "error" /\ r.error.app => r.error.status # 0
  /\ r.pc = "error" /\ r.guards # <<>> /\ Head(r.guards) = "user" => r.credential # "right"
  /\ r.status = 0 <=> r.pc # "answered"
  /\ r.pc = "answered" =>
       /\ r.status >= 500 => ~r.data
       /\ ~r.error.app =>
            r.status = (IF r.error.status \in 400..499 THEN r.error.status ELSE 500)

HttpInv ==
  /\ environment \in Environments /\ running \in BOOLEAN
  /\ running => Required \subseteq environment
  /\ http.pc # "idle" => running
  /\ http \in RequestRecord /\ Found(http) /\ OnItsWay(http)

(* One step of the request.                                                *)
LEMMA NextStand ==
  ASSUME HttpInv, running, NEW r \in RequestRecord, Now(r), Found(r), OnItsWay(r)
  PROVE  HttpInv'
BY DEF HttpInv, Now, Found, OnItsWay, GuardsAreSound, Known

(* A route that was found is as it should be.                              *)
LEMMA FoundIsSound ==
  ASSUME NEW r \in RequestRecord, r.route # 0
  PROVE  /\ r.route \in DOMAIN Routes /\ Routes[r.route] \in TopRoute
         /\ Routes[r.route].guards \in {<<>>} \union UserGuards \union KeyGuards
         /\ Routes[r.route].handler \in
              [user : BOOLEAN, checks : BOOLEAN, status : {200, 201, 202, 204, 302}]
BY RoutesAreSound DEF RequestRecord, TopRoute, SoundRoute

(* The server before it listens.                                           *)
LEMMA HttpStart == HttpInit => HttpInv
<1>. SUFFICES ASSUME HttpInit PROVE HttpInv
  OBVIOUS
<1>1. NoRequest \in RequestRecord
  <2>1. <<>> \in Seq(AskedWords)
    OBVIOUS
  <2>. QED  BY <2>1 DEF NoRequest, RequestRecord, Error, Credentials
<1>2. Found(NoRequest) /\ OnItsWay(NoRequest)
  BY DEF Found, OnItsWay, NoRequest, Error
<1>. QED  BY <1>1, <1>2 DEF HttpInit, HttpInv, NoRequest

(* A request comes in.                                                     *)
LEMMA ReceiveKeeps ==
  ASSUME HttpInv, NEW m \in {"GET", "POST", "PATCH", "DELETE"}, NEW p \in Paths, Receive(m, p)
  PROVE  HttpInv'
<1>. DEFINE r == [NoRequest EXCEPT !.pc = "parse", !.method = m, !.path = p]
<1>1. p \in Seq(AskedWords)
  BY PathsAreSequences
<1>2. r \in RequestRecord
  BY <1>1 DEF NoRequest, RequestRecord, Error, Credentials
<1>3. Found(r) /\ OnItsWay(r)
  BY DEF Found, OnItsWay, NoRequest, Error
<1>4. Now(r) /\ running
  BY DEF Receive
<1>. HIDE DEF r
<1>. QED  BY <1>2, <1>3, <1>4, NextStand

(* An error stops a request that was not served.                           *)
LEMMA ThrowKeeps ==
  ASSUME HttpInv, http.pc \in {"parse", "route", "guard"},
         NEW c \in Credentials, NEW e \in [app : BOOLEAN, status : Nat, data : BOOLEAN],
         e.app => e.status # 0, c = "right" => (http.guards = <<>> \/ Head(http.guards) # "user"),
         Now([http EXCEPT !.pc = "error", !.credential = c, !.error = e])
  PROVE  HttpInv'
<1>. DEFINE r == [http EXCEPT !.pc = "error", !.credential = c, !.error = e]
<1>1. http \in RequestRecord /\ Found(http) /\ OnItsWay(http) /\ running
  BY DEF HttpInv
<1>2. r \in RequestRecord /\ r.pc = "error" /\ r.credential = c /\ r.error = e
      /\ r.route = http.route /\ r.method = http.method /\ r.path = http.path
      /\ r.guards = http.guards /\ r.served = http.served /\ r.status = http.status
  BY <1>1 DEF RequestRecord
<1>. HIDE DEF r
<1>3. Found(r)
  BY <1>1, <1>2 DEF Found
<1>4. OnItsWay(r)
  BY <1>1, <1>2 DEF OnItsWay
<1>5. Now(r)
  BY DEF r
<1>. QED  BY <1>1, <1>2, <1>3, <1>4, <1>5, NextStand

(* Its body is parsed, or refused.                                         *)
LEMMA ParseKeeps == HttpInv /\ ParseBody => HttpInv'
<1>. SUFFICES ASSUME HttpInv, ParseBody PROVE HttpInv'
  OBVIOUS
<1>1. /\ http \in RequestRecord /\ Found(http) /\ OnItsWay(http) /\ running /\ http.pc = "parse"
      /\ http.guards = <<>> /\ http.route = 0
  BY DEF HttpInv, ParseBody, OnItsWay
<1>2. CASE Now([http EXCEPT !.pc = "route"])
  <2>. DEFINE r == [http EXCEPT !.pc = "route"]
  <2>1. r \in RequestRecord /\ Found(r) /\ OnItsWay(r)
    BY <1>1 DEF RequestRecord, Found, OnItsWay
  <2>. HIDE DEF r
  <2>. QED  BY <1>1, <1>2, <2>1, NextStand DEF r
<1>3. ASSUME NEW s \in {400, 413}, Throws(Error(FALSE, s, TRUE)) PROVE HttpInv'
  <2>. DEFINE e == Error(FALSE, s, TRUE)
              c == http.credential
  <2>1. e \in [app : BOOLEAN, status : Nat, data : BOOLEAN] /\ ~e.app /\ c \in Credentials
    BY <1>1 DEF Error, RequestRecord
  <2>2. Now([http EXCEPT !.pc = "error", !.credential = c, !.error = e])
    BY <1>1, <1>3 DEF Throws, RequestRecord
  <2>. HIDE DEF e, c
  <2>3. http.pc \in {"parse", "route", "guard"} /\ http.guards = <<>>
    BY <1>1
  <2>. QED  BY <2>1, <2>2, <2>3, ThrowKeeps, ZenonT(40)
<1>. QED  BY <1>2, <1>3, ZenonT(60) DEF ParseBody

(* It finds its route, or none.                                            *)
LEMMA FindKeeps == HttpInv /\ FindRoute => HttpInv'
<1>. SUFFICES ASSUME HttpInv, FindRoute PROVE HttpInv'
  OBVIOUS
<1>. DEFINE k == FirstRoute(http.method, http.path)
<1>1. /\ http \in RequestRecord /\ Found(http) /\ OnItsWay(http) /\ running /\ http.pc = "route"
      /\ http.guards = <<>> /\ http.route = 0
      /\ IF k = 0 THEN Throws(RouteNotFoundError)
         ELSE Now([http EXCEPT !.pc = "guard", !.route = k, !.guards = Routes[k].guards])
  BY DEF HttpInv, FindRoute, OnItsWay
<1>2. \/ k = 0
      \/ /\ k \in DOMAIN Routes /\ Routes[k] \in TopRoute
         /\ k \in RoutesFor(http.method, http.path)
         /\ \A j \in RoutesFor(http.method, http.path) : k <= j
  BY RouteFound
<1>. HIDE DEF k
<1>3. CASE k = 0
  <2>. DEFINE e == RouteNotFoundError
              c == http.credential
  <2>1. e \in [app : BOOLEAN, status : Nat, data : BOOLEAN] /\ e.status # 0 /\ c \in Credentials
    BY <1>1 DEF RouteNotFoundError, Error, RequestRecord
  <2>2. Now([http EXCEPT !.pc = "error", !.credential = c, !.error = e])
    BY <1>1, <1>3 DEF Throws, RequestRecord
  <2>. HIDE DEF e, c
  <2>3. http.pc \in {"parse", "route", "guard"} /\ http.guards = <<>>
    BY <1>1
  <2>. QED  BY <2>1, <2>2, <2>3, ThrowKeeps, ZenonT(40)
<1>4. CASE k # 0
  <2>. DEFINE g == Routes[k].guards
              r == [http EXCEPT !.pc = "guard", !.route = k, !.guards = g]
  <2>1. g \in {<<>>} \union UserGuards \union KeyGuards /\ k \in DOMAIN Routes
    BY <1>2, <1>4 DEF TopRoute, SoundRoute
  <2>2. Now(r)
    BY <1>1, <1>4
  <2>. HIDE DEF g
  <2>3. /\ r \in RequestRecord /\ r.pc = "guard" /\ r.route = k /\ r.guards = g
        /\ r.method = http.method /\ r.path = http.path /\ r.served = http.served
        /\ r.error = http.error /\ r.status = http.status
    BY <1>1, <2>1 DEF RequestRecord
  <2>. HIDE DEF r
  <2>4. Found(r)
    BY <1>2, <1>4, <2>3 DEF Found
  <2>5. OnItsWay(r)
    BY <1>1, <1>4, <2>3 DEF OnItsWay, GuardsAreSound, g
  <2>. QED  BY <1>1, <2>2, <2>3, <2>4, <2>5, NextStand
<1>. QED  BY <1>3, <1>4

(* What the lists of guards begin with, and what is left behind it.         *)
LEMMA GuardLists ==
  /\ User # <<>> /\ Head(User) = "user" /\ Tail(User) = <<>>
  /\ <<"user", "upload">> # <<>> /\ Head(<<"user", "upload">>) = "user"
  /\ Tail(<<"user", "upload">>) = <<"upload">>
  /\ <<"upload">> # <<>> /\ Head(<<"upload">>) = "upload" /\ Tail(<<"upload">>) = <<>>
  /\ \A g \in KeyGuards :
       /\ g # <<>> /\ Head(g) \notin {"user", "upload"} /\ Tail(g) = <<>> /\ g \notin UserGuards
<1>1. User # <<>> /\ Head(User) = "user" /\ Tail(User) = <<>>
  BY DEF User
<1>2. /\ <<"user", "upload">> # <<>> /\ Head(<<"user", "upload">>) = "user"
      /\ Tail(<<"user", "upload">>) = <<"upload">>
  OBVIOUS
<1>3. <<"upload">> # <<>> /\ Head(<<"upload">>) = "upload" /\ Tail(<<"upload">>) = <<>>
  OBVIOUS
<1>4. ASSUME NEW g \in KeyGuards
      PROVE  g # <<>> /\ Head(g) \notin {"user", "upload"} /\ Tail(g) = <<>> /\ g \notin UserGuards
  <2>1. CASE g = shopSyncAuth
    BY <2>1 DEF shopSyncAuth, UserGuards, User
  <2>2. CASE g = designAdminAuth
    BY <2>2 DEF designAdminAuth, UserGuards, User
  <2>3. CASE g = smsWebhookAuth
    BY <2>3 DEF smsWebhookAuth, UserGuards, User
  <2>. QED  BY <2>1, <2>2, <2>3 DEF KeyGuards
<1>. QED  BY <1>1, <1>2, <1>3, <1>4

(* A guard that lets a request through.                                    *)
LEMMA PassKeeps ==
  ASSUME HttpInv, http.pc = "guard", http.guards # <<>>,
         NEW c \in Credentials, NEW u \in BOOLEAN,
         http.guards \in KeyGuards => c = "right",
         Head(http.guards) = "user" => u,
         Head(http.guards) = "upload" => u = http.user /\ c = http.credential,
         Now([http EXCEPT !.credential = c, !.guards = Tail(http.guards), !.user = u])
  PROVE  HttpInv'
<1>. DEFINE r == [http EXCEPT !.credential = c, !.guards = Tail(http.guards), !.user = u]
            g == Routes[http.route].guards
<1>1. /\ http \in RequestRecord /\ Found(http) /\ OnItsWay(http) /\ running
      /\ http.route # 0 /\ GuardsAreSound(http)
  BY DEF HttpInv, OnItsWay
<1>2. g \in {<<>>} \union UserGuards \union KeyGuards
  BY <1>1, FoundIsSound
<1>. HIDE DEF g
<1>3. \/ http.guards = <<"upload">> /\ Known(http) /\ http.user /\ Tail(http.guards) = <<>>
         /\ u = http.user /\ c = http.credential
      \/ http.guards = g
  <2>1. CASE http.guards = <<"upload">> /\ Known(http) /\ http.user
    <3>1. Head(http.guards) = "upload" /\ Tail(http.guards) = <<>>
      BY <2>1, GuardLists
    <3>. QED  BY <2>1, <3>1
  <2>. QED  BY <1>1, <2>1 DEF GuardsAreSound, g
<1>4. \/ g = User /\ Tail(g) = <<>> /\ Head(g) = "user"
      \/ g = <<"user", "upload">> /\ Tail(g) = <<"upload">> /\ Head(g) = "user"
      \/ g \in KeyGuards /\ Tail(g) = <<>> /\ g \notin UserGuards
      \/ g = <<>>
  <2>1. g \in {<<>>, User, <<"user", "upload">>} \union KeyGuards
    BY <1>2 DEF UserGuards
  <2>. QED  BY <2>1, GuardLists
<1>5. /\ User \in UserGuards /\ User \notin KeyGuards
      /\ <<"user", "upload">> \in UserGuards /\ <<"user", "upload">> \notin KeyGuards
  BY DEF UserGuards, KeyGuards, User, shopSyncAuth, designAdminAuth, smsWebhookAuth
<1>6. Tail(http.guards) \in {<<>>, <<"upload">>}
  BY <1>3, <1>4
<1>7. /\ r \in RequestRecord /\ r.pc = "guard" /\ r.route = http.route
      /\ r.guards = Tail(http.guards) /\ r.credential = c /\ r.user = u
      /\ r.method = http.method /\ r.path = http.path /\ r.served = http.served
      /\ r.error = http.error /\ r.status = http.status
  BY <1>1, <1>6 DEF RequestRecord
<1>. HIDE DEF r
<1>8. Known(r)
  BY <1>3, <1>4, <1>5, <1>7 DEF Known, g
<1>9. GuardsAreSound(r)
  BY <1>3, <1>4, <1>7, <1>8 DEF GuardsAreSound
<1>10. Found(r)
  BY <1>1, <1>7 DEF Found
<1>11. OnItsWay(r)
  BY <1>1, <1>7, <1>9 DEF OnItsWay
<1>12. Now(r)
  BY DEF r
<1>. QED  BY <1>1, <1>7, <1>10, <1>11, <1>12, NextStand

(* authMiddleware: the environment has the secret, so only a token that is *)
(* not right stops a request.                                              *)
LEMMA UserKeeps ==
  ASSUME HttpInv, NEW c \in {"right", "missing", "expired", "forged"}, CheckUser(c)
  PROVE  HttpInv'
<1>. DEFINE asked == [http EXCEPT !.credential = c]
<1>1. /\ http \in RequestRecord /\ http.pc = "guard" /\ http.guards # <<>>
      /\ Head(http.guards) = "user" /\ c \in Credentials
      /\ "JWT_ACCESS_SECRET" \in environment
  BY DEF HttpInv, CheckUser, Required, Credentials
<1>2. CASE c = "right"
  <2>1. Now([Passed(asked) EXCEPT !.user = TRUE])
    BY <1>1, <1>2 DEF CheckUser
  <2>2. [Passed(asked) EXCEPT !.user = TRUE] =
          [http EXCEPT !.credential = c, !.guards = Tail(http.guards), !.user = TRUE]
    BY <1>1 DEF Passed, RequestRecord
  <2>. QED  BY <1>1, <1>2, <2>1, <2>2, PassKeeps, ZenonT(40)
<1>3. CASE c # "right"
  <2>. DEFINE e == UnauthorizedError
  <2>1. Now([asked EXCEPT !.pc = "error", !.error = e])
    BY <1>1, <1>3 DEF CheckUser
  <2>2. [asked EXCEPT !.pc = "error", !.error = e] =
          [http EXCEPT !.pc = "error", !.credential = c, !.error = e]
    BY <1>1 DEF RequestRecord
  <2>3. e \in [app : BOOLEAN, status : Nat, data : BOOLEAN] /\ e.status # 0
    BY DEF UnauthorizedError, Error
  <2>. HIDE DEF e
  <2>. QED  BY <1>1, <1>3, <2>1, <2>2, <2>3, ThrowKeeps, ZenonT(40)
<1>. QED  BY <1>2, <1>3

(* The guards that ask for a key.                                          *)
LEMMA KeyKeeps ==
  ASSUME HttpInv, NEW c \in {"right", "missing", "wrong"}, CheckKey(c)
  PROVE  HttpInv'
<1>. DEFINE asked == [http EXCEPT !.credential = c]
<1>1. /\ http \in RequestRecord /\ http.pc = "guard" /\ http.guards # <<>>
      /\ Head(http.guards) # "user" /\ Head(http.guards) # "upload" /\ c \in Credentials
      /\ Now(IF c = "right" THEN Passed(asked)
             ELSE [asked EXCEPT !.pc = "error", !.error = UnauthorizedError])
  BY DEF HttpInv, CheckKey, Credentials
<1>2. CASE c = "right"
  <2>. DEFINE u == http.user
  <2>1. Passed(asked) = [http EXCEPT !.credential = c, !.guards = Tail(http.guards), !.user = u]
    BY <1>1 DEF Passed, RequestRecord
  <2>2. u \in BOOLEAN
    BY <1>1 DEF RequestRecord
  <2>3. Now([http EXCEPT !.credential = c, !.guards = Tail(http.guards), !.user = u])
    BY <1>1, <1>2, <2>1
  <2>. HIDE DEF u
  <2>. QED  BY <1>1, <1>2, <2>2, <2>3, PassKeeps, ZenonT(40)
<1>3. CASE c # "right"
  <2>. DEFINE e == UnauthorizedError
  <2>1. [asked EXCEPT !.pc = "error", !.error = e] =
          [http EXCEPT !.pc = "error", !.credential = c, !.error = e]
    BY <1>1 DEF RequestRecord
  <2>2. e \in [app : BOOLEAN, status : Nat, data : BOOLEAN] /\ e.status # 0
    BY DEF UnauthorizedError, Error
  <2>3. Now([http EXCEPT !.pc = "error", !.credential = c, !.error = e])
    BY <1>1, <1>3, <2>1
  <2>. HIDE DEF e
  <2>. QED  BY <1>1, <1>3, <2>2, <2>3, ThrowKeeps, ZenonT(40)
<1>. QED  BY <1>2, <1>3

(* The guard that takes the files.                                         *)
LEMMA FilesKeep ==
  ASSUME HttpInv, NEW outcome \in {"files", "limit", "type", "multer"}, TakeFiles(outcome)
  PROVE  HttpInv'
<1>. DEFINE c == http.credential
            u == http.user
<1>1. /\ http \in RequestRecord /\ http.pc = "guard" /\ http.guards # <<>>
      /\ Head(http.guards) = "upload"
  BY DEF HttpInv, TakeFiles
<1>2. c \in Credentials /\ u \in BOOLEAN /\ http.guards \notin KeyGuards
  BY <1>1, GuardLists DEF RequestRecord
<1>3. CASE outcome = "files"
  <2>1. Passed(http) = [http EXCEPT !.credential = c, !.guards = Tail(http.guards), !.user = u]
    BY <1>1 DEF Passed, RequestRecord
  <2>2. Now([http EXCEPT !.credential = c, !.guards = Tail(http.guards), !.user = u])
    BY <1>3, <2>1 DEF TakeFiles
  <2>. QED  BY <1>1, <1>2, <2>2, PassKeeps, ZenonT(40)
<1>4. ASSUME NEW s \in {400, 500}, Throws(Error(TRUE, s, FALSE)) PROVE HttpInv'
  <2>. DEFINE e == Error(TRUE, s, FALSE)
  <2>1. e \in [app : BOOLEAN, status : Nat, data : BOOLEAN] /\ e.status # 0
    BY DEF Error
  <2>2. Now([http EXCEPT !.pc = "error", !.credential = c, !.error = e])
    BY <1>1, <1>4 DEF Throws, RequestRecord
  <2>. HIDE DEF e, c
  <2>. QED  BY <1>1, <1>2, <2>1, <2>2, ThrowKeeps, ZenonT(60) DEF c
<1>. QED  BY <1>3, <1>4, ZenonT(60) DEF TakeFiles

(* No guard is left: whoever asks is known.                                *)
LEMMA EnterKeeps == HttpInv /\ EnterHandler => HttpInv'
<1>. SUFFICES ASSUME HttpInv, EnterHandler PROVE HttpInv'
  OBVIOUS
<1>. DEFINE r == [http EXCEPT !.pc = "handle"]
<1>1. /\ http \in RequestRecord /\ Found(http) /\ OnItsWay(http) /\ running
      /\ http.pc = "guard" /\ http.guards = <<>> /\ http.route # 0 /\ GuardsAreSound(http)
  BY DEF HttpInv, OnItsWay, EnterHandler
<1>2. Known(http)
  <2>1. <<>> \notin UserGuards /\ <<>> \notin KeyGuards
    BY GuardLists DEF UserGuards
  <2>. QED  BY <1>1, <2>1 DEF GuardsAreSound, Known
<1>3. /\ r \in RequestRecord /\ r.pc = "handle" /\ r.route = http.route /\ r.guards = <<>>
      /\ r.credential = http.credential /\ r.user = http.user /\ r.method = http.method
      /\ r.path = http.path /\ r.served = http.served /\ r.error = http.error
      /\ r.status = http.status
  BY <1>1 DEF RequestRecord
<1>4. Now(r)
  BY DEF EnterHandler
<1>. HIDE DEF r
<1>5. Found(r) /\ Known(r)
  BY <1>1, <1>2, <1>3 DEF Found, Known
<1>6. OnItsWay(r)
  BY <1>1, <1>3, <1>5 DEF OnItsWay
<1>. QED  BY <1>1, <1>3, <1>4, <1>5, <1>6, NextStand

(* What is thrown is an error, with a status if it is the application's.   *)
LEMMA ThrownErrors ==
  ASSUME NEW e \in Thrown
  PROVE  e \in [app : BOOLEAN, status : Nat, data : BOOLEAN] /\ (e.app => e.status # 0)
BY DEF Thrown

(* The controller refuses the input, or calls the service.                 *)
LEMMA HandleKeeps ==
  ASSUME HttpInv, NEW form \in {"right", "wrong"}, Handle(form)
  PROVE  HttpInv'
<1>. DEFINE does == Routes[http.route].handler
            called == [http EXCEPT !.form = form, !.served = TRUE]
<1>1. /\ http \in RequestRecord /\ Found(http) /\ OnItsWay(http) /\ running
      /\ http.pc = "handle" /\ http.guards = <<>> /\ http.route # 0 /\ Known(http)
      /\ http.error.app /\ ~http.served /\ http.status = 0
  BY DEF HttpInv, OnItsWay, Handle
<1>2. does \in [user : BOOLEAN, checks : BOOLEAN, status : {200, 201, 202, 204, 302}]
  BY <1>1, FoundIsSound
<1>. HIDE DEF does
<1>3. CASE does.checks /\ form = "wrong"
  <2>. DEFINE e == Error(TRUE, 400, TRUE)
              r == [http EXCEPT !.pc = "error", !.form = form, !.error = e]
  <2>1. Now(r)
    BY <1>3 DEF Handle, does
  <2>2. e \in [app : BOOLEAN, status : Nat, data : BOOLEAN] /\ e.status # 0
    BY DEF Error
  <2>. HIDE DEF e
  <2>3. /\ r \in RequestRecord /\ r.pc = "error" /\ r.route = http.route /\ r.guards = <<>>
        /\ r.method = http.method /\ r.path = http.path /\ ~r.served /\ r.error = e
        /\ r.status = 0
    BY <1>1, <2>2 DEF RequestRecord
  <2>. HIDE DEF r
  <2>4. Found(r) /\ OnItsWay(r)
    BY <1>1, <2>2, <2>3 DEF Found, OnItsWay
  <2>. QED  BY <1>1, <2>1, <2>3, <2>4, NextStand
<1>4. /\ called \in RequestRecord /\ called.form = form /\ called.served
      /\ called.route = http.route /\ called.guards = <<>> /\ called.error = http.error
      /\ called.method = http.method /\ called.path = http.path /\ called.status = 0
      /\ called.credential = http.credential /\ called.user = http.user
  BY <1>1 DEF RequestRecord
<1>5. ~(does.checks /\ form = "wrong") =>
        \/ Now([called EXCEPT !.pc = "answered", !.status = does.status])
        \/ \E e \in Thrown : Now([called EXCEPT !.pc = "error", !.error = e])
  BY DEF Handle, does
<1>. HIDE DEF called
<1>6. CASE ~(does.checks /\ form = "wrong") /\ Now([called EXCEPT !.pc = "answered", !.status = does.status])
  <2>. DEFINE n == does.status
              r == [called EXCEPT !.pc = "answered", !.status = n]
  <2>2. n \in Nat /\ n # 0 /\ ~(n >= 500)
    BY ONLY <1>2
  <2>. HIDE DEF n
  <2>1. /\ r \in RequestRecord /\ r.pc = "answered" /\ r.route = http.route /\ r.guards = <<>>
        /\ r.method = http.method /\ r.path = http.path /\ r.served /\ r.error = http.error
        /\ r.form = form /\ r.status = n /\ r.credential = http.credential
        /\ r.user = http.user
    <3>1. called \in RequestRecord /\ n \in Nat
      BY <1>4, <2>2
    <3>2. /\ r \in RequestRecord /\ r.pc = "answered" /\ r.route = called.route
          /\ r.guards = called.guards /\ r.method = called.method /\ r.path = called.path
          /\ r.served = called.served /\ r.error = called.error /\ r.form = called.form
          /\ r.status = n /\ r.credential = called.credential /\ r.user = called.user
      BY ONLY <3>1 DEF RequestRecord
    <3>. HIDE DEF r
    <3>. QED  BY <1>4, <3>2
  <2>. HIDE DEF r
  <2>3. Found(r) /\ Known(r)
    BY <1>1, <2>1 DEF Found, Known
  <2>4. Routes[r.route].handler.checks => r.form = "right"
    BY <1>6, <2>1 DEF does
  <2>5. OnItsWay(r)
    BY <1>1, <2>1, <2>2, <2>3, <2>4 DEF OnItsWay
  <2>. QED  BY <1>1, <1>6, <2>1, <2>3, <2>5, NextStand DEF r, n
<1>7. ASSUME ~(does.checks /\ form = "wrong"),
             NEW e \in Thrown, Now([called EXCEPT !.pc = "error", !.error = e])
      PROVE  HttpInv'
  <2>. DEFINE r == [called EXCEPT !.pc = "error", !.error = e]
  <2>1. e \in [app : BOOLEAN, status : Nat, data : BOOLEAN] /\ (e.app => e.status # 0)
    BY ThrownErrors
  <2>2. /\ r \in RequestRecord /\ r.pc = "error" /\ r.route = http.route /\ r.guards = <<>>
        /\ r.method = http.method /\ r.path = http.path /\ r.served /\ r.error = e
        /\ r.form = form /\ r.status = 0 /\ r.credential = http.credential
        /\ r.user = http.user
    BY <1>4, <2>1 DEF RequestRecord
  <2>. HIDE DEF r
  <2>3. Found(r) /\ Known(r)
    BY <1>1, <2>2 DEF Found, Known
  <2>4. Routes[r.route].handler.checks => r.form = "right"
    BY <1>7, <2>2 DEF does
  <2>5. OnItsWay(r)
    BY <1>1, <2>1, <2>2, <2>3, <2>4 DEF OnItsWay
  <2>. QED  BY <1>1, <1>7, <2>2, <2>3, <2>5, NextStand DEF r
<1>. QED  BY <1>3, <1>5, <1>6, <1>7

(* The error handler answers.                                              *)
LEMMA AnswerKeeps == HttpInv /\ HandleError => HttpInv'
<1>. SUFFICES ASSUME HttpInv, HandleError PROVE HttpInv'
  OBVIOUS
<1>. DEFINE e == ToAppError(http.error)
            d == e.data /\ e.status < 500
            n == e.status
            r == [http EXCEPT !.pc = "answered", !.status = n, !.data = d]
<1>1. /\ http \in RequestRecord /\ Found(http) /\ OnItsWay(http) /\ running
      /\ http.pc = "error" /\ Now(r)
  BY DEF HttpInv, HandleError
<1>2. /\ http.error \in [app : BOOLEAN, status : Nat, data : BOOLEAN]
      /\ http.error.app => http.error.status # 0
  BY <1>1 DEF RequestRecord, OnItsWay
<1>3. /\ n \in Nat /\ n # 0
      /\ ~http.error.app =>
           n = (IF http.error.status \in 400..499 THEN http.error.status ELSE 500)
  BY <1>2 DEF ToAppError, KnownStatus, Error
<1>4. d \in BOOLEAN /\ (n >= 500 => ~d)
  BY <1>3
<1>. HIDE DEF d, n
<1>5. /\ r \in RequestRecord /\ r.pc = "answered" /\ r.route = http.route
      /\ r.guards = http.guards /\ r.method = http.method /\ r.path = http.path
      /\ r.served = http.served /\ r.error = http.error /\ r.form = http.form
      /\ r.status = n /\ r.data = d /\ r.credential = http.credential
      /\ r.user = http.user
  <2>1. http \in RequestRecord /\ n \in Nat /\ d \in BOOLEAN
    BY <1>1, <1>3, <1>4
  <2>. QED  BY ONLY <2>1 DEF RequestRecord
<1>. HIDE DEF r
<1>6. Found(r) /\ (Known(http) => Known(r))
  BY <1>1, <1>5 DEF Found, Known
<1>7. OnItsWay(r)
  BY <1>1, <1>3, <1>4, <1>5, <1>6 DEF OnItsWay
<1>. QED  BY <1>1, <1>5, <1>6, <1>7, NextStand

(* All steps together.                                                     *)
LEMMA HttpMoves == HttpInv /\ [HttpNext]_httpVars => HttpInv'
<1>. SUFFICES ASSUME HttpInv, [HttpNext]_httpVars PROVE HttpInv'
  OBVIOUS
<1>1. CASE Boot
  BY <1>1 DEF Boot, HttpInv, Found, OnItsWay, GuardsAreSound, Known
<1>2. CASE UNCHANGED httpVars
  BY <1>2 DEF httpVars, HttpInv, Found, OnItsWay, GuardsAreSound, Known
<1>. QED
  BY <1>1, <1>2, ReceiveKeeps, ParseKeeps, FindKeeps, UserKeeps, KeyKeeps, FilesKeep,
     EnterKeeps, HandleKeeps, AnswerKeeps DEF HttpNext

(* The invariant implies what is asked of the routing, part by part.       *)
LEMMA LiteralIsFirst == HttpInv => LiteralFirst
<1>. SUFFICES ASSUME HttpInv, http.route # 0, NEW k \in RoutesFor(http.method, http.path),
                     \A i \in DOMAIN Routes[http.route].path :
                       Routes[k].path[i] = ":" => Routes[http.route].path[i] = ":"
              PROVE  Routes[k].path = Routes[http.route].path
  BY DEF LiteralFirst
<1>. DEFINE m == http.method
            p == http.path
            t == http.route
<1>1. t \in RoutesFor(m, p) /\ k \in RoutesFor(m, p) /\ t <= k /\ p \in Seq(AskedWords)
  BY DEF HttpInv, Found, RequestRecord
<1>2. \A i \in DOMAIN Routes[t].path : Routes[k].path[i] = ":" => Routes[t].path[i] = ":"
  OBVIOUS
<1>. HIDE DEF m, p, t
<1>3. Routes[k].path = Routes[t].path
  BY <1>1, <1>2, FirstIsLiteral
<1>. QED  BY <1>3 DEF t

(* A service is called for a caller who is known only.                     *)
LEMMA CallersAreKnown == HttpInv => CallerIsKnown
<1>. SUFFICES ASSUME HttpInv PROVE CallerIsKnown
  OBVIOUS
<1>1. http \in RequestRecord /\ Found(http) /\ OnItsWay(http)
  BY DEF HttpInv
<1>2. ASSUME http.served
      PROVE  LET route == Routes[http.route] IN
             /\ route.handler.user => http.user
             /\ http.path[1] = "admin" \/ route.path = <<"api", "v1", "estimate", "sms">> =>
                  http.credential = "right"
             /\ ":" \in {route.path[i] : i \in DOMAIN route.path} => http.form = "right"
  <2>1. /\ http.route # 0 /\ Known(http)
        /\ Routes[http.route].handler.checks => http.form = "right"
    BY <1>1, <1>2 DEF OnItsWay
  <2>2. Routes[http.route] \in TopRoute
    BY <1>1, <2>1, FoundIsSound
  <2>3. http.route \in RoutesFor(http.method, http.path)
    BY <1>1, <2>1 DEF Found
  <2>4. PICK route : route = Routes[http.route]
    OBVIOUS
  <2>5. /\ route.handler.user => route.guards \in UserGuards
        /\ (\E i \in DOMAIN route.path : route.path[i] = ":") => route.handler.checks
        /\ 1 \in DOMAIN route.path /\ route.path[1] # ":" /\ route.path \in Seq(Words)
        /\ route.path[1] = "admin" \/ route.path = <<"api", "v1", "estimate", "sms">>
             => route.guards \in KeyGuards
    BY <2>2, <2>4 DEF TopRoute, SoundRoute
  <2>6. http.path \in Seq(AskedWords) /\ Matches(http.path, route.path)
    BY <1>1, <2>3, <2>4 DEF RoutesFor, RequestRecord
  <2>7. http.path[1] = route.path[1]
    <3>. DEFINE p == http.path
                q == route.path
    <3>1. DOMAIN q = 1..Len(q) /\ DOMAIN p = 1..Len(p) /\ Len(p) = Len(q)
      BY <2>5, <2>6, LengthsAdd DEF Matches
    <3>2. 1 \in DOMAIN p
      BY <2>5, <3>1
    <3>. QED  BY <2>5, <2>6, <3>2 DEF Matches
  <2>8. route.guards \in UserGuards => http.user
    BY <2>1, <2>4 DEF Known
  <2>9. route.guards \in KeyGuards => http.credential = "right"
    BY <2>1, <2>4 DEF Known
  <2>10. route.handler.user => http.user
    BY <2>5, <2>8
  <2>11. http.path[1] = "admin" \/ route.path = <<"api", "v1", "estimate", "sms">> =>
           http.credential = "right"
    BY <2>5, <2>7, <2>9
  <2>12. ":" \in {route.path[i] : i \in DOMAIN route.path} => http.form = "right"
    BY <2>1, <2>4, <2>5
  <2>. QED  BY <2>4, <2>10, <2>11, <2>12
<1>3. http.pc = "guard" /\ http.guards = <<"upload">> => http.user
  <2>. SUFFICES ASSUME http.pc = "guard", http.guards = <<"upload">> PROVE http.user
    OBVIOUS
  <2>1. http.route # 0 /\ GuardsAreSound(http)
    BY <1>1 DEF OnItsWay
  <2>2. Routes[http.route].guards \in {<<>>} \union UserGuards \union KeyGuards
    BY <1>1, <2>1, FoundIsSound
  <2>3. <<"upload">> \notin {<<>>} \union UserGuards \union KeyGuards
    BY GuardLists DEF UserGuards
  <2>4. <<"upload">> # <<>>
    BY GuardLists
  <2>. QED  BY <2>1, <2>2, <2>3, <2>4 DEF GuardsAreSound
<1>. QED  BY <1>2, <1>3 DEF CallerIsKnown

(* All that is promised of the routing, and the types.                     *)
LEMMA RoutedWell == HttpInv => HttpTypeOK /\ RequestsAreRouted
<1>. SUFFICES ASSUME HttpInv PROVE HttpTypeOK /\ RequestsAreRouted
  OBVIOUS
<1>1. RightTokenPasses /\ ErrorsTellNothing
  BY DEF HttpInv, OnItsWay, RightTokenPasses, ErrorsTellNothing
<1>2. DOMAIN Routes = 1..Len(Routes) /\ Len(Routes) \in Nat
  BY RoutesAreSound
<1>3. HttpTypeOK
  BY <1>2 DEF HttpInv, OnItsWay, RequestRecord, Credentials, HttpTypeOK
<1>. QED  BY <1>1, <1>3, LiteralIsFirst, CallersAreKnown DEF RequestsAreRouted

(* A request finds the route that names its path literally, its handler    *)
(* serves only a caller who has shown who they are, a right token is never *)
(* refused, and an error tells nothing: v1.router.ts, the guards and the   *)
(* error handler, for every request and every order of them.               *)
THEOREM RequestsFindTheirWay == HttpSpec => []RequestsAreRouted
<1>. QED  BY HttpStart, HttpMoves, RoutedWell, PTL DEF HttpSpec

-----------------------------------------------------------------------------
(***************************************************************************)
(* The parts of MCSystem together.                                         *)
(***************************************************************************)

(* Logins keep their types.                                                *)
THEOREM LoginsTyped == LoginSpec => []LoginTypeOK
<1>1. LoginInv => LoginTypeOK
  BY DEF LoginInv
<1>. QED  BY <1>1, LoginStart, LoginMoves, PTL DEF LoginSpec

(* A request on its way keeps its type.                                    *)
THEOREM RequestsTyped == HttpSpec => []HttpTypeOK
<1>1. Len(Routes) \in Nat /\ DOMAIN Routes = 1..Len(Routes)
  BY RoutesAreSound
<1>2. ASSUME HttpInv PROVE HttpTypeOK
  <2>1. http.route \in 0..Len(Routes)
    BY <1>1, <1>2 DEF HttpInv, RequestRecord
  <2>2. (http.status = 0) <=> (http.pc # "answered")
    BY <1>2 DEF HttpInv, OnItsWay
  <2>. QED  BY <1>2, <2>1, <2>2 DEF HttpInv, HttpTypeOK, RequestRecord, Credentials
<1>. QED  BY <1>2, HttpStart, HttpMoves, PTL DEF HttpSpec

(* A run of all the parts is a run of each of them.                        *)
LEMMA SystemIsItsParts ==
  MCSpec =>
    /\ ReviewSpec /\ DesignSpec /\ WishSpec /\ SyncSpec /\ ListSpec /\ ImageSpec
    /\ MatchingSpec /\ LoginSpec /\ HttpSpec
<1>1. MCInit =>
        /\ ReviewInit /\ DesignInit /\ WishInit /\ SyncInit /\ ListInit /\ ImageInit
        /\ MatchingInit /\ LoginInit /\ HttpInit
  BY DEF MCInit
<1>2. [MCNext]_MCVars =>
        /\ [ReviewNext]_reviewVars /\ [DesignNext]_designVars /\ [WishNext]_wishVars
        /\ [SyncNext]_syncVars /\ [ListNext]_listVars /\ [ImageNext]_imageVars
        /\ [MatchingNext]_matchingVars /\ [LoginNext]_loginVars /\ [HttpNext]_httpVars
  BY Zenon DEF MCNext, MCVars
<1>. QED
  BY <1>1, <1>2, PTL
  DEF MCSpec, ReviewSpec, DesignSpec, WishSpec, SyncSpec, ListSpec, ImageSpec, MatchingSpec,
      LoginSpec, HttpSpec

(* Every part keeps its types, whatever shops, calls, pages and bounds     *)
(* there are.                                                              *)
THEOREM SystemTyped == MCSpec => []SystemTypeOK
  BY SystemIsItsParts, RatingsTyped, DesignsTyped, HeartsTyped, SyncsTyped, ListsTyped,
     ImagesTyped, SearchesAreTyped, LoginsTyped, RequestsTyped, PTL DEF SystemTypeOK
=============================================================================
