------------------------------ MODULE Outbound ------------------------------
(***************************************************************************)
(* Calls to other services and the timers that end them: the parser        *)
(* (OpenAiEstimateResponseParser), the two social logins (KakaoAuthClient, *)
(* NaverAuthClient), the shops' data (HttpSbizShopClient) and text         *)
(* messages (SolapiTextSmsClient).  What a call is made for is in          *)
(* EstimateResponse, Account, ShopSync and Reminder, which take its end    *)
(* for granted; that it ends is the subject here.                          *)
(*                                                                         *)
(* The service may answer late, with an error, with half an answer, or     *)
(* never.                                                                  *)
(***************************************************************************)
EXTENDS Integers

CONSTANTS
  Callers    \* calls

VARIABLES
  caller     \* caller[c]: where call c stands

outboundVars == <<caller>>

-----------------------------------------------------------------------------
Services == {"openai", "kakao", "naver", "sbiz", "sms"}

(* MAX_OPENAI_ATTEMPTS; the other clients try once. *)
MaxAttempts(service) == IF service = "openai" THEN 3 ELSE 1

(* fetchProfile asks for a token, and with it for the profile. *)
Stages(service) == IF service \in {"kakao", "naver"} THEN 2 ELSE 1

(* The fetches a call makes, and their timers, are numbered.               *)
(* pc: "headers" waits for fetch, "body" for response.json(), "backoff"    *)
(* for the next attempt.  timers: the timeouts that are running.           *)
CallRecord ==
  [service : Services, pc : {"idle", "headers", "body", "backoff", "ended"},
   fetch : 0..3, timers : SUBSET (1..3), result : {"none", "value", "error"}]

OutboundTypeOK ==
  /\ caller \in [Callers -> CallRecord]
  /\ \A c \in Callers :
       LET r == caller[c] IN
       /\ r.fetch <= MaxAttempts(r.service) * Stages(r.service)
       /\ (r.result = "none") <=> (r.pc # "ended")

NoCallYet ==
  [service |-> "sms", pc |-> "idle", fetch |-> 0, timers |-> {}, result |-> "none"]

OutboundInit == caller = [c \in Callers |-> NoCallYet]

-----------------------------------------------------------------------------
CallTo(c, r) == caller' = [caller EXCEPT ![c] = r]

(* The next fetch of r, with a controller and a timer of its own. *)
Fetching(r) ==
  [r EXCEPT !.pc = "headers", !.fetch = @ + 1, !.timers = @ \union {r.fetch + 1}]

(* finally { clearTimeout }; the race of withTimeout has none. *)
Cleared(r) == IF r.service = "sms" THEN r ELSE [r EXCEPT !.timers = {}]

Ended(r, result) == Cleared([r EXCEPT !.pc = "ended", !.result = result])

(* A call, or the next one of c.  Without its configuration it fails at    *)
(* once; text messages that are switched off count as sent.                *)
BeginOutbound(c, service) ==
  LET r == [NoCallYet EXCEPT !.service = service] IN
  /\ caller[c].pc \in {"idle", "ended"} /\ caller[c].timers = {}
  /\ \/ CallTo(c, Fetching(r))
     \/ CallTo(c, Ended(r, IF service = "sms" THEN "value" ELSE "error"))

(* Variant: the timer is cleared as soon as the headers are there. *)
ReadBodyUntimed(c) ==
  LET r == caller[c] IN
  /\ r.pc = "headers" /\ r.service # "sms"
  /\ CallTo(c, [r EXCEPT !.pc = "body", !.timers = {}])

(* The headers arrive and say all is well; sbiz clears its timer with them. *)
ReadBody(c) ==
  LET r == caller[c] IN
  /\ r.pc = "headers" /\ r.service # "sms"
  /\ CallTo(c, [r EXCEPT !.pc = "body",
                         !.timers = IF r.service = "sbiz" THEN {} ELSE @])

(* An error status.  The parser's call is tried again if the service is    *)
(* busy (429 or 5xx) and attempts are left.                                *)
Refused(c, busy) ==
  LET r == caller[c] IN
  /\ r.pc = "headers"
  /\ IF busy /\ r.fetch < MaxAttempts(r.service) THEN CallTo(c, [r EXCEPT !.pc = "backoff"])
     ELSE CallTo(c, Ended(r, "error"))

(* Variant: the timer of the attempt before runs on. *)
RetryUncleared(c) ==
  LET r == caller[c] IN
  /\ r.pc = "backoff"
  /\ CallTo(c, Fetching(r))

(* wait is over, and finally clears the timer of the attempt before. *)
Retry(c) ==
  LET r == caller[c] IN
  /\ r.pc = "backoff"
  /\ CallTo(c, Fetching(Cleared(r)))

(* The body is complete and says what was asked for, or it does not.  With *)
(* a token, the profile comes next.                                        *)
EndBody(c, valid) ==
  LET r == caller[c] IN
  /\ r.pc = "body"
  /\ CallTo(c, IF ~valid THEN Ended(r, "error")
               ELSE IF r.fetch < Stages(r.service) THEN Fetching(Cleared(r))
               ELSE Ended(r, "value"))

(* The message is accepted. *)
Sent(c) ==
  LET r == caller[c] IN
  /\ r.pc = "headers" /\ r.service = "sms"
  /\ CallTo(c, Ended(r, "value"))

(* The connection breaks: no client tries again. *)
NetworkError(c) ==
  LET r == caller[c] IN
  /\ r.pc \in {"headers", "body"}
  /\ CallTo(c, Ended(r, "error"))

(* Timer k fires.  It aborts the fetch it was set for, or the body of its  *)
(* answer; during a backoff, or after the race is won, it aborts nothing.  *)
TimerFires(c, k) ==
  LET r == caller[c]
      rest == [r EXCEPT !.timers = @ \ {k}]
  IN /\ k \in r.timers
     /\ CallTo(c, IF r.pc \in {"headers", "body"} THEN Ended(rest, "error") ELSE rest)

OutboundNext ==
  \E c \in Callers :
    \/ \E service \in Services : BeginOutbound(c, service)
    \/ ReadBody(c) \/ \E busy \in BOOLEAN : Refused(c, busy)
    \/ Retry(c) \/ \E valid \in BOOLEAN : EndBody(c, valid)
    \/ Sent(c) \/ NetworkError(c)
    \/ \E k \in 1..3 : TimerFires(c, k)

(* The runtime fires a timer that is due; the services owe nothing. *)
OutboundFairness ==
  \A c \in Callers :
    /\ WF_outboundVars(\E k \in 1..3 : TimerFires(c, k))
    /\ WF_outboundVars(Retry(c))

OutboundSpec == OutboundInit /\ [][OutboundNext]_outboundVars /\ OutboundFairness

-----------------------------------------------------------------------------
(* A call never hangs on, or is cut short by, the timer of another fetch:   *)
(* while it waits, the one timer is that of the fetch it waits for, and    *)
(* none is left behind but that of a message that was sent in time         *)
(* (sms.client.ts:10-17).  The rest of a page of shops is read without one *)
(* (sbiz-shop.client.ts:92-101), which the comment at                      *)
(* kakao-auth.client.ts:8-11 says must not be.                             *)
OwnTimerRuns ==
  \A c \in Callers :
    LET r == caller[c] IN
    /\ r.pc = "headers" => r.timers = {r.fetch}
    /\ r.pc = "body" => r.timers = IF r.service = "sbiz" THEN {} ELSE {r.fetch}
    /\ r.pc = "ended" /\ r.service # "sms" => r.timers = {}

(* Every call ends, whatever the service does, but one: that for a page of *)
(* shops may wait for the rest of the page for ever.                       *)
OutboundEnds ==
  \A c \in Callers :
    caller[c].pc = "headers"
      ~> caller[c].pc = "ended" \/ (caller[c].service = "sbiz" /\ caller[c].pc = "body")
=============================================================================
