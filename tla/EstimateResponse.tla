--------------------------- MODULE EstimateResponse ---------------------------
(***************************************************************************)
(* Shops answer estimate requests by SMS.  A relay phone posts each SMS to *)
(* the webhook (EstimateResponseService.createSmsMessage), which stores    *)
(* and links it to a request, and then, without waiting, parses it with an *)
(* AI service and saves an estimate response with its proposed times       *)
(* (processSmsMessage, saveParsedEstimateResponse).                        *)
(*                                                                         *)
(* One webhook call and the parsing it starts are one process.  Every      *)
(* await suspends it.  A transaction reads from the snapshot of its first  *)
(* read (REPEATABLE READ) and writes to the current rows; its writes are   *)
(* one step, because from its first write on it holds the row locks that   *)
(* everybody else who writes these rows waits for.                         *)
(*                                                                         *)
(* The rows of shop_proposal_times of a response are two sets of times,    *)
(* the selected and the others: their ids matter to nobody here.           *)
(*                                                                         *)
(* A "Variant" states a plausible bug in the operation that follows it; no *)
(* specification uses it (README.md, section Variants).                    *)
(***************************************************************************)
EXTENDS Naturals, Sequences, FiniteSets

CONSTANTS
  Requests,    \* estimate requests
  Shops,
  Messages,    \* inbound SMS, by (source, messageId)
  Sender,      \* Sender[m]: the shop whose number sent m
  Deliveries,  \* webhook calls, each with the parsing it starts
  Times,       \* date-times a shop can propose
  Offers,      \* what the AI can read out of the texts, times already filtered
  MaxSent,     \* bound on the number of SMS sent to shops
  None         \* SQL NULL / nothing

ASSUME SenderAssumption == Sender \in [Messages -> Shops]
ASSUME OffersAssumption ==
  Offers \subseteq [can: BOOLEAN, price: Nat \union {None}, times: SUBSET Times]
ASSUME MaxSentAssumption == MaxSent \in Nat
ASSUME NoneAssumption == None \notin Requests \union Shops \union Messages \union Nat

VARIABLES
  sent,        \* the SMS sent to shops, oldest first: <<request, shop>>
  expired,     \* requests that are EXPIRED; the others are MATCHING
  received,    \* received[m]: how many SMS had been sent when m arrived
  sms,         \* sms[m]: row of sms_messages
  response,    \* response[k]: row of estimate_responses, k = <<request, shop>>
  selected,    \* selected[k]: its proposed times with is_selected
  open,        \* open[k]: its proposed times without
  processing,  \* processingSmsMessageIds, in the server's memory
  delivery,    \* delivery[d]: where a webhook call and its parsing stand
  notices      \* notification rows about estimates

tables == <<sms, response, selected, open>>
world == <<sent, expired>>
vars == <<world, received, tables, processing, delivery, notices>>

-----------------------------------------------------------------------------
(* Types *)

Keys == Requests \X Shops

SmsRow ==
  [status: {"none", "PENDING", "PARSED", "FAILED"},
   request: Requests \union {None}, shop: Shops \union {None},
   counted: BOOLEAN]   \* estimate_response_id is set

ResponseRow ==
  [status: {"none", "SUBMITTED", "REJECTED", "ACCEPTED"},
   price: Nat \union {None},
   texts: SUBSET Messages]  \* the texts its content was read from

Point ==
  {"idle", "link", "dispatch", "context", "parse", "wait", "lowest", "begin",
   "save", "notify", "fail", "done"}

Outcome ==
  {"none", "skipped", "error", "waiting", "saved", "failed", "lost"}

NoOffer == [can |-> FALSE, price |-> None, times |-> {}]

DeliveryRecord ==
  [pc: Point, outcome: Outcome, msg: Messages \union {None},
   fresh: BOOLEAN,          \* the message had no row in the snapshot
   row: SmsRow,             \* what the webhook's transaction writes, returns
   texts: SUBSET Messages,  \* what the AI was given
   offer: Offers \union {NoOffer},
   prior: Nat \union {None},
   seen: [row: BOOLEAN, accepted: BOOLEAN, selected: SUBSET Times]]

Notice ==
  [type: {"LOWER_ESTIMATE", "ESTIMATE_RESPONSE"}, key: Keys, from: Deliveries]

TypeOK ==
  /\ sent \in Seq(Keys)
  /\ expired \in SUBSET Requests
  /\ received \in [Messages -> Nat \union {None}]
  /\ sms \in [Messages -> SmsRow]
  /\ response \in [Keys -> ResponseRow]
  /\ selected \in [Keys -> SUBSET Times]
  /\ open \in [Keys -> SUBSET Times]
  /\ processing \in SUBSET Messages
  /\ delivery \in [Deliveries -> DeliveryRecord]
  /\ notices \in SUBSET Notice

-----------------------------------------------------------------------------
(* Rows *)

NoRow == [status |-> "none", request |-> None, shop |-> None, counted |-> FALSE]

NoSnapshot == [row |-> FALSE, accepted |-> FALSE, selected |-> {}]

NewDelivery ==
  [pc |-> "idle", outcome |-> "none", msg |-> None, fresh |-> FALSE,
   row |-> NoRow, texts |-> {}, offer |-> NoOffer, prior |-> None,
   seen |-> NoSnapshot]

Linked(row) == row.request # None /\ row.shop # None

KeyOf(d) == <<delivery[d].row.request, delivery[d].row.shop>>

Exists(k) == response[k].status # "none"

(* A price a user can take: SUBMITTED or ACCEPTED and not null. *)
Offered(k) == response[k].status \in {"SUBMITTED", "ACCEPTED"} /\ response[k].price # None

(* Variant: the minimum of nothing is a number below every price. *)
LowestOfNothing(prices) ==
  IF prices = {} THEN 0 - 1
  ELSE CHOOSE p \in prices : \A q \in prices : p <= q

(* findLowestOfferedPrice: null if nothing was offered. *)
LowestOf(prices) ==
  IF prices = {} THEN None ELSE CHOOSE p \in prices : \A q \in prices : p <= q

LowestOffered(r) == LowestOf({response[k].price : k \in {l \in Keys : l[1] = r /\ Offered(l)}})

Init ==
  /\ sent = <<>>
  /\ expired = {}
  /\ received = [m \in Messages |-> None]
  /\ sms = [m \in Messages |-> NoRow]
  /\ response = [k \in Keys |-> [status |-> "none", price |-> None, texts |-> {}]]
  /\ selected = [k \in Keys |-> {}]
  /\ open = [k \in Keys |-> {}]
  /\ processing = {}
  /\ delivery = [d \in Deliveries |-> NewDelivery]
  /\ notices = {}

-----------------------------------------------------------------------------
(* The webhook: createSmsMessage *)

(* The newest SMS sent to shop s up to position i about a request that is  *)
(* still MATCHING names the request the answer belongs to.                 *)
LinkTarget(s, i) ==
  LET candidates == {j \in 1..Len(sent) :
                       j <= i /\ sent[j][2] = s /\ sent[j][1] \notin expired}
  IN  IF candidates = {} THEN None
      ELSE sent[CHOOSE j \in candidates : \A l \in candidates : l <= j][1]

(* The transaction's reads, all from one snapshot: the message, the shop   *)
(* (an inactive one is not found) and the SMS that was sent.  A linked     *)
(* message is returned as it is.                                           *)
BeginDelivery(d, m, s, i) ==
  LET r == LinkTarget(s, i) IN
  /\ delivery[d].pc = "idle"
  /\ i = received[m] \/ received[m] = None
  /\ received' = [received EXCEPT ![m] = i]
  /\ delivery' = [delivery EXCEPT ![d] =
       [NewDelivery EXCEPT
          !.pc = IF Linked(sms[m]) THEN "dispatch" ELSE "link",
          !.msg = m,
          !.fresh = sms[m].status = "none",
          !.row = IF Linked(sms[m]) THEN sms[m]
                  ELSE [NoRow EXCEPT
                          !.status = IF s = None \/ r = None THEN "FAILED" ELSE "PENDING",
                          !.request = IF s = None THEN None ELSE r,
                          !.shop = s]]]
  /\ UNCHANGED <<world, tables, processing, notices>>

(* INSERT and/or UPDATE of the message, commit.  Two first deliveries of   *)
(* one message both INSERT: the second violates the unique key and its     *)
(* call is answered 500.  An UPDATE writes over what was linked meanwhile; *)
(* the columns it does not set keep their value.                           *)
CommitLink(d) ==
  LET m == delivery[d].msg
      new == delivery[d].row
      old == sms[m]
      row == [status |-> new.status,
              request |-> IF new.request = None THEN old.request ELSE new.request,
              shop |-> IF new.shop = None THEN old.shop ELSE new.shop,
              counted |-> old.counted]
  IN
  /\ delivery[d].pc = "link"
  /\ \/ /\ delivery[d].fresh => old.status = "none"
        /\ sms' = [sms EXCEPT ![m] = row]
        /\ delivery' = [delivery EXCEPT ![d].pc = "dispatch", ![d].row = row]
     \/ /\ delivery[d].fresh /\ old.status # "none"
        /\ delivery' = [delivery EXCEPT ![d].pc = "done", ![d].outcome = "error"]
        /\ UNCHANGED sms
  /\ UNCHANGED <<world, received, response, selected, open, processing, notices>>

(* The database refuses the transaction: rolled back, answered 500. *)
RefuseDelivery(d) ==
  /\ delivery[d].pc = "link"
  /\ delivery' = [delivery EXCEPT ![d].pc = "done", ![d].outcome = "error"]
  /\ UNCHANGED <<world, received, tables, processing, notices>>

(* Variant: no set of messages being processed. *)
DispatchAlways(d) ==
  LET row == delivery[d].row IN
  /\ delivery[d].pc = "dispatch"
  /\ \/ /\ Linked(row) /\ row.status = "PENDING"
        /\ processing' = processing \union {delivery[d].msg}
        /\ delivery' = [delivery EXCEPT ![d].pc = "context"]
     \/ /\ ~(Linked(row) /\ row.status = "PENDING")
        /\ delivery' = [delivery EXCEPT ![d].pc = "done", ![d].outcome = "skipped"]
        /\ UNCHANGED processing
  /\ UNCHANGED <<world, received, tables, notices>>

(* Variant: only a message stored for the first time is parsed. *)
DispatchFresh(d) ==
  LET row == delivery[d].row
      start == Linked(row) /\ row.status = "PENDING" /\ delivery[d].fresh
  IN
  /\ delivery[d].pc = "dispatch"
  /\ processing' = IF start THEN processing \union {delivery[d].msg} ELSE processing
  /\ delivery' = [delivery EXCEPT
       ![d].pc = IF start THEN "context" ELSE "done",
       ![d].outcome = IF start THEN "none" ELSE "skipped"]
  /\ UNCHANGED <<world, received, tables, notices>>

(* Back in the handler: the 202 is sent, and a linked message that waits   *)
(* for parsing is handed over unless this server is already parsing it.    *)
Dispatch(d) ==
  LET row == delivery[d].row
      start == /\ Linked(row)
               /\ row.status = "PENDING"
               /\ delivery[d].msg \notin processing
  IN
  /\ delivery[d].pc = "dispatch"
  /\ \/ /\ start
        /\ processing' = processing \union {delivery[d].msg}
        /\ delivery' = [delivery EXCEPT ![d].pc = "context"]
     \/ /\ ~start
        /\ delivery' = [delivery EXCEPT ![d].pc = "done", ![d].outcome = "skipped"]
        /\ UNCHANGED processing
  /\ UNCHANGED <<world, received, tables, notices>>

-----------------------------------------------------------------------------
(* The parsing: processSmsMessage *)

GoTo(d, pc) == delivery' = [delivery EXCEPT ![d].pc = pc]

(* The promise settled: .finally frees the message.  Of the locals what    *)
(* was saved stays on record, for NoticesTruthful.                         *)
Finish(d, outcome) ==
  /\ delivery' = [delivery EXCEPT ![d] =
       [NewDelivery EXCEPT !.pc = "done", !.outcome = outcome,
                           !.msg = delivery[d].msg, !.row = delivery[d].row,
                           !.offer = IF outcome = "saved" THEN delivery[d].offer ELSE @]]
  /\ processing' = processing \ {delivery[d].msg}

(* Variant: the texts of every shop that answered the request. *)
ReadContextAnyShop(d) ==
  /\ delivery[d].pc = "context"
  /\ delivery' = [delivery EXCEPT
       ![d].pc = "parse",
       ![d].texts = {m \in Messages : sms[m].request = delivery[d].row.request}]
  /\ UNCHANGED <<world, received, tables, processing, notices>>

(* findSmsParsingContext: what this shop has sent about this request.      *)
(* (Of more than 20 texts the newest; requests are never deleted.)         *)
ReadContext(d) ==
  /\ delivery[d].pc = "context"
  /\ delivery' = [delivery EXCEPT
       ![d].pc = "parse",
       ![d].texts = {m \in Messages :
                       <<sms[m].request, sms[m].shop>> = KeyOf(d)}]
  /\ UNCHANGED <<world, received, tables, processing, notices>>

(* The AI answers, after at most three attempts.  A shop that can do it    *)
(* but gave no price or no usable time is asked to wait for more texts.    *)
Parse(d, o) ==
  /\ delivery[d].pc = "parse"
  /\ delivery' = [delivery EXCEPT
       ![d].pc = IF o.can /\ (o.price = None \/ o.times = {}) THEN "wait" ELSE "lowest",
       ![d].offer = o]
  /\ UNCHANGED <<world, received, tables, processing, notices>>

(* updateSmsMessageStatus(PENDING), whatever the status has become. *)
WaitForMore(d) ==
  /\ delivery[d].pc = "wait"
  /\ sms' = [sms EXCEPT ![delivery[d].msg].status = "PENDING"]
  /\ Finish(d, "waiting")
  /\ UNCHANGED <<world, received, response, selected, open, notices>>

(* findLowestOfferedPrice, before and outside the transaction. *)
ReadLowest(d) ==
  /\ delivery[d].pc = "lowest"
  /\ delivery' = [delivery EXCEPT
       ![d].pc = "begin",
       ![d].prior = LowestOffered(delivery[d].row.request)]
  /\ UNCHANGED <<world, received, tables, processing, notices>>

(* saveParsedEstimateResponse: its first read fixes the snapshot that the  *)
(* status, the upsert's own lookup and the selected times are read from.   *)
BeginSave(d) ==
  LET k == KeyOf(d) IN
  /\ delivery[d].pc = "begin"
  /\ delivery' = [delivery EXCEPT
       ![d].pc = "save",
       ![d].seen = [row |-> Exists(k),
                    accepted |-> response[k].status = "ACCEPTED",
                    selected |-> selected[k]]]
  /\ UNCHANGED <<world, received, tables, processing, notices>>

(* The row the upsert writes. *)
SavedRow(d) ==
  LET o == delivery[d].offer IN
  [status |-> IF delivery[d].seen.accepted THEN "ACCEPTED"
              ELSE IF o.can THEN "SUBMITTED" ELSE "REJECTED",
   price |-> o.price,
   texts |-> delivery[d].texts]

(* The messages of the pair, all of them, are counted as parsed. *)
CountMessages(k) ==
  sms' = [m \in Messages |->
            IF <<sms[m].request, sms[m].shop>> = k
            THEN [sms[m] EXCEPT !.status = "PARSED", !.counted = TRUE]
            ELSE sms[m]]

(* Variant: all proposed times are replaced. *)
SaveReplacingAll(d) ==
  LET k == KeyOf(d) IN
  /\ delivery[d].pc = "save"
  /\ response' = [response EXCEPT ![k] = SavedRow(d)]
  /\ open' = [open EXCEPT ![k] = delivery[d].offer.times]
  /\ selected' = [selected EXCEPT ![k] = {}]
  /\ CountMessages(k)
  /\ GoTo(d, "notify")
  /\ UNCHANGED <<world, received, processing, notices>>

(* Variant: the messages are marked outside the transaction, first. *)
SaveMarksFirst(d) ==
  LET k == KeyOf(d) IN
  /\ delivery[d].pc = "save"
  /\ CountMessages(k)
  /\ IF ~delivery[d].seen.row /\ Exists(k)
     THEN /\ GoTo(d, "fail")
          /\ UNCHANGED <<response, open>>
     ELSE \/ /\ response' = [response EXCEPT ![k] = SavedRow(d)]
             /\ open' = [open EXCEPT ![k] =
                  delivery[d].offer.times \ delivery[d].seen.selected]
             /\ GoTo(d, "notify")
          \/ /\ GoTo(d, "fail")
             /\ UNCHANGED <<response, open>>
  /\ UNCHANGED <<world, received, selected, processing, notices>>

(* The writes and the commit.  If the snapshot had no row, the upsert is   *)
(* an INSERT, which fails if the row was inserted meanwhile.               *)
Save(d) ==
  LET k == KeyOf(d) IN
  /\ delivery[d].pc = "save"
  /\ \/ /\ Exists(k) => delivery[d].seen.row
        /\ response' = [response EXCEPT ![k] = SavedRow(d)]
        /\ open' = [open EXCEPT ![k] =
             delivery[d].offer.times \ delivery[d].seen.selected]
        /\ CountMessages(k)
        /\ GoTo(d, "notify")
     \/ /\ Exists(k) /\ ~delivery[d].seen.row
        /\ GoTo(d, "fail")
        /\ UNCHANGED <<response, open, sms>>
  /\ UNCHANGED <<world, received, selected, processing, notices>>

(* Variant: the first price of a request counts as lower than none. *)
IsNewLowestOrFirst(d) ==
  /\ delivery[d].offer.price # None
  /\ \/ delivery[d].prior = None
     \/ delivery[d].offer.price < delivery[d].prior

IsNewLowest(d) ==
  /\ delivery[d].offer.price # None
  /\ delivery[d].prior # None
  /\ delivery[d].offer.price < delivery[d].prior

(* The requester is told; a failure of that changes nothing else. *)
Notify(d) ==
  /\ delivery[d].pc = "notify"
  /\ \/ notices' = notices \union
          {[type |-> IF IsNewLowest(d) THEN "LOWER_ESTIMATE" ELSE "ESTIMATE_RESPONSE",
            key |-> KeyOf(d), from |-> d]}
     \/ UNCHANGED notices
  /\ Finish(d, "saved")
  /\ UNCHANGED <<world, received, tables>>

(* Any await of the try block may throw: the AI gives up, the database     *)
(* refuses, a transaction times out and is rolled back.                    *)
Throw(d) ==
  /\ delivery[d].pc \in {"context", "parse", "wait", "lowest", "begin", "save"}
  /\ GoTo(d, "fail")
  /\ UNCHANGED <<world, received, tables, processing, notices>>

(* Variant: when even the failure cannot be written the set keeps the id. *)
MarkFailedLeaks(d) ==
  /\ delivery[d].pc = "fail"
  /\ \/ /\ sms' = [sms EXCEPT ![delivery[d].msg].status = "FAILED"]
        /\ Finish(d, "failed")
     \/ /\ delivery' = [delivery EXCEPT ![d].pc = "done", ![d].outcome = "failed"]
        /\ UNCHANGED <<sms, processing>>
  /\ UNCHANGED <<world, received, response, selected, open, notices>>

(* The catch block: updateSmsMessageStatus(FAILED), whatever the status    *)
(* has become; if that fails as well it is only logged.                    *)
MarkFailed(d) ==
  /\ delivery[d].pc = "fail"
  /\ \/ sms' = [sms EXCEPT ![delivery[d].msg].status = "FAILED"]
     \/ UNCHANGED sms
  /\ Finish(d, "failed")
  /\ UNCHANGED <<world, received, response, selected, open, notices>>

DeliveryStep(d) ==
  \/ CommitLink(d) \/ RefuseDelivery(d) \/ Dispatch(d) \/ ReadContext(d)
  \/ \E o \in Offers : Parse(d, o)
  \/ WaitForMore(d) \/ ReadLowest(d) \/ BeginSave(d) \/ Save(d) \/ Notify(d)
  \/ Throw(d) \/ MarkFailed(d)

-----------------------------------------------------------------------------
(* The environment *)

(* An SMS about request r goes to shop s and is recorded.  No code under   *)
(* src/ writes OUTBOUND rows of sms_messages, though linking reads them.   *)
SendOutbound(r, s) ==
  /\ Len(sent) < MaxSent
  /\ r \notin expired
  /\ sent' = Append(sent, <<r, s>>)
  /\ UNCHANGED <<expired, received, tables, processing, delivery, notices>>

(* The expiry scheduler closes a request. *)
Expire(r) ==
  /\ r \notin expired
  /\ \E j \in 1..Len(sent) : sent[j][1] = r
  /\ expired' = expired \union {r}
  /\ UNCHANGED <<sent, received, tables, processing, delivery, notices>>

(* A reservation of response k commits with time t (Reservation.tla). *)
SelectTime(k, t) ==
  /\ t \in open[k]
  /\ open' = [open EXCEPT ![k] = @ \ {t}]
  /\ selected' = [selected EXCEPT ![k] = @ \union {t}]
  /\ UNCHANGED <<world, received, sms, response, processing, delivery, notices>>

(* No code under src/ sets ACCEPTED, though saving and the lists read it.  *)
Accept(k) ==
  /\ response[k].status = "SUBMITTED"
  /\ response' = [response EXCEPT ![k].status = "ACCEPTED"]
  /\ UNCHANGED <<world, received, sms, selected, open, processing, delivery, notices>>

(* The server dies: its memory is gone, open transactions roll back; what  *)
(* was saved stays, though nobody is told any more.                        *)
ServerCrash ==
  /\ delivery' = [d \in Deliveries |->
       IF delivery[d].pc \in {"idle", "done"} THEN delivery[d]
       ELSE [delivery[d] EXCEPT !.pc = "done",
               !.outcome = IF delivery[d].pc = "notify" THEN "saved" ELSE "lost"]]
  /\ processing' = {}
  /\ UNCHANGED <<world, received, tables, notices>>

Environment ==
  \/ \E r \in Requests, s \in Shops : SendOutbound(r, s)
  \/ \E r \in Requests : Expire(r)
  \/ \E k \in Keys : Accept(k)
  \/ \E k \in Keys, t \in Times : SelectTime(k, t)
  \/ ServerCrash

Next ==
  \/ \E d \in Deliveries :
       \/ \E m \in Messages : \E s \in {Sender[m], None}, i \in 0..Len(sent) :
            BeginDelivery(d, m, s, i)
       \/ DeliveryStep(d)
  \/ Environment

Spec == Init /\ [][Next]_vars

(* A call that arrived goes on: Node resumes it when its statement, its    *)
(* transaction (at the latest by Prisma's timeout) or the AI call (aborted *)
(* after OPENAI_TIMEOUT_MS) returns.  The environment is not fair.         *)
Fairness == \A d \in Deliveries : WF_vars(DeliveryStep(d))

FairSpec == Spec /\ Fairness

-----------------------------------------------------------------------------
(* Properties *)

Parsing(d) ==
  delivery[d].pc \in {"context", "parse", "wait", "lowest", "begin", "save",
                      "notify", "fail"}

(* However often a message is delivered, this server never parses it twice *)
(* at the same time, and the set it remembers that by is exact: it neither *)
(* keeps a message whose parsing ended nor forgets one, through failures   *)
(* of the parsing, of the failure's own write, and restarts.               *)
OneParsingPerMessage ==
  /\ \A d, e \in Deliveries :
       Parsing(d) /\ Parsing(e) /\ delivery[d].msg = delivery[e].msg => d = e
  /\ processing = {delivery[d].msg : d \in {e \in Deliveries : Parsing(e)}}

(* No linked message is left waiting without anybody to parse it, unless   *)
(* the shop was asked for more, an error was recorded, the server died, or *)
(* another delivery rewrote its link: skipping a message because it is     *)
(* being parsed already loses no text.                                     *)
NoMessageForgotten ==
  \A m \in Messages :
    \/ ~Linked(sms[m])
    \/ sms[m].status # "PENDING"
    \/ m \in processing
    \/ sms[m].counted
    \/ \E k \in Keys : m \in response[k].texts
    \/ \E d \in Deliveries :
         /\ delivery[d].msg = m
         /\ \/ delivery[d].pc = "dispatch"
            \/ delivery[d].outcome \in {"waiting", "failed", "lost"}
            \/ delivery[d].row.request \notin {None, sms[m].request}

(* An estimate is made only of texts its own shop sent after it was asked  *)
(* about that very request, although the link is guessed from the phone    *)
(* number and the time, and may be written twice.                          *)
TextsAnswerTheRequest ==
  \A k \in Keys : \A m \in response[k].texts :
    /\ Sender[m] = k[2]
    /\ \E j \in 1..received[m] : sent[j] = k

(* No text is lost and none is used for a request it does not answer.      *)
MessagesKept == NoMessageForgotten /\ TextsAnswerTheRequest

(* A SUBMITTED estimate can be taken: it has a price and a time, whatever  *)
(* reservations and other saves happened between its snapshot and its      *)
(* commit, and later.                                                      *)
SubmittedIsBookable ==
  \A k \in Keys : response[k].status = "SUBMITTED" =>
    response[k].price # None /\ open[k] \union selected[k] # {}

(* The response, its times and the mark on its messages are saved together *)
(* or not at all: no message is marked for a response that was rolled back.*)
CountedHasResponse ==
  \A m \in Messages :
    /\ sms[m].counted => \E k \in Keys : k[2] = sms[m].shop /\ Exists(k)
    /\ sms[m].status = "PARSED" => sms[m].counted

(* What a save leaves, in three tables and from an old snapshot, is whole. *)
SavedWhole == SubmittedIsBookable /\ CountedHasResponse

(* Nothing a save does, however stale what it read, takes away a time that *)
(* a reservation selected.                                                 *)
SelectedKept == [][\A k \in Keys : selected[k] \subseteq selected'[k]]_vars

(* The parsing has saved an estimate. *)
Saved(d) == delivery[d].pc = "notify" \/ delivery[d].outcome = "saved"

(* Another parsing has saved a higher price for the same request. *)
Undercuts(d) ==
  \E e \in Deliveries \ {d} :
    /\ Saved(e) /\ KeyOf(e)[1] = KeyOf(d)[1]
    /\ delivery[d].offer.price # None /\ delivery[e].offer.price # None
    /\ delivery[d].offer.price < delivery[e].offer.price

(* The requester hears of an estimate only if it was saved, at most once   *)
(* for each parsing, and of a lower one only if another parsing has saved  *)
(* a higher price for the same request: of another shop, or of this one    *)
(* before.                                                                 *)
NoticesTruthful ==
  /\ \A n \in notices :
       /\ Exists(n.key)
       /\ n.key = KeyOf(n.from)
       /\ delivery[n.from].outcome = "saved"
       /\ n.type = "LOWER_ESTIMATE" => Undercuts(n.from)
  /\ \A n, o \in notices : n.from = o.from => n = o

EveryCallEnds == \A d \in Deliveries : delivery[d].pc # "idle" ~> delivery[d].pc = "done"
ProcessingDrains == \A m \in Messages : m \in processing ~> m \notin processing

(* Every call that arrived ends, and the server forgets every message it   *)
(* was parsing, also when the AI or the database fails.                    *)
CallsEnd == EveryCallEnds /\ ProcessingDrains

(* "Duplicate times are stored only once" (a test of the service, and the  *)
(* reason for selectedTimestamps): refuted, the selected times are read    *)
(* from a snapshot that is older than the row lock.                        *)
TimesStoredOnce == \A k \in Keys : open[k] \cap selected[k] = {}

(* The step that saves an offer. *)
Saves(d) == delivery[d].pc = "save" /\ delivery'[d].pc = "notify"

(* "If the estimate is lower than the lowest price so far, a lower         *)
(* estimate has arrived" (estimate-response.service.ts, where refusals do  *)
(* not count as estimates): refuted, the price of a shop that declines is  *)
(* compared as well.                                                       *)
LowerIsAnOffer ==
  [][\A d \in Deliveries : Saves(d) /\ IsNewLowest(d) =>
       response'[KeyOf(d)].status # "REJECTED"]_vars
=============================================================================
