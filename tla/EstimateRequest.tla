---------------------------- MODULE EstimateRequest ----------------------------
(***************************************************************************)
(* Making an estimate request and closing it: EstimateRequestService       *)
(* .createEstimateRequest with SmsService.sendToShops, and the expiry      *)
(* scheduler.                                                              *)
(*                                                                         *)
(* The shops are told by SMS first and the request is stored after that,   *)
(* so the SMS provider, the ten-second timeout, the deletion of a design   *)
(* by the administrator and a crash can all come between.  Before that the *)
(* first picture of the request is fetched from S3 and handed to the       *)
(* provider, each under a timer of its own but for the object's body.  The *)
(* scheduler runs at night, in any number of server instances.             *)
(*                                                                         *)
(* A "Variant" states a plausible bug in the operation that follows it; no *)
(* specification uses it (README.md, section Variants).                    *)
(***************************************************************************)
EXTENDS Naturals, FiniteSets

CONSTANTS
  Creates,   \* POST requests, and the rows they insert
  Designs,   \* catalogue designs a request can name
  Runs,      \* concurrent executions of the expiry scheduler
  MaxDay,    \* bound on the calendar
  Window,    \* a visit is possible at most this many days ahead (7 in the code)
  DateLag,   \* 1 if the database compares a date with the date part of the
             \* cutoff (midnight in Seoul is the day before in UTC), else 0
  None

ASSUME CalendarAssumption == MaxDay \in Nat /\ Window \in Nat /\ DateLag \in {0, 1}
ASSUME NoneAssumption == None \notin Creates \union Designs

VARIABLES
  day,         \* today in Seoul
  smsEnabled,  \* SMS_ENABLED and an API key, read when the server starts
  designs,     \* the designs that exist
  request,     \* request[c]: row of estimate_requests
  sms,         \* sms[c]: what became of the SMS to the shops of c
  create,      \* create[c]: where a POST stands
  run,         \* run[x]: where an execution of the scheduler stands
  closed       \* the ESTIMATE_CLOSED notifications

vars == <<day, smsEnabled, designs, request, sms, create, run, closed>>

-----------------------------------------------------------------------------
(* Types *)

Days == 0..MaxDay

RequestRow ==
  [status: {"none", "MATCHING", "EXPIRED"}, last: Days,
   design: Designs \union {None}]

CreateRecord ==
  [pc: {"idle", "design", "shops", "fetch", "body", "upload", "cleanup", "ready",
        "send", "save", "done"},
   last: Days,                       \* the last of the dates asked for
   design: Designs \union {None},
   image: BOOLEAN,                   \* there is a picture to go with the SMS
   outcome: {"none", "created", "failed", "unconfirmed", "designNotFound", "lost"}]

RunRecord ==
  [pc: {"idle", "each", "notify"}, cutoff: Days, todo: SUBSET Creates,
   current: Creates \union {None}]

TypeOK ==
  /\ day \in Days
  /\ smsEnabled \in BOOLEAN
  /\ designs \in SUBSET Designs
  /\ request \in [Creates -> RequestRow]
  /\ sms \in [Creates -> {"none", "inflight", "delivered", "refused"}]
  /\ create \in [Creates -> CreateRecord]
  /\ run \in [Runs -> RunRecord]
  /\ closed \in SUBSET [request: Creates, run: Runs, at: Days]

Exists(c) == request[c].status # "none"

IdleRun == [pc |-> "idle", cutoff |-> 0, todo |-> {}, current |-> None]

Init ==
  /\ day = 0
  /\ smsEnabled \in BOOLEAN
  /\ designs = Designs
  /\ request = [c \in Creates |-> [status |-> "none", last |-> 0, design |-> None]]
  /\ sms = [c \in Creates |-> "none"]
  /\ create = [c \in Creates |->
       [pc |-> "idle", last |-> 0, design |-> None, image |-> FALSE,
        outcome |-> "none"]]
  /\ run = [x \in Runs |-> IdleRun]
  /\ closed = {}

-----------------------------------------------------------------------------
(* createEstimateRequest *)

GoTo(c, pc) == create' = [create EXCEPT ![c].pc = pc]

Answer(c, outcome) ==
  create' = [create EXCEPT ![c].pc = "done", ![c].outcome = outcome]

database == <<day, smsEnabled, designs, request>>

(* A body that passed validation: its dates are within the window.  Of its *)
(* pictures only the first that lies in the server's own bucket counts.    *)
BeginCreate(c, last, g, image) ==
  /\ create[c].pc = "idle"
  /\ last \in day..(day + Window)
  /\ create' = [create EXCEPT ![c] =
       [pc |-> IF g = None THEN "shops" ELSE "design", last |-> last,
        design |-> g, image |-> image, outcome |-> "none"]]
  /\ UNCHANGED <<database, sms, run, closed>>

(* designExists *)
CheckDesign(c) ==
  /\ create[c].pc = "design"
  /\ \/ create[c].design \in designs /\ GoTo(c, "shops")
     \/ create[c].design \notin designs /\ Answer(c, "designNotFound")
  /\ UNCHANGED <<database, sms, run, closed>>

(* findShopsByIds; without SMS the sending is passed over. *)
FindShops(c) ==
  /\ create[c].pc = "shops"
  /\ GoTo(c, IF ~smsEnabled THEN "save"
             ELSE IF create[c].image THEN "fetch" ELSE "ready")
  /\ UNCHANGED <<database, sms, run, closed>>

(* uploadImages: GetObject under a timer.  Without an answer in time, or   *)
(* without a body, the picture is left out; finally removes its file.      *)
FetchImage(c) ==
  /\ create[c].pc = "fetch"
  /\ GoTo(c, "body") \/ GoTo(c, "cleanup")
  /\ UNCHANGED <<database, sms, run, closed>>

(* The body has arrived and is in a temporary file, or one of the two      *)
(* failed.  No timer watches over the body: it may stay away for ever.     *)
ReadImage(c) ==
  /\ create[c].pc = "body"
  /\ GoTo(c, "upload") \/ GoTo(c, "cleanup")
  /\ UNCHANGED <<database, sms, run, closed>>

(* uploadFile under a timer: with its id the SMS becomes an MMS, without   *)
(* it goes out as it is.                                                   *)
UploadImage(c) ==
  /\ create[c].pc = "upload"
  /\ GoTo(c, "cleanup")
  /\ UNCHANGED <<database, sms, run, closed>>

(* The temporary file is removed; if that throws, so does the sending.     *)
RemoveFile(c) ==
  /\ create[c].pc = "cleanup"
  /\ GoTo(c, "ready") \/ Answer(c, "failed")
  /\ UNCHANGED <<database, sms, run, closed>>

(* client.send: one message, to all the shops. *)
StartSend(c) ==
  /\ create[c].pc = "ready"
  /\ sms' = [sms EXCEPT ![c] = "inflight"]
  /\ GoTo(c, "send")
  /\ UNCHANGED <<database, run, closed>>

(* The provider's answer wins the race against the timer. *)
SendReturns(c) ==
  /\ create[c].pc = "send"
  /\ \/ sms[c] = "delivered" /\ GoTo(c, "save")
     \/ sms[c] = "refused" /\ Answer(c, "failed")
  /\ UNCHANGED <<database, sms, run, closed>>

(* Variant: after the timeout the request is stored all the same. *)
SendTimesOutSaves(c) ==
  /\ create[c].pc = "send"
  /\ GoTo(c, "save")
  /\ UNCHANGED <<database, sms, run, closed>>

(* Variant: no timer, the handler waits for the provider. *)
SendWithoutTimer(c) ==
  /\ create[c].pc = "send"
  /\ sms[c] = "refused"
  /\ Answer(c, "failed")
  /\ UNCHANGED <<database, sms, run, closed>>

(* The timer wins; the provider goes on with what it was given. *)
SendTimesOut(c) ==
  /\ create[c].pc = "send"
  /\ Answer(c, "failed")
  /\ UNCHANGED <<database, sms, run, closed>>

(* repository.create: one nested insert.  Its acknowledgement may get lost *)
(* (500, though it is stored); a design that was deleted since the check   *)
(* violates its foreign key.                                               *)
Save(c) ==
  LET g == create[c].design IN
  /\ create[c].pc = "save"
  /\ \/ /\ g = None \/ g \in designs
        /\ request' = [request EXCEPT ![c] =
             [status |-> "MATCHING", last |-> create[c].last, design |-> g]]
        /\ Answer(c, "created") \/ Answer(c, "unconfirmed")
     \/ /\ g # None /\ g \notin designs
        /\ Answer(c, "designNotFound")
        /\ UNCHANGED request
  /\ UNCHANGED <<day, smsEnabled, designs, sms, run, closed>>

(* Any database statement may fail: ESTIMATE_REQUEST_FAILED. *)
StatementFails(c) ==
  /\ create[c].pc \in {"design", "shops", "save"}
  /\ Answer(c, "failed")
  /\ UNCHANGED <<database, sms, run, closed>>

CreateStep(c) ==
  \/ CheckDesign(c) \/ FindShops(c) \/ FetchImage(c) \/ UploadImage(c)
  \/ RemoveFile(c) \/ StartSend(c) \/ SendReturns(c) \/ SendTimesOut(c)
  \/ Save(c) \/ StatementFails(c)

-----------------------------------------------------------------------------
(* runEstimateExpiryScheduler *)

(* None of its dates is on or after the cutoff. *)
Over(c, cutoff) == request[c].last + DateLag < cutoff

(* The candidates, with the day on which the run started. *)
BeginRun(x) ==
  /\ run[x].pc = "idle"
  /\ run' = [run EXCEPT ![x] =
       [pc |-> "each", cutoff |-> day, current |-> None,
        todo |-> {c \in Creates : request[c].status = "MATCHING" /\ Over(c, day)}]]
  /\ UNCHANGED <<database, sms, create, closed>>

(* Variant: the update is not conditional on the status. *)
CloseAlways(x, c) ==
  /\ run[x].pc = "each"
  /\ c \in run[x].todo
  /\ request' = [request EXCEPT ![c].status = "EXPIRED"]
  /\ run' = [run EXCEPT ![x].pc = "notify", ![x].todo = @ \ {c}, ![x].current = c]
  /\ UNCHANGED <<day, smsEnabled, designs, sms, create, closed>>

(* updateMany ... WHERE status = 'MATCHING': only the run that changed the *)
(* row goes on to notify.                                                  *)
CloseNext(x, c) ==
  /\ run[x].pc = "each"
  /\ c \in run[x].todo
  /\ \/ /\ request[c].status = "MATCHING"
        /\ Over(c, run[x].cutoff)
        /\ request' = [request EXCEPT ![c].status = "EXPIRED"]
        /\ run' = [run EXCEPT ![x].pc = "notify", ![x].todo = @ \ {c},
                              ![x].current = c]
     \/ /\ request[c].status # "MATCHING"
        /\ run' = [run EXCEPT ![x].todo = @ \ {c}]
        /\ UNCHANGED request
  /\ UNCHANGED <<day, smsEnabled, designs, sms, create, closed>>

(* A failed notification does not stop the others. *)
NotifyClosed(x) ==
  /\ run[x].pc = "notify"
  /\ \/ closed' = closed \union
          {[request |-> run[x].current, run |-> x, at |-> run[x].cutoff]}
     \/ UNCHANGED closed
  /\ run' = [run EXCEPT ![x].pc = "each", ![x].current = None]
  /\ UNCHANGED <<database, sms, create>>

(* Nothing left, or the query or an update threw and ended the run. *)
EndRun(x) ==
  /\ run[x].pc = "each"
  /\ run' = [run EXCEPT ![x] = IdleRun]
  /\ UNCHANGED <<database, sms, create, closed>>

RunStep(x) ==
  (\E c \in Creates : CloseNext(x, c)) \/ NotifyClosed(x) \/ EndRun(x)

-----------------------------------------------------------------------------
(* The environment *)

(* The SMS provider, also long after the timeout. *)
ProviderEnds(c, result) ==
  /\ sms[c] = "inflight"
  /\ sms' = [sms EXCEPT ![c] = result]
  /\ UNCHANGED <<database, create, run, closed>>

(* The administrator deletes a design; requests keep their rows (SetNull). *)
DeleteDesign(g) ==
  /\ g \in designs
  /\ designs' = designs \ {g}
  /\ request' = [c \in Creates |->
       IF request[c].design = g THEN [request[c] EXCEPT !.design = None]
       ELSE request[c]]
  /\ UNCHANGED <<day, smsEnabled, sms, create, run, closed>>

Midnight ==
  /\ day < MaxDay
  /\ day' = day + 1
  /\ UNCHANGED <<smsEnabled, designs, request, sms, create, run, closed>>

ServerCrash ==
  /\ create' = [c \in Creates |->
       IF create[c].pc \in {"idle", "done"} THEN create[c]
       ELSE [create[c] EXCEPT !.pc = "done", !.outcome = "lost"]]
  /\ run' = [x \in Runs |-> IdleRun]
  /\ UNCHANGED <<database, sms, closed>>

Environment ==
  \/ \E c \in Creates : \E result \in {"delivered", "refused"} :
       ProviderEnds(c, result)
  \/ \E g \in Designs : DeleteDesign(g)
  \/ Midnight
  \/ ServerCrash

Next ==
  \/ \E c \in Creates :
       \/ \E last \in Days, g \in Designs \union {None}, image \in BOOLEAN :
            BeginCreate(c, last, g, image)
       \/ CreateStep(c) \/ ReadImage(c)
  \/ \E x \in Runs : BeginRun(x) \/ RunStep(x)
  \/ Environment

Spec == Init /\ [][Next]_vars

(* A POST that arrived goes on: every statement returns, and timers end    *)
(* the waits for the provider and for the answer of S3, though not for the *)
(* body that follows it (ReadImage is not in CreateStep).  A run that      *)
(* began goes on.  The clock, the provider, S3 and the administrator are   *)
(* not fair.                                                               *)
Fairness ==
  /\ \A c \in Creates : WF_vars(CreateStep(c))
  /\ \A x \in Runs : WF_vars(RunStep(x))

FairSpec == Spec /\ Fairness

-----------------------------------------------------------------------------
(* Properties *)

(* A stored request has been sent to the shops (unless SMS is off), so     *)
(* answers can come: no timeout, refusal or crash leaves a request that    *)
(* nobody was asked about.                                                 *)
StoredWasSent == \A c \in Creates : Exists(c) /\ smsEnabled => sms[c] = "delivered"

(* The client is told the truth about the row: success only if it is       *)
(* stored, an error only if it is not, also when the design vanished; but  *)
(* for the 500 of an insert whose acknowledgement got lost.                *)
AnswerMatchesDatabase ==
  \A c \in Creates :
    /\ create[c].outcome \in {"created", "unconfirmed"} => Exists(c)
    /\ create[c].outcome \in {"failed", "designNotFound"} => ~Exists(c)

(* A POST is told the truth, and a row it leaves was sent to the shops,    *)
(* whichever of the SMS, the timer, the insert and the design came last.   *)
PostsTruthful == StoredWasSent /\ AnswerMatchesDatabase

(* However many instances run the scheduler, and however they overlap, the *)
(* requester is told once that a request is closed, and only when it is.   *)
ClosedOnce ==
  /\ \A n, o \in closed : n.request = o.request => n = o
  /\ \A n \in closed : request[n.request].status = "EXPIRED"

(* A request is closed only when the last day its user could come is over, *)
(* whatever day it was when the run that closes it began.                  *)
ClosedAfterLastDay ==
  \A c \in Creates : request[c].status = "EXPIRED" => request[c].last < day

(* Overlapping runs close a request in time and announce it once.          *)
ClosedOnceInTime == ClosedOnce /\ ClosedAfterLastDay

(* A closed request is not opened again and no request disappears. *)
ClosedForGood ==
  [][\A c \in Creates :
       /\ request[c].status = "EXPIRED" => request'[c].status = "EXPIRED"
       /\ Exists(c) => Exists(c)']_vars

(* Every POST that arrived is answered (or lost in a crash), also when the *)
(* SMS provider never answers, and even if S3 does not, with one exception *)
(* that withTimeout leaves open: the body of the picture never ends.       *)
EveryPostAnswered ==
  \A c \in Creates :
    create[c].pc # "idle" ~> create[c].pc = "done" \/ [](create[c].pc = "body")
=============================================================================
