# nail-naeil-server: specification and verification

nail-naeil-server is the backend of a service in which a customer describes a
nail design, nearby shops are asked for an estimate by SMS, the shops answer by
SMS, an AI service reads the answers, and the customer reserves one of the
times a shop proposed. It is an Express application over MySQL (Prisma 7 with
the MariaDB adapter), with SMS, AI, social login, S3 and FCM as outside
services and three nightly jobs in the same process.

This directory holds TLA+ models of its components, the TLC configurations
that check them and TLAPS proofs about them. Paths are relative
to the repository; `S:n` in this text means line n of the named file.

## 1. Inventory

What each part keeps, does, and what makes it correct.

| Part (under `src/`) | State | Operations that change it | Correct when |
|---|---|---|---|
| `reservation/` | `reservations`, `shop_proposal_times.is_selected` | create, cancel | one open reservation per proposal, the reserved slot stays, answers and notices are true |
| `estimate-response/` | `sms_messages`, `estimate_responses`, `shop_proposal_times`, the in-memory set `processingSmsMessageIds` | webhook, background parsing, save | one parsing per message at a time, no text lost, an estimate is saved whole, reserved times survive, notices are true |
| `estimate-request/` | `estimate_requests` with schedules, images, target shops | create (SMS first, then insert) | the answer tells the truth about the row, a stored request was sent |
| `scheduler/estimate-expiry` | `estimate_requests.status` | nightly expiry | closed once, told once, not before the last day is over |
| `scheduler/image`, `image/` | S3 objects | upload, nightly clean-up | an image in use is not deleted |
| `scheduler/reservation-reminder` | none | SMS to tomorrow's and today's customers | no reminder for a cancelled reservation, one per kind |
| `user/` (auth) | `users`, `user_auth_providers`, `refresh_tokens` | signup, login, social callback, refresh, logout, account deletion | a refresh token is used once, one account per login id, deletion is whole |
| `user/` (addresses) | `user_addresses` | create, update, delete | exactly one default address if there is any |
| `review/` | `shop_reviews`, `shops.rating`, `shops.review_count` | create, update, delete | the aggregate equals the reviews |
| `shop/` wishes, `design/` wishes | `wish_shops`, `wish_designs` | toggle, add, remove | the answer is the state after it |
| `shop/` sync and admin | `shops` | SBIZ import, create, update, deactivate | the administrator's decision stands |
| `design/` | `designs`, `tags`, `design_tags` | administration, view counter | tags are shared, not duplicated |
| `notification/`, `device-token/` | `notifications`, `notification_settings`, `device_tokens` | notify, mark read, settings, register, unregister, clean-up of dead tokens | the settings gate holds, a live token is not removed |
| `subscription/` | `subscriptions` (read only) | none | - |
| `shop/` matching | none | the four searches over `shops` and `estimate_responses` | a wider search finds no nearer shop less; cheap is cheap |
| lists and cards of all components | none | pages by keyset or by Prisma cursor, the answers to a request, its card | nothing is skipped or shown twice, what has no price is last, card and list agree |
| `user/` social login | the `oauth_state` cookie | start, provider's page, callback, landing | tokens reach the browser that began the login |
| `external/` | timers | calls to OpenAI, Solapi, Kakao, Naver, SBIZ | every call ends |
| `app.ts`, `routes/`, `common/`, `config/`, `infra/` | the environment | start, routing, guards, controllers' checks, error handler | a request reaches the handler meant for it, with the user its token names, and errors tell nothing |

How they interact:

- Customer: `POST /estimate-request` -> shops get an SMS -> row in `estimate_requests`.
- Relay phone: `POST /estimate-response/sms` stores an SMS, answers 202 and
  starts the parsing in the background; the parsing saves an
  `estimate_responses` row with proposed times and notifies the customer.
- Customer: `POST /reservation` locks the response row, inserts a reservation
  and selects a time. The save of a later SMS of the same shop rewrites the
  unselected times of the same response, so the two components share
  `shop_proposal_times` and meet at the row lock on `estimate_responses`.
- Nightly jobs change `estimate_requests` and read `reservations`.
- `notify` is called after the business transaction, outside it.

What is hard here: every `await` suspends a request, so all of them interleave
between statements; REPEATABLE READ transactions read old snapshots and write
current rows; the SMS provider and the AI answer late, twice or never; webhook
calls are repeated; the process keeps a set in memory that a crash empties; the
jobs may run in several instances at once. The list of hazards in
`PROJECT.json` names the lines.

## 2. Plan

All modules of the plan exist. In the order in which they were planned:

1. **Booking** (abstract), **Reservation**: the component with the strongest
   promise; **ReservationProofs**.
2. **EstimateResponse**: the webhook and the background parsing;
   **EstimateResponseProofs**.
3. **EstimateRequest**: the POST with its SMS and the expiry job;
   **EstimateRequestProofs**.
4. **Account**, **UserAddress**.
5. **Review**: the rating under the shop's lock.
6. **Design**, **ShopWish**: toggles, upserts that are SELECT then INSERT, tags
   read again inside an old snapshot.
7. **ImageStore**, **Reminder**, **Notification**, **Push**, **ShopSync**.
   The proofs about what belongs to a shop are in **ShopProofs**, those about what
   belongs to a customer in **CustomerProofs**.
8. **Listing**, **Matching**, **EstimateList**: what users are shown;
   **ListProofs**, **EstimateListProofs**.
9. **SocialLogin**, **Outbound**, **Http**: the edges of the server;
   **ServiceProofs**.

What would come next: Reservation and EstimateResponse over one set of proposed
times, in place of the environments (savers, SelectTime) each has of the other.

### Parts that share a run

Components that share no row which two of them write are checked in one run: an
MC module (MCCustomer, MCSystem, MCLive, MCEstimate) extends their modules, a
variable `part` is chosen in Init and says whose behaviour it is, the other
parts keep their variables, and what only another part uses of the inputs is
fixed. The state space is then the sum of the parts and not their product.
What a component does use of another one is an external action of its module:
visits in Review, requests in ImageStore, the closing of a request in
EstimateResponse, bookings in Reminder and Account.

A property of a run is often a conjunction of named parts that are defined
right above it; the tables below name the parts in brackets. The type
invariants of the parts of a run are one property (CustomerTypeOK, SystemTypeOK,
EstimatesTypeOK).

## 3. Modelling decisions

**Granularity.** One process per HTTP request (or job run, or parsing); a step
is what happens between two awaits. A transaction is split at its statements
where another transaction can come between with effect.

**MySQL.** REPEATABLE READ. Plain reads of a transaction come from the
snapshot of its first plain read; `SELECT ... FOR UPDATE`, UPDATE, DELETE and
INSERT work on current rows and hold row locks to the end of the transaction.
Writes of a transaction are applied in the step that commits, or in one step
when its first write already has the lock on which all the other writers wait
(the response row in `saveParsedEstimateResponse`). A unique key that another
transaction took first is an error branch. Prisma's `updateMany` and
`deleteMany` are one conditional statement; its `upsert` on MySQL is a SELECT
followed by INSERT or UPDATE.

**Failures.** Any database statement can fail (an error branch); a transaction
that waits or runs too long is rolled back by Prisma; a crash forgets all
processes and memory, rolls back open transactions and keeps committed rows.

**What nobody under `src/` does.** No code sets a reservation to COMPLETED or a
response to ACCEPTED, and none inserts OUTBOUND rows of `sms_messages`,
although the code reads all three. They are environment actions marked
external (`CompleteVisit`, `Accept`, `SendOutbound`), as are the SMS provider
(`ProviderEnds`), the public provider's list of shops (`ChangeListing`), FCM's
verdict on a device (`Expire`) and the services of Outbound (how a call is
answered).

**Variants.** Beside some operations stands a "Variant" of the same signature:
the operation with a plausible bug in it (a dropped condition, a missing
rollback, a swapped order), one for each property of the passing runs. No
specification uses them. Put in place of the operation, each makes TLC refute
the property listed for it in `PROJECT.json` (`mutants`): the properties depend
on the code's guards, not on the shape of the model.

## 4. The modules

### Reservation, Booking

State: the tables (`proposals`, `slots`, `reservation`), the row locks on
proposals (`rowLock`), the position of each create and cancel request, and the
notices. `createReservation` is BeginCreate, ReadSlot, PreCheck, LockProposal
(FOR UPDATE), CountActive (first plain read, so after the lock),
InsertReservation, SelectSlot, Commit, NotifyCreated, with AbortCreate for the
transaction's timeout; `cancelReservation` is BeginCancel, CancelUpdate (one
conditional statement, committed at once), ReadCancelled (the read after it,
which throws if it finds nothing), CancelFails, NotifyCancelled. The save of a parsed
SMS appears as an environment that holds the same row lock and rewrites the
unselected slots (SaverLocks, SaverEnds). Booking is the abstract promise: a
proposal carries at most one open booking, a cancelled one never returns.

Two answers 500 follow a write that stands, and no rollback can take it back:
the read behind the cancelling update fails (reservation.repository.ts:347-350;
the customer gets no notice of a cancellation either), or the acknowledgement
of a commit is lost. The client sees the same 500 as before the write; the
model tells them apart as "unconfirmed" and "failed". So the promise is not
that every cancellation is announced: it is that "failed" leaves nothing
behind, "unconfirmed" leaves what was asked for, that of all requests to cancel
one reservation at most one got past the update, and that a cancelled row has
one that did (NoSilentCancellation): it answers so, or broke off behind the
update, and was not told that somebody else had been faster.

| Run | Instance | Shows |
|---|---|---|
| `reservation_core` | 1 proposal, 2 slots, 3 creates, 2 cancels, 1 saver | OneActivePerProposal, SlotsMatchReservations (ReservedSlotKept, SelectionHasReservation), ClientsToldTheTruth (AnswerMatchesDatabase, CancelledOnce, NoSilentCancellation, NoticesTrue), FinalStatusFrozen, ImplementsBooking (the refinement of Booking) |
| `live` (part reservation) | 1 proposal, 1 slot, 2 users, 2 creates, 1 cancel, 1 saver | RequestsEnd (every request is answered, every lock released) |
| `reservation_slots` | as core, smaller | finding: two slots of one proposal selected after reserve, cancel, reserve |

Bounds: two creates race, and the third comes after a cancellation of the
first; a second cancel is needed for the double cancel; two slots so that one can be
rewritten while the other is reserved. Of the five requests four arrive
(MaxRequests): three creates with a cancel, or two with both cancels. With all
five the run takes too long; the proofs are for any number of both.

### EstimateResponse

State: the SMS sent to shops, `sms_messages`, `estimate_responses`, the two
sets of proposed times, the in-memory `processing` set, and per webhook call
the position of the call and of the parsing it starts, with everything it read
(`row`, `texts`, `offer`, `prior`, `seen`) so that stale reads stay stale.
createSmsMessage is BeginDelivery (all its reads, one snapshot) and CommitLink
or RefuseDelivery; dispatchSmsParsing is Dispatch and Finish;
processSmsMessage is ReadContext, Parse, WaitForMore, ReadLowest, BeginSave
(the snapshot), Save (from the upsert's row lock to the commit), Notify, and
Throw with MarkFailed for every error.

| Run | Instance | Shows |
|---|---|---|
| `estimate_core` part repeats | 1 request, 1 shop, 1 price, 2 messages, 3 calls | OneParsingPerMessage, SavedWhole (SubmittedIsBookable, CountedHasResponse), SelectedKept |
| part prices | 1 request, 2 shops, prices 1 and 2, 3 messages, 2 calls | the same, and NoticesTruthful |
| `live` (part parsing) | 2 requests sent to one shop and closing, 1 message posted twice, 2 calls | MessagesKept (NoMessageForgotten, TextsAnswerTheRequest), CallsEnd (every call ends, the in-memory set empties) |
| `estimate_times` | 2 messages, 2 calls | finding: a time stored twice |
| `estimate_refusal` | 2 shops | finding: a refusal announced as a lower estimate |

MessagesKept excuses a crash: a message the server was parsing when it died stays
PENDING until the phone posts it again, and nothing in the code takes it up.
Three calls are
the least in which a redelivery meets two overlapping ones; two messages are
the least in which one parsing's save meets another's. Whether a notice of a
lower estimate is true needs prices that differ: in the part "prices" two
parsings, of two shops or of two texts of one shop, overlap in every way between the read of the
lowest price and the notice. NoticesTruthful asks that a lower estimate undercuts
one that another parsing has saved (Undercuts); what was saved stays
on record in `offer` when a parsing ends. That it is still the lowest price when the
notice goes out is not so, and is not asked: the price is read before the save.

### EstimateRequest

State: today's date in Seoul, the designs, the request rows, what became of each
SMS, the position of each POST and of each run of the expiry job, the
ESTIMATE_CLOSED notices. createEstimateRequest is BeginCreate (validated
body), CheckDesign, FindShops; for the picture FetchImage (GetObject under a
timer), ReadImage (its body and the temporary file, without one), UploadImage (under a
timer again) and RemoveFile (the `finally`, which may throw itself); StartSend,
SendReturns or SendTimesOut (the race of `withTimeout`; the provider goes on
after the timeout), Save, StatementFails; runEstimateExpiryScheduler is BeginRun, CloseNext,
NotifyClosed, EndRun. The cutoff is an instant (Seoul midnight, the day before
in UTC) compared with a DATE column; DateLag covers both ways the database can
read it.

The body of the picture (estimate-request.service.ts:123) is the one wait of a
POST that no timer ends. EveryPostAnswered says so: a POST is answered, or it
stays with that body for ever. All other waits for the provider or for S3 end,
whatever these do.

| Run | Instance | Shows |
|---|---|---|
| `live` (part request) | 1 POST, 1 design, 2 job runs, 1 midnight | PostsTruthful (StoredWasSent, AnswerMatchesDatabase), ClosedOnceInTime (ClosedOnce, ClosedAfterLastDay), EveryPostAnswered |

Bounds: two runs are the least that overlap over one candidate; one midnight so
that a request for today is over the next day and one for tomorrow is not.
POSTs share no row with each other (a design is only read and may vanish), and
a run between two candidates is covered by the proofs, which are for any
number of both.

### Account

State: the columns of `users`, `user_auth_providers` and `refresh_tokens` that
decide who may sign in (`email`, `existing`, `lastUser`, `owner`, `tokens`), the
users that a reservation refers to, a clock in seconds, and per request where it
stands. A refresh token is a JWT over the user and the second of signing, so it
is the pair of them: two of one user and second are the same string and hash.

| Code | Actions |
|---|---|
| `signup` | CheckLoginId, CheckEmail, CreateUser |
| `login` | FindAuth, SignTokens, StoreToken |
| `handleCallback` | FindProvider, CreateUser for a new user, SignTokens, StoreToken |
| `refresh` | Refresh (verify and the deleteMany), SignTokens, StoreToken |
| `logout` | Logout |
| `updateMyProfile` | FindForUpdate, CheckEmail, UpdateUser, BuildProfile (the counts of the answer; if they fail, 500 for a profile that is changed) |
| `deleteMyAccount` | FindForDelete, DeleteUser (one transaction) |
| a failing statement, a crash | Break |

Book is the environment's (Reservation inserts the row), as is Tick. A call
is one request and does not start again; so that a token can be had, used
and used again there are three.

### UserAddress

State: the addresses of one user in the order they were registered, those with
isDefault, and where each request stands. `create` is BeginCreate (the count)
and InsertAddress; `update` is FindForChange and ChangeAddress; `delete` is
FindForRemoval, RemoveAddress, FindNext, PromoteNext. A row deleted by a
transaction that has not committed is in Locked: others read it, and wait to
write it. The statements that follow an `updateMany` over all rows of the user are
one step with it. No lock covers the reads, so the promise "one default
address" holds of one request at a time (`customer_core`) and not of two
(`customer_default`).

| Run | Instance | Shows |
|---|---|---|
| `customer_core` (parts account, address) | accounts: 1 user signed up, 2 login ids, 1 social id, 1 e-mail, 3 calls (one profile change at most), 2 seconds; addresses: 4, 1 call at a time | RotationConsumes, EveryUserCanSignIn, SessionsHaveReason (SessionsEndForAReason, SignedInAsOwner); DefaultPassesOn (OneDefaultAddress, OldestTakesOver) |
| `customer_leave` | the same, 2 calls | finding: a user with reservations cannot delete the account, 500 |
| `customer_default` | 2 address calls at a time | finding: the default flag is withdrawn, which the service refuses to do |

Bounds: three calls are a login and two refreshes with its token, or two callbacks
and a deletion; two seconds and a lifetime of one let a token be signed again in the
same second and expire; one e-mail is shared by whoever gives it, and nobody has
it to begin with; of two profile changes no property would ask anything; four addresses so
that the default one can move and be deleted with others older and newer than it.

### Review

State: the rows of `shop_reviews`, `shops.rating` and `review_count`, the locks
on shop rows, who has a completed visit (external), and where each request
stands. createReview is BeginReview (the visit), CheckWritten,
and then the transaction: LockShop (FOR UPDATE), InsertReview,
Recalculate (the aggregate, the first plain read and so younger than the lock),
CommitReview. updateReview and deleteReview are FindOwn, LockShop, WriteReview,
Recalculate, CommitReview. AbortReview is every failing statement, the unique
key and a row that is gone among them. Deleting an account cascades to its
reviews without the rating, but an author has a reservation, and the foreign
key of reservations keeps such accounts (`customer_leave`).

### Design, ShopWish

Design has two kinds of processes. An administrator's change is a REPEATABLE
READ transaction: BeginCreateDesign or BeginUpdateDesign, per new tag name
SelectTag (the SELECT of Prisma's upsert, which fixes the snapshot), InsertTag,
RereadTag (findUniqueOrThrow after P2002, in the old snapshot), then SaveDesign
with the commit or AbortDesign. DeleteDesign cascades to wishes. A user's wish
is FindDesign, SelectWish, InsertWish, CountWishes, or RemoveWish, CountWishes,
each committed by itself; a view is FindDesign, IncrementViews.

ShopWish is the heart of one user on one shop: BeginToggle (the active shop),
DeleteShopWish (deleteMany and its count), AnswerOff, SelectShopWish and InsertShopWish
(the upsert), FailToggle. The answers of overlapping taps need not alternate: two
may both be told that the shop is wished now, and one may fail with a duplicate
key. What holds, and is checked, is that a removal is told to one tap only, or,
if that tap breaks off between the DELETE and its answer (`untold`), to none.

### ShopSync

An import is a loop of FetchPage (a request to the public provider), ReadRows
(the rows the upserts find) and SavePage (the transaction of the page);
FailSync ends it. The provider's list, the stores `mapItem` refuses (Foreign),
and the administrators' CreateShop, UpdateShop and DeactivateShop go on
meanwhile. An import sets `is_data_active` of every shop it writes, so it
activates again what an administrator deactivated before; no text of the repository promises
otherwise, so nothing is claimed of it (the variable `off` only excuses it).

### Listing, EstimateList, Matching

Listing is one client that scrolls: KeysetPage for lists whose cursor carries
the last row's time and id (design feed, wished designs, notices, requests,
reservations; the administrators' shops by id), CursorPage for those that hand
the id to Prisma (shops, wished shops, reviews). Rows are added, hidden, shown
again and deleted between the pages, where the table allows it (Filtered,
Deletable). A Prisma cursor whose row has gone meanwhile skips the next row or
all the rest; CursorShowsAll excludes it (`strayed`), since nothing is promised there.

EstimateList is the list of the answers to one request: BeginList, FindList
(responses and target shops), FindAverages; the four sort orders
(ListedBefore), recommendationScore, and the card's lowest price.

Matching is the four searches as functions of tables that change: distance and
radius, `is_data_active`, and for the cheap one the average over responses that
are offers and name a price. SQL's order by a nullable average is Cheaper; it
compares sums times counts, which orders like the averages and needs no fractions.
Sorted lists a set by rank: the shop at i is the one that i - 1 others precede.

### ImageStore, Reminder, Notification, Push

ImageStore: BeginUpload (all signatures first), PutImage file by file,
FailUpload; RequestWith and ShowWith are rows of other components that name
the URL; a run of the clean-up is ListKeys, FindUnused, DeleteChunk,
EndCleanup. Keys carry the UTC date, the job subtracts two days from Seoul's.

Reminder: StartJob at nine, ReadDue for tomorrow and NextKind for today,
CheckWanted and SendReminder for each row; customers book, cancel and switch
the setting between any two awaits (CustomersDo).

Notification: notify is BeginNotify (its type's category), Gate, StoreNotice,
Pushed; the settings are BeginSetting, InsertSetting or UpdateSetting; FindNotice,
MarkRead, MarkAllRead. Push: register is BeginRegister, WriteDevice;
unregister is BeginUnregister, RemoveDevice; a push is BeginPush, FindTokens,
SendBatch until none is left, PurgeTokens; FCM gives a token up for good
(Expire).

### SocialLogin, Outbound, Http

SocialLogin: Start leaves a state in the browser's one cookie, Redirected and
Agree are the provider's page, the callback is OpenCallback (also in another
browser, or again), CheckState, Exchange, Land. What user the tokens are for is
Account's; here it is which browser gets them.

Outbound: a call waits for headers, for the body, or for its backoff; `timers`
is the set of timers that are running. The service answers late, with an error,
half, or never. OwnTimerRuns and OutboundEnds name one exception: the page of
shops is read to its end without a timer (sbiz-shop.client.ts:92-101), so an
import may hang, which the comment at kakao-auth.client.ts:8-11 and the title
of the test "설정된 시간 안에 응답하지 않으면 요청을 중단한다" do not expect.

Http: Boot with a set of variables that are set, then one request: Receive,
ParseBody, FindRoute (Routes is the table of all routers in the order v1.router.ts
and app.ts register them, with guards, checks and success status of each
controller), CheckUser, CheckKey, TakeFiles, EnterHandler, Handle, HandleError.

| Run | Instance | Shows |
|---|---|---|
| `system_core` part review | 1 shop, 2 customers, ratings 4 and 5, 3 reviews, 2 requests | RatingIsExact, ReviewsAreEarned |
| part design | 1 design, 1 tag, 2 administrators' calls, 2 wish calls | WishAnswersTrue (WishedIsWished, MissingForUsersIsTrue) |
| part wish | 3 taps at a time, 5 in all | OffOncePerHeart |
| part sync | 2 shops of the provider, one refused, 1 own; page sizes 1 and 2; 2 imports | SyncIsFaithful (SyncCoversProvider, EditsSurvive) |
| part list | nine lists, 3 rows, 2 times, page sizes 1 and 2 | ScrollShowsAll (KeysetShowsAll, CursorShowsAll) |
| part image | 2 images, 1 upload, 1 clean-up, hours 17 and 23 of UTC, 2 days | BucketIsRight (FreshImagesStay, RequestedImagesStay, RefusedLeavesNothing) |
| part matching | 3 shops, prices 1 and 2, 3 answers | OffersTheBest (WiderKeepsCloser, CheapLeavesOutDearer) |
| part login | 2 browsers, 2 logins, 2 callbacks | LoginsEndAtHome (LoginStaysInBrowser, StateIsUsedOnce) |
| part http | every route, credential, form and error; three environments | RequestsAreRouted (LiteralFirst, CallerIsKnown, RightTokenPasses, ErrorsTellNothing) |
| `customer_core` part notice | 1 user, 2 topics, 2 calls, 2 notices | SettingsRespected (GateRespected, PatchesMerge) |
| part push | 2 users, 2 devices, 2 calls, 1 token to a batch | DevicesReached (LiveTokensStay, PushReachesEveryDevice) |
| part reminder | 2 bookings, hours 0, 9 and 20, 2 days | RemindersArrive (RemindedOnce, RemindersHaveReason, NobodyPassedOver) |
| `estimate_core` part results | 3 shops, prices 1 and 2 | EveryShopOnce, OffersInOrder (UnknownLast, LowestHeadsTheList, BetterIsRecommended, CardAgreesWithList) |
| `live` part outbound | 1 call to any of five services | OwnTimerRuns, OutboundEnds |
| `design_tags` | 1 design, 1 tag, 2 administrators | finding: two bring in the same new tag, and one is told that the design does not exist |
| `image_profile` | 2 images, 1 upload, 1 clean-up | finding: a profile picture, or a design's image, is deleted two days after its upload |

Bounds. Two requests of a kind overlap in every way the properties tell apart; a third
review lets an author delete and write again. Two images in one upload are the
least of which the first can be stored and the second fail. Hour 17 is 02:00 in Seoul, when
the job runs, hour 23 is the late hour of a UTC day on which the dates
differ; with two days the run lists what was uploaded on the day 0. Three rows and pages of one make
a cursor point between two others. Three shops and a limit of two leave one out. One token to a batch makes two
devices two batches. The instances of the reminders have a booking for either day, before and
after nine, and a run on each day.

## 5. Fairness

Only what already started is fair. A request that arrived is resumed by Node
when its statement returns; a wait for a row lock ends because the holder's
transaction ends, at the latest by Prisma's interactive-transaction timeout
(5 s); the AI call is aborted after OPENAI_TIMEOUT_MS; the SMS call, the request
for a picture and its upload are cut by the 10 s timer of `withTimeout`. The body of
a picture is not, so nothing is assumed of ReadImage. With that exception each
started process has weak fairness on its own steps. In Outbound a timer that is due fires and a backoff ends; the
services owe nothing. Arrivals, the SMS provider, the clock, administrators,
visits, S3's bodies and crashes have no fairness. Of the other modules nothing is claimed
that must eventually happen, and their specifications have none.

## 6. Proofs

Eight modules hold theorems. Each proves invariants or action properties of the
modules it extends for all values of their constants (any users, calls, rows,
times), from the named ASSUMEs of those modules, which TLC evaluates in every
run. The pattern is the same everywhere: an invariant that says of each process
what it may rely on where it stands, one lemma per action, and a last step that
puts them together. TLC checked the invariants on the instances of the runs
before they were proved.

### ReservationProofs

- TypeCorrect: `Spec => []TypeOK`, with Arrived (a request that started carries
  parameters of the right kind), without which the row a commit writes could
  not be typed.
- OneActive: `Spec => []OneActivePerProposal`. It is not inductive: a commit
  adds a row without looking again. BookingInv adds Locking (a create is
  inside its transaction exactly while it holds its proposal's row lock),
  CountStillHolds (past the count and before the commit, the proposal has no
  active reservation: nobody else can commit one, and cancelling only removes)
  and RowMatchesRequest (a row carries what its request asked for).
- FinalStatus: `Spec => FinalStatusFrozen`.
- Refinement: `Spec => ImplementsBooking`: a Commit is a Book, a successful
  CancelUpdate a Release, everything else stutters.
- On top of BookingInv (RowInv): SlotsMatch (SlotsMatchReservations),
  ToldTheTruth (ClientsToldTheTruth) and Ownership (OwnersOnly: no run repeats
  it). SlotKnown and SlotHeld: from the lock on, the slot a create has read is
  live or its UPDATE fails, and between the UPDATE and the commit it stays as
  the request left it, because every saver waits for the same lock. AnswerPart:
  an answer 201 goes with the row, an error answer with none, "unconfirmed" with
  one. OwnerPart and CancelPart: past the check of the owner a request is the
  owner's. A cancel that got past its update is the row's Winner, and stays the only
  one, since nobody after it finds the status CONFIRMED. Whoever is about to
  update has found a reservation of its own (ReadBefore), so that a count of 0
  means that the reservation is over.

### EstimateResponseProofs

- TypeCorrect, OneParsing (OneParsingPerMessage), SavedAsAWhole (SavedWhole),
  RightRequest (TextsAnswerTheRequest), Truthful (NoticesTruthful) and
  SelectedStays (SelectedKept). The invariant IInv is TypeOK, that no more texts were
  received than sent, and Good of every delivery: what a delivery has read
  (`row`, `texts`, `offer`, `prior`, `seen`) is old, but of a kind no later step
  undoes (Keeps: rows of `sms_messages` stay, sent messages stay sent, responses
  do not disappear, what was saved stays on record); with the two facts
  OneParsingPerMessage is about, and Rows and Responses for the tables: every
  response, and so the lowest price, is what some parsing saved, which gives a
  notice of a lower estimate the one it undercuts (Compared, LowestUndercuts).
- NothingForgotten (MessagesKept). That no linked text is left waiting is not
  inductive: a delivery that skips its message relies on the parsing under way,
  which may have read its texts before a third delivery moved the message to
  another request and a fourth moved it back. KeptInv says that whoever is about
  to finish leaves its message settled: counted, or linked to two requests by
  deliveries that remember it.

### EstimateRequestProofs

TypeCorrect, PostsToldTheTruth (PostsTruthful), ClosedInTimeOnce
(ClosedOnceInTime) and ClosedStays (ClosedForGood, which no run repeats), for any
calendar, lag of the date column, and number of runs. IInv: Progress of each
POST (what was sent and stored at each of its positions) and RunsKnow of each
run (the rows it still has to announce are the ones it changed itself).

NoTextForgotten (MessagesKept) is about MCLive, where EstimateResponse runs
beside the requests, the reservations and the calls to other services. The
theorems of EstimateResponseProofs are instantiated with the requests and
messages of MCLive: AnswersAreTyped discharges what EstimateResponse assumes of
its constants, AnswersStart and AnswersStep say that the instance the model runs
and the instance the theorems are about are the same, so a behaviour of MCLive
is one of `Answers!Spec` and NothingForgotten holds of it.

### CustomerProofs

- Account: TypeCorrect, SignInPossible (EveryUserCanSignIn: no user without an identity
  and no identity of a user that is gone), SessionsJustified
  (SessionsHaveReason), from SignIn (SignedInAsOwner) and SessionsKept
  (SessionsEndForAReason). IInv is TypeOK, Ownership and, for each request,
  Ready of its record. Ownership: the users are exactly the owners of
  identities, and none has an id above lastUser; so the id of a new user was
  never given out before. Ready: a request that is about to sign or to store
  carries an account that has been given out and that it proved to be its own.
  The steps of another request can only delete the account, never move an
  identity to another, so Ready survives them; StoreToken checks that the
  account exists.
- TokensSpentOnce (RotationConsumes): an argument by counting. Rotated keeps
  the sets of calls that a token let through and of calls that stored it
  finite, and the inequality between their sizes is kept by every step: the
  conditional DELETE of a refresh takes away the row that the storing put there.
- SettingsObeyed (SettingsRespected). NoticeInv: a notice past the gate had its
  category on at some time since notify was called, an open gate implies so already before it is
  read, and the settings are what the first rows and the merged patches make
  of them.
- DevicesKept (DevicesReached). PushInv (CallIsSound): a push has sent to all it
  found but those left; what is left is not empty while it sends; what it is
  about to purge FCM has given up, and that is for good.
- DefaultInherited (DefaultPassesOn), under OneAtATime: there is one request of
  a user at a time. The run of `customer_core` is that instance, and without the
  condition the property is false, which `customer_default` shows. AddressInv:
  there is one default address if there is any (OneIsDefault), and what a
  request has read still holds (RequestKnows).
- RemindersGoOut (RemindersArrive), for any days, bookings and interleaving of
  customers with a run. ReminderInv: whoever waits in a run is due and not yet
  reminded (WaitingIsDue), what was sent was sent on its day and before its kind
  was read (SentWhenDue), and a booking that is due all the time is waiting or
  was tried (NobodyLost).
- CustomersTyped (CustomerTypeOK): all parts of MCCustomer.

### ShopProofs

- RatingAlwaysExact (RatingIsExact) and ReviewsAlwaysEarned (ReviewsAreEarned).
  RatingInv: RatingIsExact itself; Sound of each call: past Recalculate the
  numbers it holds are those of the rows as it will leave them, since whoever
  else could change them waits for the shop's lock. RatingTypes names the
  numbers as what they are, averages and counts.
- RatingsTyped (ReviewTypeOK): what Average and Cardinality compute is a number.
  The rows are finitely many (their ids are, ReviewsAreFinite), so the sum of
  their stars is one by the sums of ListProofs (AverageIsANumber), and NumbersOK
  carries it through each call's record and the locks.
- WishAnswersHold (WishAnswersTrue). DesignInv: the design a wish call found is
  there unless it was deleted meanwhile (`gone`), the row it made is there
  unless it was taken back (`undone`); the tags an administrator knows are there.
- HeartsCounted (OffOncePerHeart): by counting; WishInv bounds insertions and
  told removals by the requests that were let in, and keeps the set of running
  taps finite.
- SyncsAreFaithful (SyncIsFaithful). SyncInv: of a list that stood still the
  first `size * (page - 1)` stores are active, refused or switched off since
  (Covers), the page at hand has the next ones, and the last page is the end of
  the list. The step from a page to the next is arithmetic on page and size.
- BucketStaysRight (BucketIsRight). ImageInv: a key in the hands of a clean-up
  was uploaded long enough ago, and if it is about to be deleted, was not named by a request before the
  run of its day (CleanupIsSound); an image a request named in time is in the
  store (StoreIsSound); a refused upload has nothing there (UploadIsSound). The
  hours between UTC's date and Seoul's are arithmetic modulo 24 in the lemmas
  before it.

### ListProofs

The first part is about strict orders of finite sets: how many elements are
Before another one, that every rank is taken (EveryRankIsTaken), that a set of
numbers that is not empty has a least one (LeastOfNaturals); and about sums.
SumFunctionOnSet takes its elements one by one in an order that CHOOSE makes up.
Adds says what a function on subsets has to be to do so, and SumExists that there
is one: if not, there is a least size of subsets for which there is none, and
the function for the size below it goes on to that size. This takes the place
of the induction the provers cannot cite, and it gives that a sum of numbers is
a number (SumIsNatural, SumOfValues).

- ScrollingShowsAll (ScrollShowsAll). ListInv (WalkIsSound): a client has seen
  all that was there from the start and stands before its cursor, and nothing
  that stands behind it, if the list is compared by value or the row of the
  cursor was always there.
- SearchesOfferTheBest (OffersTheBest). Nearer is a strict order
  (NearerIsAnOrder), and so is Cheaper (CheaperIsAnOrder), although it compares
  averages as products of sums and counts: FractionsCompared is the arithmetic
  of that. A search is the first ones of the list by rank (FirstOfSorted,
  NearbyIsFirst, CheapIsFirst). Who is left out of it comes behind whoever is in
  it (LeftOutIsBehind), which is CheapLeavesOut; and a list that reaches farther
  has nobody new among the nearer ones, so it begins the same (WiderKeeps).
- SearchesAreTyped (MatchingTypeOK): a rank is one shop's, so nobody is listed
  twice and the list has no gaps (ListHasNoGaps); an answer adds one to the
  number of answers (SearchMoves).

### EstimateListProofs

- EveryShopIsListed (EveryShopOnce) and BestComesFirst (OffersInOrder).
  ResultInv: an answer is complete, answers are numbered as they came, a reader
  has each shop in one of its two lists. Each of the four sorts compares by at
  most two keys and that number (SortsAreOrders, by KeysOrder), so it is a
  strict order and the first of the list is the least.
- EstimatesTyped (EstimatesTypeOK): the answers and their lists, both parts of
  MCEstimate.

### ServiceProofs

- LoginsAtHome (LoginsEndAtHome). LoginInv: a cookie and a checked callback are
  of a login begun in that browser (CookiesOfOwn, CheckedOfOwn), and a state
  whose tokens were given out is in no cookie and no redirect under way.
- CallsBounded (OutboundTypeOK) and TimersOwned (OwnTimerRuns): a call's record
  is in SoundCall, which lists for each position the timers that may run.
- RequestsFindTheirWay (RequestsAreRouted), about the whole table of routes.
  Every router has only sound routes (SoundRoute: a handler that reads the
  user's id is behind authMiddleware, one with a parameter checks it) and none
  that hides a later one (InOrder); mounting keeps both (Mounted,
  MountedTogether), and routers one after the other do if they are Clear of each
  other, which a different literal in one segment makes them (Apart). So
  RoutesAreSound holds of the routes as they are registered, and HttpInv
  carries it to the request: the route is the first that matches (Found), and
  what the guards it has passed prove is known (GuardsAreSound, Known).
- SystemTyped (SystemTypeOK): all parts of MCSystem; SystemIsItsParts says that a
  run of them is a run of each, and each part's types are a theorem of its own.
  By the same lemma whatever is proved of a part holds in the runs of `system_core`
  (PartsAreThemselves is that lemma for `customer_core`).

### What the constants are assumed to be

Beside what each ASSUME says next to the constants: there are finitely many
taps at once, stores of the provider, shops to choose from, shops that are asked
and times that are offered; there is a customer to wish for a design, a page has a size and a limit,
and a shop has a time to offer. None excludes a state of the program.

### Only model-checked

- Liveness (RequestsEnd, EveryPostAnswered, CallsEnd, OutboundEnds): fairness
  and ENABLED are out of the prover's reach.

Every safety invariant and every action property of the runs that pass is stated
by a theorem.

## 7. Not modelled

- Subscriptions: nothing under `src/` writes one; counts and details of my page,
  of a shop, a design, a request and a reservation, which only read.
- The schema as a component of its own: its unique keys, foreign keys and
  cascades are guards and effects in the modules.
- Message texts, formatting, the bodies' validation beyond what decides a
  branch, images inside an SMS, the limit of 20 texts given to the AI.
- The text of the API documentation (config/swagger.ts and the comments of the
  route files, most of their lines); Http models the routes themselves.
- Two instances of the server for reminders and clean-ups (each would send and
  delete the same again); more of the image and reminder jobs than one run at a time.
- A notice that is lost because the server dies between a commit and `notify`:
  nothing takes it up again and nothing promises it. An SMS that arrives after
  the timer of `withTimeout` won is in EstimateRequest; what the customer makes
  of it is not.
- A commit whose acknowledgement is lost, except for reservations and estimate
  requests, where the answer says something about the row ("unconfirmed"). A
  caller of another component gets an error then although the row is written, as
  whoever calls knows of a 500.
- Rows that a cascade deletes with a user: a user with a reservation cannot be
  deleted (`customer_leave`), and of one without nothing else is asked than
  EveryUserCanSignIn.
- Access tokens: that of a deleted account is accepted until it expires; no text
  promises otherwise.
- Environment variables read when a module is imported: that they are there
  depends on infra/prisma importing dotenv first. Http takes the environment as
  given at Boot.
- The e-mail of a profile is unique as far as the checks see; the schema has no key for it.
- A shop's calendar across proposals is not recorded by the schema.
