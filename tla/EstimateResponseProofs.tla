------------------------ MODULE EstimateResponseProofs ------------------------
(***************************************************************************)
(* Proofs about EstimateResponse, for any requests, shops, messages,       *)
(* deliveries, times and offers.                                           *)
(*                                                                         *)
(* IInv says of each delivery what it knows where it stands (Good): whom   *)
(* its message was linked to, that the texts it read belong to its own     *)
(* request and shop, that an offer to be saved has a price and a time, and *)
(* that the times it takes for selected still are.  What it knows cannot   *)
(* be undone by anybody else (Keeps), so that each step has to be looked   *)
(* at for its own delivery and the rows it writes only.                    *)
(***************************************************************************)
EXTENDS EstimateResponse, WellFoundedInduction, TLAPS

-----------------------------------------------------------------------------
(* m came after an SMS about k[1] had been sent to k[2]. *)
AskedAbout(m, k) == received[m] # None /\ \E j \in 1..received[m] : sent[j] = k

(* A link of message m, in a row or about to be written to it. *)
LinkOK(m, lnk) ==
  /\ lnk.shop \in {None, Sender[m]}
  /\ lnk.request # None => lnk.shop # None /\ AskedAbout(m, <<lnk.request, lnk.shop>>)

(* Another parsing has saved the price v for the same request. *)
SavedAt(d, v) ==
  \E e \in Deliveries \ {d} :
    Saved(e) /\ KeyOf(e)[1] = KeyOf(d)[1] /\ delivery[e].offer.price = v

(* The lowest price that d read is one of those. *)
Compared(d) == SavedAt(d, delivery[d].prior)

Good(d) ==
  /\ delivery[d].pc # "idle" =>
       delivery[d].msg \in Messages /\ LinkOK(delivery[d].msg, delivery[d].row)
  /\ delivery[d].pc # "done" => delivery[d].outcome = "none"
  /\ delivery[d].pc = "link" => delivery[d].row.status # "PARSED"
  /\ Parsing(d) => delivery[d].row.request # None
  /\ delivery[d].pc \in {"parse", "wait", "lowest", "begin", "save"} =>
       \A m \in delivery[d].texts : Sender[m] = KeyOf(d)[2] /\ AskedAbout(m, KeyOf(d))
  /\ delivery[d].pc \in {"lowest", "begin", "save"} /\ delivery[d].offer.can =>
       delivery[d].offer.price # None /\ delivery[d].offer.times # {}
  /\ delivery[d].pc = "save" => delivery[d].seen.selected \subseteq selected[KeyOf(d)]
  /\ delivery[d].pc \in {"begin", "save", "notify"} /\ delivery[d].prior # None => Compared(d)
  /\ delivery[d].pc = "notify" => Exists(KeyOf(d))

Rows == (\A m \in Messages : LinkOK(m, sms[m])) /\ CountedHasResponse

Responses ==
  /\ SubmittedIsBookable
  /\ \A k \in Keys : \A m \in response[k].texts : Sender[m] = k[2] /\ AskedAbout(m, k)
  /\ \A k \in Keys : Exists(k) =>
       \E e \in Deliveries :
         KeyOf(e) = k /\ Saved(e) /\ delivery[e].offer.price = response[k].price

IInv ==
  /\ TypeOK
  /\ \A m \in Messages : received[m] # None => received[m] <= Len(sent)
  /\ \A d \in Deliveries : Good(d)
  /\ OneParsingPerMessage
  /\ Rows
  /\ Responses
  /\ NoticesTruthful

(* What a step may never undo. *)
Keeps ==
  /\ \A k \in Keys : Exists(k) => Exists(k)'
  /\ \A k \in Keys : selected[k] \subseteq selected'[k]
  /\ \A m \in Messages, k \in Keys : AskedAbout(m, k) => AskedAbout(m, k)'
  /\ \A e \in Deliveries : Saved(e) =>
        Saved(e)' /\ KeyOf(e)' = KeyOf(e) /\ delivery'[e].offer = delivery[e].offer

-----------------------------------------------------------------------------
(* Operators and types *)

(* Sets of numbers have a least element, and bounded ones a greatest. *)
LEMMA LeastNumber ==
  ASSUME NEW T \in SUBSET Nat, T # {}
  PROVE  \E p \in T : \A q \in T : p <= q
<1> DEFINE R == {ss \in Nat \X Nat : ss[1] < ss[2]}
<1>0. IsWellFoundedOn(R, Nat)
  BY NatLessThanWellFounded DEF OpToRel
<1> HIDE DEF R
<1>1. PICK p \in T : \A q \in T : <<q, p>> \notin R
  BY <1>0, WFMin
<1>2. ASSUME NEW q \in T PROVE p <= q
  <2>1. q \in Nat /\ p \in Nat
    OBVIOUS
  <2>2. ~(q < p)
    <3>1. q < p => <<q, p>> \in R
      BY ONLY <2>1 DEF R
    <3> QED
      BY <1>1, <3>1
  <2> QED
    BY ONLY <2>1, <2>2
<1> QED
  BY <1>2

LEMMA Greatest ==
  ASSUME NEW n \in Nat, NEW T \in SUBSET (1..n), T # {}
  PROVE  \E p \in T : \A q \in T : q <= p
<1> DEFINE D == {n - q : q \in T}
<1>1. \A q \in T : n - q \in Nat
  OBVIOUS
<1>2. \A q \in T : n - q \in D
  OBVIOUS
<1>3. \A x \in D : \E p \in T : x = n - p
  OBVIOUS
<1> HIDE DEF D
<1>4. PICK x \in D : \A y \in D : x <= y
  <2>1. D \in SUBSET Nat /\ D # {}
    BY <1>1, <1>2, <1>3
  <2> QED
    BY <2>1, LeastNumber
<1>5. PICK p \in T : x = n - p
  BY <1>3
<1>6. ASSUME NEW q \in T PROVE q <= p
  <2>1. n - p <= n - q
    BY <1>2, <1>4, <1>5
  <2>2. p \in 1..n /\ q \in 1..n
    OBVIOUS
  <2> QED
    BY ONLY <2>1, <2>2, n \in Nat
<1> QED
  BY <1>6

LEMMA LowestType ==
  ASSUME NEW prices \in SUBSET Nat
  PROVE  /\ LowestOf(prices) \in Nat \union {None}
         /\ IF prices = {} THEN LowestOf(prices) = None ELSE LowestOf(prices) \in prices
  BY LeastNumber DEF LowestOf

(* The request an answer is linked to was sent to its shop before. *)
LEMMA LinkTargetAsked ==
  ASSUME sent \in Seq(Keys), NEW i \in 0..Len(sent), NEW s
  PROVE  /\ LinkTarget(s, i) \in Requests \union {None}
         /\ LinkTarget(s, i) # None => \E j \in 1..i : sent[j] = <<LinkTarget(s, i), s>>
<1> DEFINE C == {j \in 1..Len(sent) : j <= i /\ sent[j][2] = s /\ sent[j][1] \notin expired}
           top == CHOOSE j \in C : \A l \in C : l <= j
<1>1. LinkTarget(s, i) = IF C = {} THEN None ELSE sent[top][1]
  BY DEF LinkTarget
<1>2. C \in SUBSET (1..Len(sent)) /\ Len(sent) \in Nat
  OBVIOUS
<1>3. CASE C = {}
  BY <1>1, <1>3
<1>4. CASE C # {}
  <2> HIDE DEF C
  <2>1. top \in C
    BY <1>2, <1>4, Greatest
  <2> HIDE DEF top
  <2>2. top \in 1..Len(sent) /\ top <= i /\ sent[top][2] = s
    BY <2>1 DEF C
  <2>3. sent[top] \in Requests \X Shops /\ top \in 1..i
    BY <2>2 DEF Keys
  <2>4. sent[top] = <<sent[top][1], s>> /\ sent[top][1] \in Requests
    BY <2>2, <2>3
  <2> QED
    BY <1>1, <1>4, <2>3, <2>4
<1> QED
  BY <1>3, <1>4

LEMMA NewDeliveryType == NewDelivery \in DeliveryRecord
<1>1. NoRow \in SmsRow
  BY DEF NoRow, SmsRow
<1>2. NoSnapshot \in [row: BOOLEAN, accepted: BOOLEAN, selected: SUBSET Times]
  BY DEF NoSnapshot
<1>3. "idle" \in Point /\ "none" \in Outcome
  BY DEF Point, Outcome
<1> QED
  BY <1>1, <1>2, <1>3 DEF NewDelivery, DeliveryRecord

(* The rest of a record stays. *)
SameElse(r, s) ==
  /\ r.msg = s.msg /\ r.row = s.row /\ r.fresh = s.fresh /\ r.seen = s.seen
  /\ r.texts = s.texts /\ r.offer = s.offer /\ r.prior = s.prior

LEMMA Changed ==
  ASSUME TypeOK, NEW d \in Deliveries, NEW r \in DeliveryRecord,
         delivery' = [delivery EXCEPT ![d] = r]
  PROVE  /\ delivery' \in [Deliveries -> DeliveryRecord]
         /\ delivery'[d] = r
         /\ \A e \in Deliveries : e # d => delivery'[e] = delivery[e]
  BY DEF TypeOK

LEMMA PcRecord ==
  ASSUME NEW r \in DeliveryRecord, NEW pc \in Point
  PROVE  /\ [r EXCEPT !.pc = pc] \in DeliveryRecord
         /\ [r EXCEPT !.pc = pc].pc = pc /\ [r EXCEPT !.pc = pc].outcome = r.outcome
         /\ SameElse([r EXCEPT !.pc = pc], r)
  BY DEF DeliveryRecord, SameElse

LEMMA OutcomeRecord ==
  ASSUME NEW r \in DeliveryRecord, NEW o \in Outcome
  PROVE  /\ [r EXCEPT !.pc = "done", !.outcome = o] \in DeliveryRecord
         /\ [r EXCEPT !.pc = "done", !.outcome = o].pc = "done"
         /\ [r EXCEPT !.pc = "done", !.outcome = o].outcome = o
         /\ SameElse([r EXCEPT !.pc = "done", !.outcome = o], r)
  BY DEF DeliveryRecord, SameElse, Point

LEMMA GoToEffect ==
  ASSUME TypeOK, NEW d \in Deliveries, NEW pc \in Point, GoTo(d, pc)
  PROVE  /\ delivery' \in [Deliveries -> DeliveryRecord]
         /\ delivery'[d].pc = pc /\ delivery'[d].outcome = delivery[d].outcome
         /\ SameElse(delivery'[d], delivery[d])
         /\ \A e \in Deliveries : e # d => delivery'[e] = delivery[e]
<1> DEFINE r == [delivery[d] EXCEPT !.pc = pc]
<1>1. delivery[d] \in DeliveryRecord /\ delivery' = [delivery EXCEPT ![d] = r]
  BY DEF TypeOK, GoTo
<1>2. /\ r \in DeliveryRecord /\ r.pc = pc /\ r.outcome = delivery[d].outcome
      /\ SameElse(r, delivery[d])
  BY ONLY <1>1, PcRecord, pc \in Point
<1> HIDE DEF r
<1> QED
  BY <1>1, <1>2, Changed

LEMMA EndEffect ==
  ASSUME TypeOK, NEW d \in Deliveries, NEW o \in Outcome,
         delivery' = [delivery EXCEPT ![d].pc = "done", ![d].outcome = o]
  PROVE  /\ delivery' \in [Deliveries -> DeliveryRecord]
         /\ delivery'[d].pc = "done" /\ delivery'[d].outcome = o
         /\ SameElse(delivery'[d], delivery[d])
         /\ \A e \in Deliveries : e # d => delivery'[e] = delivery[e]
<1> DEFINE r == [delivery[d] EXCEPT !.pc = "done", !.outcome = o]
<1>1. delivery[d] \in DeliveryRecord /\ delivery' = [delivery EXCEPT ![d] = r]
  BY DEF TypeOK
<1>2. /\ r \in DeliveryRecord /\ r.pc = "done" /\ r.outcome = o
      /\ SameElse(r, delivery[d])
  BY ONLY <1>1, OutcomeRecord, o \in Outcome
<1> HIDE DEF r
<1> QED
  BY <1>1, <1>2, Changed

LEMMA FinishEffect ==
  ASSUME TypeOK, NEW d \in Deliveries, NEW o \in Outcome, Finish(d, o)
  PROVE  /\ delivery' \in [Deliveries -> DeliveryRecord]
         /\ delivery'[d].pc = "done" /\ delivery'[d].outcome = o
         /\ delivery'[d].msg = delivery[d].msg /\ delivery'[d].row = delivery[d].row
         /\ o = "saved" => delivery'[d].offer = delivery[d].offer
         /\ \A e \in Deliveries : e # d => delivery'[e] = delivery[e]
         /\ processing' = processing \ {delivery[d].msg}
<1> DEFINE q == IF o = "saved" THEN delivery[d].offer ELSE NewDelivery.offer
           r == [NewDelivery EXCEPT !.pc = "done", !.outcome = o, !.offer = q,
                                    !.msg = delivery[d].msg, !.row = delivery[d].row]
<1>1. /\ delivery[d] \in DeliveryRecord /\ delivery' = [delivery EXCEPT ![d] = r]
      /\ processing' = processing \ {delivery[d].msg}
  BY NewDeliveryType DEF TypeOK, Finish, DeliveryRecord
<1>2. /\ delivery[d].msg \in Messages \union {None} /\ delivery[d].row \in SmsRow
      /\ q \in Offers \union {NoOffer} /\ (o = "saved" => q = delivery[d].offer)
  BY <1>1, NewDeliveryType DEF DeliveryRecord
<1> HIDE DEF q
<1>3. /\ r \in DeliveryRecord /\ r.pc = "done" /\ r.outcome = o /\ r.offer = q
      /\ r.msg = delivery[d].msg /\ r.row = delivery[d].row
  BY ONLY <1>2, NewDeliveryType, o \in Outcome DEF DeliveryRecord, Point
<1> HIDE DEF r
<1> QED
  BY <1>1, <1>2, <1>3, Changed

-----------------------------------------------------------------------------
(* How the parts of the invariant survive a step *)

LEMMA InitInvariant == Init => IInv
<1> SUFFICES ASSUME Init PROVE IInv
  OBVIOUS
<1>1. TypeOK
  <2>1. NoRow \in SmsRow /\ NewDelivery \in DeliveryRecord
    BY NewDeliveryType DEF NoRow, SmsRow
  <2>2. [status |-> "none", price |-> None, texts |-> {}] \in ResponseRow
    BY DEF ResponseRow
  <2> QED
    BY <2>1, <2>2 DEF Init, TypeOK
<1>2. \A d \in Deliveries : delivery[d].pc = "idle" /\ delivery[d].outcome = "none"
  BY DEF Init, NewDelivery
<1>3. \A d \in Deliveries : Good(d)
  BY <1>2 DEF Good, Parsing
<1>4. OneParsingPerMessage
  BY <1>2 DEF Init, OneParsingPerMessage, Parsing
<1>5. Rows
  BY DEF Init, Rows, CountedHasResponse, NoRow, LinkOK
<1>6. Responses
  BY DEF Init, Responses, SubmittedIsBookable, Exists
<1>7. NoticesTruthful
  BY DEF Init, NoticesTruthful
<1> QED
  BY <1>1, <1>3, <1>4, <1>5, <1>6, <1>7 DEF IInv, Init

LEMMA KeyOfParsing ==
  ASSUME IInv, NEW d \in Deliveries, Parsing(d)
  PROVE  /\ KeyOf(d) \in Keys
         /\ delivery[d].msg \in Messages /\ delivery[d] \in DeliveryRecord
         /\ KeyOf(d)[1] = delivery[d].row.request /\ KeyOf(d)[2] = delivery[d].row.shop
<1>1. delivery[d] \in DeliveryRecord /\ delivery[d].row \in SmsRow
  BY DEF IInv, TypeOK, DeliveryRecord
<1>2. delivery[d].row.request # None /\ delivery[d].row.shop # None /\ delivery[d].msg \in Messages
  BY DEF IInv, Good, Parsing, LinkOK
<1> QED
  BY <1>1, <1>2 DEF KeyOf, Keys, SmsRow

LEMMA LinkKept ==
  ASSUME IInv, Keeps, NEW m \in Messages, NEW lnk \in SmsRow, LinkOK(m, lnk)
  PROVE  /\ lnk.shop \in {None, Sender[m]}
         /\ lnk.request # None => lnk.shop # None /\ AskedAbout(m, <<lnk.request, lnk.shop>>)'
<1>1. ASSUME lnk.request # None
      PROVE  lnk.shop # None /\ AskedAbout(m, <<lnk.request, lnk.shop>>)'
  <2>1. <<lnk.request, lnk.shop>> \in Keys
    BY <1>1 DEF LinkOK, Keys, SmsRow
  <2> QED
    BY <1>1, <2>1 DEF LinkOK, Keeps
<1> QED
  BY <1>1 DEF LinkOK

(* A delivery that does not move keeps what it knows. *)
LEMMA OthersStayGood ==
  ASSUME IInv, Keeps, NEW e \in Deliveries, delivery'[e] = delivery[e]
  PROVE  Good(e)'
<1>0. Good(e) /\ delivery[e] \in DeliveryRecord
  BY DEF IInv, TypeOK
<1>1. delivery[e].pc # "idle" =>
        delivery[e].msg \in Messages /\ LinkOK(delivery[e].msg, delivery[e].row)'
  <2>1. delivery[e].row \in SmsRow
    BY <1>0 DEF DeliveryRecord
  <2> QED
    BY <1>0, <2>1, LinkKept DEF Good, LinkOK
<1>2. KeyOf(e)' = KeyOf(e) /\ Parsing(e)' = Parsing(e)
  BY DEF KeyOf, Parsing
<1>3. CASE Parsing(e)
  <2>1. KeyOf(e) \in Keys
    BY <1>3, KeyOfParsing
  <2>2. delivery[e].pc \in {"parse", "wait", "lowest", "begin", "save"} =>
          \A m \in delivery[e].texts : Sender[m] = KeyOf(e)[2] /\ AskedAbout(m, KeyOf(e))'
    <3>1. delivery[e].texts \subseteq Messages
      BY <1>0 DEF DeliveryRecord
    <3> QED
      BY <1>0, <1>2, <2>1, <3>1 DEF Good, Keeps
  <2>3. Compared(e) => Compared(e)'
    BY <1>2 DEF SavedAt, Compared, Keeps
  <2>4. delivery[e].pc = "save" => delivery[e].seen.selected \subseteq selected'[KeyOf(e)]
    BY <1>0, <2>1 DEF Good, Keeps
  <2>5. delivery[e].pc = "notify" => Exists(KeyOf(e))'
    BY <1>0, <1>2, <2>1 DEF Good, Keeps
  <2> QED
    BY <1>0, <1>1, <1>2, <1>3, <2>2, <2>3, <2>4, <2>5 DEF Good
<1>4. CASE ~Parsing(e)
  <2>1. delivery[e].pc \in {"idle", "link", "dispatch", "done"}
    BY <1>0, <1>4 DEF DeliveryRecord, Point, Parsing
  <2> QED
    BY <1>0, <1>1, <1>2, <1>4, <2>1 DEF Good
<1> QED
  BY <1>3, <1>4

LEMMA RowsStay ==
  ASSUME IInv, Keeps, UNCHANGED sms
  PROVE  Rows'
<1>1. ASSUME NEW m \in Messages PROVE LinkOK(m, sms[m])'
  <2>1. sms[m] \in SmsRow /\ LinkOK(m, sms[m])
    BY DEF IInv, TypeOK, Rows
  <2> QED
    BY <2>1, LinkKept DEF LinkOK
<1>2. CountedHasResponse'
  <2>1. CountedHasResponse
    BY DEF IInv, Rows
  <2>2. \A k \in Keys : Exists(k) => Exists(k)'
    BY DEF Keeps
  <2> QED
    BY <2>1, <2>2 DEF CountedHasResponse
<1> QED
  BY <1>1, <1>2 DEF Rows

LEMMA TextsStay ==
  ASSUME IInv, Keeps, NEW k \in Keys, response'[k].texts = response[k].texts
  PROVE  \A m \in response'[k].texts : Sender[m] = k[2] /\ AskedAbout(m, k)'
<1>1. response[k].texts \subseteq Messages
  BY DEF IInv, TypeOK, ResponseRow
<1> QED
  BY <1>1 DEF IInv, Responses, Keeps

LEMMA SaversStay ==
  ASSUME IInv, Keeps, NEW k \in Keys, Exists(k)
  PROVE  \E e \in Deliveries :
           KeyOf(e)' = k /\ Saved(e)' /\ delivery'[e].offer.price = response[k].price
<1>1. PICK e \in Deliveries :
        KeyOf(e) = k /\ Saved(e) /\ delivery[e].offer.price = response[k].price
  BY DEF IInv, Responses
<1> QED
  BY <1>1 DEF Keeps

LEMMA ResponsesStay ==
  ASSUME IInv, Keeps, UNCHANGED <<response, selected, open>>
  PROVE  Responses'
<1>1. SubmittedIsBookable'
  BY DEF IInv, Responses, SubmittedIsBookable
<1>2. \A k \in Keys : \A m \in response'[k].texts : Sender[m] = k[2] /\ AskedAbout(m, k)'
  BY TextsStay
<1>3. \A k \in Keys : Exists(k)' =>
        \E e \in Deliveries :
          KeyOf(e)' = k /\ Saved(e)' /\ delivery'[e].offer.price = response'[k].price
  BY SaversStay DEF Exists
<1> QED
  BY <1>1, <1>2, <1>3 DEF Responses

LEMMA UndercutsKept ==
  ASSUME Keeps, NEW d \in Deliveries, Saved(d), Undercuts(d)
  PROVE  Undercuts(d)'
  BY DEF Keeps, Undercuts

(* What a notice says stays true. *)
LEMMA NoticeStays ==
  ASSUME IInv, Keeps, NEW n \in notices,
         \A e \in Deliveries :
           delivery[e].outcome = "saved" => delivery'[e].outcome = "saved"
  PROVE  /\ Exists(n.key)' /\ n.key = KeyOf(n.from)'
         /\ delivery'[n.from].outcome = "saved"
         /\ n.type = "LOWER_ESTIMATE" => Undercuts(n.from)'
<1>1. n.key \in Keys /\ n.from \in Deliveries
  BY DEF IInv, TypeOK, Notice
<1>2. /\ Exists(n.key) /\ n.key = KeyOf(n.from) /\ delivery[n.from].outcome = "saved"
      /\ n.type = "LOWER_ESTIMATE" => Undercuts(n.from)
  BY DEF IInv, NoticesTruthful
<1>3. Saved(n.from)
  BY <1>2 DEF Saved
<1>4. /\ Exists(n.key)' /\ n.key = KeyOf(n.from)'
      /\ delivery'[n.from].outcome = "saved"
  BY <1>1, <1>2, <1>3 DEF Keeps
<1>5. Undercuts(n.from) => Undercuts(n.from)'
  BY <1>1, <1>3, UndercutsKept
<1> QED
  BY <1>2, <1>4, <1>5

LEMMA NoticesStay ==
  ASSUME IInv, Keeps, UNCHANGED notices,
         \A e \in Deliveries :
           delivery[e].outcome = "saved" => delivery'[e].outcome = "saved"
  PROVE  NoticesTruthful'
<1>1. \A n, o \in notices : n.from = o.from => n = o
  BY DEF IInv, NoticesTruthful
<1> QED
  BY <1>1, NoticeStays DEF NoticesTruthful, Saved

(* The set of messages being parsed, when a parsing goes on, starts, ends. *)
LEMMA ParsingKept ==
  ASSUME IInv, NEW d \in Deliveries, UNCHANGED processing,
         \A e \in Deliveries : e # d => delivery'[e] = delivery[e],
         Parsing(d)' <=> Parsing(d), Parsing(d) => delivery'[d].msg = delivery[d].msg
  PROVE  OneParsingPerMessage'
<1>1. OneParsingPerMessage
  BY DEF IInv
<1>2. \A e \in Deliveries :
        /\ Parsing(e)' <=> Parsing(e)
        /\ Parsing(e) => delivery'[e].msg = delivery[e].msg
  BY DEF Parsing
<1> QED
  BY <1>1, <1>2 DEF OneParsingPerMessage

LEMMA ParsingStarts ==
  ASSUME IInv, NEW d \in Deliveries, ~Parsing(d), Parsing(d)',
         \A e \in Deliveries : e # d => delivery'[e] = delivery[e],
         delivery'[d].msg = delivery[d].msg, delivery[d].msg \notin processing,
         processing' = processing \union {delivery[d].msg}
  PROVE  OneParsingPerMessage'
<1>1. OneParsingPerMessage
  BY DEF IInv
<1>2. \A e \in Deliveries :
        /\ Parsing(e)' <=> (Parsing(e) \/ e = d)
        /\ delivery'[e].msg = delivery[e].msg
  BY DEF Parsing
<1> QED
  BY <1>1, <1>2 DEF OneParsingPerMessage

LEMMA ParsingEnds ==
  ASSUME IInv, NEW d \in Deliveries, Parsing(d), ~Parsing(d)',
         \A e \in Deliveries : e # d => delivery'[e] = delivery[e],
         processing' = processing \ {delivery[d].msg}
  PROVE  OneParsingPerMessage'
<1>1. OneParsingPerMessage
  BY DEF IInv
<1>2. \A e \in Deliveries :
        /\ Parsing(e)' <=> (Parsing(e) /\ e # d)
        /\ e # d => delivery'[e].msg = delivery[e].msg
  BY DEF Parsing
<1>3. \A e \in Deliveries :
        Parsing(d) /\ Parsing(e) /\ delivery[d].msg = delivery[e].msg => d = e
  BY <1>1 DEF OneParsingPerMessage
<1>4. \A e \in Deliveries : Parsing(e) => delivery[e].msg \in processing
  BY <1>1 DEF OneParsingPerMessage
<1>5. \A m \in processing : \E e \in Deliveries : Parsing(e) /\ delivery[e].msg = m
  BY <1>1 DEF OneParsingPerMessage
<1>6. \A e, f \in Deliveries :
        Parsing(e)' /\ Parsing(f)' /\ delivery'[e].msg = delivery'[f].msg => e = f
  BY <1>1, <1>2 DEF OneParsingPerMessage
<1>7. \A e \in Deliveries : Parsing(e)' => delivery'[e].msg \in processing'
  BY <1>2, <1>3, <1>4
<1>8. \A m \in processing' : \E e \in Deliveries : Parsing(e)' /\ delivery'[e].msg = m
  BY <1>2, <1>5
<1> QED
  BY <1>6, <1>7, <1>8 DEF OneParsingPerMessage

(* A step of d that changes no more than what only d knew. *)
LEMMA KeepsRows ==
  ASSUME IInv, NEW d \in Deliveries, UNCHANGED <<sent, received, selected>>,
         \A k \in Keys : Exists(k) => Exists(k)',
         \A e \in Deliveries : e # d => delivery'[e] = delivery[e],
         Saved(d) =>
           /\ Saved(d)' /\ delivery'[d].row = delivery[d].row
           /\ delivery'[d].offer = delivery[d].offer
  PROVE  Keeps
<1>1. \A m \in Messages, k \in Keys : AskedAbout(m, k) => AskedAbout(m, k)'
  BY DEF AskedAbout
<1>2. \A e \in Deliveries : Saved(e) =>
        Saved(e)' /\ KeyOf(e)' = KeyOf(e) /\ delivery'[e].offer = delivery[e].offer
  BY DEF Saved, KeyOf
<1> QED
  BY <1>1, <1>2 DEF Keeps

(* The parts are the whole. *)
LEMMA Together ==
  ASSUME IInv, Keeps, NEW d \in Deliveries, TypeOK',
         \A m \in Messages : received'[m] # None => received'[m] <= Len(sent'),
         \A e \in Deliveries : e # d => delivery'[e] = delivery[e],
         Good(d)', OneParsingPerMessage', Rows', Responses', NoticesTruthful'
  PROVE  IInv'
<1>1. ASSUME NEW e \in Deliveries PROVE Good(e)'
  <2>1. CASE e = d
    BY <2>1
  <2>2. CASE e # d
    BY <2>2, OthersStayGood
  <2> QED
    BY <2>1, <2>2
<1> QED
  BY <1>1 DEF IInv

(* A step of d between two statements of its parsing or of its webhook:    *)
(* it writes nothing.                                                      *)
LEMMA QuietStep ==
  ASSUME IInv, NEW d \in Deliveries, ~Saved(d),
         delivery' \in [Deliveries -> DeliveryRecord], processing' \in SUBSET Messages,
         UNCHANGED <<world, received, tables, notices>>,
         \A e \in Deliveries : e # d => delivery'[e] = delivery[e],
         Good(d)', OneParsingPerMessage'
  PROVE  IInv' /\ Keeps
<1>1. UNCHANGED <<sent, expired, received, sms, response, selected, open, notices>>
  BY DEF world, tables
<1>2. Keeps
  BY <1>1, KeepsRows DEF Exists
<1>3. TypeOK'
  BY <1>1 DEF IInv, TypeOK
<1>4. Rows' /\ Responses'
  BY <1>1, <1>2, RowsStay, ResponsesStay
<1>5. NoticesTruthful'
  BY <1>1, <1>2, NoticesStay DEF Saved
<1>6. \A m \in Messages : received'[m] # None => received'[m] <= Len(sent')
  BY <1>1 DEF IInv
<1> QED
  BY <1>2, <1>3, <1>4, <1>5, <1>6, Together

-----------------------------------------------------------------------------
(* The webhook *)

LEMMA BeginDeliveryStep ==
  ASSUME IInv, NEW d \in Deliveries, NEW m \in Messages, NEW s \in {Sender[m], None},
         NEW i \in 0..Len(sent), BeginDelivery(d, m, s, i)
  PROVE  IInv' /\ Keeps
<1> DEFINE r == LinkTarget(s, i)
           fresh == [NoRow EXCEPT
                       !.status = IF s = None \/ r = None THEN "FAILED" ELSE "PENDING",
                       !.request = IF s = None THEN None ELSE r, !.shop = s]
           lnk == IF Linked(sms[m]) THEN sms[m] ELSE fresh
           rec == [NewDelivery EXCEPT
                     !.pc = IF Linked(sms[m]) THEN "dispatch" ELSE "link",
                     !.msg = m, !.fresh = sms[m].status = "none", !.row = lnk]
<1>0. /\ delivery[d].pc = "idle" /\ (i = received[m] \/ received[m] = None)
      /\ received' = [received EXCEPT ![m] = i]
      /\ delivery' = [delivery EXCEPT ![d] = rec]
      /\ UNCHANGED <<sent, expired, sms, response, selected, open, processing, notices>>
  BY DEF BeginDelivery, world, tables
<1>1. TypeOK /\ sms[m] \in SmsRow /\ LinkOK(m, sms[m]) /\ Good(d)
  BY DEF IInv, TypeOK, Rows
<1>2. r \in Requests \union {None} /\ (r # None => \E j \in 1..i : sent[j] = <<r, s>>)
  BY <1>1, LinkTargetAsked DEF TypeOK
<1>3. received'[m] = i /\ \A n \in Messages : n # m => received'[n] = received[n]
  BY <1>0, <1>1 DEF TypeOK
<1>4. fresh \in SmsRow
  BY <1>1, <1>2, SenderAssumption DEF SmsRow, NoRow
<1>5. /\ fresh.status \in {"FAILED", "PENDING"} /\ fresh.shop = s
      /\ fresh.request # None => s # None /\ fresh.request = r /\ r # None
  BY DEF NoRow
<1>6. lnk \in SmsRow
  BY <1>1, <1>4
<1>7. /\ rec \in DeliveryRecord /\ rec.pc \in {"dispatch", "link"} /\ rec.outcome = "none"
      /\ rec.msg = m /\ rec.row = lnk /\ (rec.pc = "link" => ~Linked(sms[m]))
  <2>1. NewDelivery \in DeliveryRecord /\ NewDelivery.outcome = "none"
    BY NewDeliveryType DEF NewDelivery
  <2>2. PICK p \in {"dispatch", "link"} : p = IF Linked(sms[m]) THEN "dispatch" ELSE "link"
    OBVIOUS
  <2>3. PICK b \in BOOLEAN : b = (sms[m].status = "none")
    OBVIOUS
  <2>4. rec = [NewDelivery EXCEPT !.pc = p, !.msg = m, !.fresh = b, !.row = lnk]
    BY <2>2, <2>3
  <2>5. p = "link" => ~Linked(sms[m])
    BY <2>2
  <2> HIDE DEF rec, lnk
  <2> QED
    BY ONLY <1>6, <2>1, <2>4, <2>5, p \in {"dispatch", "link"}, b \in BOOLEAN, m \in Messages
    DEF DeliveryRecord, Point
<1> HIDE DEF r, fresh, rec
<1>8. /\ delivery' \in [Deliveries -> DeliveryRecord] /\ delivery'[d] = rec
      /\ \A e \in Deliveries : e # d => delivery'[e] = delivery[e]
  BY <1>0, <1>1, <1>7, Changed
<1>9. Keeps
  <2>1. \A n \in Messages : received[n] # None => received'[n] = received[n]
    BY <1>0, <1>3
  <2>2. \A n \in Messages, k \in Keys : AskedAbout(n, k) => AskedAbout(n, k)'
    BY <1>0, <2>1 DEF AskedAbout
  <2>3. ~Saved(d)
    BY <1>0, <1>1 DEF Saved, Good
  <2>4. \A e \in Deliveries : Saved(e) =>
        Saved(e)' /\ KeyOf(e)' = KeyOf(e) /\ delivery'[e].offer = delivery[e].offer
    BY <1>8, <2>3 DEF Saved, KeyOf
  <2> QED
    BY <1>0, <2>2, <2>4 DEF Keeps, Exists
<1>10. i \in Nat /\ i <= Len(sent) /\ Len(sent) \in Nat
  BY <1>1 DEF TypeOK
<1>11. TypeOK'
  BY <1>0, <1>1, <1>3, <1>8, <1>10 DEF TypeOK
<1>12. \A n \in Messages : received'[n] # None => received'[n] <= Len(sent')
  BY <1>0, <1>3, <1>10 DEF IInv
<1>13. PICK q \in SmsRow : q = lnk
  BY <1>6
<1>14. LinkOK(m, q)'
  <2>1. CASE Linked(sms[m])
    <3>1. q = sms[m]
      BY <1>13, <2>1
    <3> QED
      BY <1>1, <1>9, <3>1, LinkKept DEF LinkOK
  <2>2. CASE ~Linked(sms[m])
    <3>1. q = fresh
      BY <1>13, <2>2
    <3>2. q.request # None => s # None /\ \E j \in 1..i : sent'[j] = <<q.request, q.shop>>
      BY <1>0, <1>2, <1>5, <3>1
    <3>3. received'[m] = i /\ i # None
      BY <1>3, <1>10, NoneAssumption
    <3>4. q.shop = s
      BY <1>5, <3>1
    <3> QED
      BY <3>2, <3>3, <3>4 DEF LinkOK, AskedAbout
  <2> QED
    BY <2>1, <2>2
<1>15. Good(d)'
  <2>1. /\ delivery'[d].pc \in {"dispatch", "link"} /\ delivery'[d].outcome = "none"
        /\ delivery'[d].msg = m /\ delivery'[d].row = q
    BY <1>7, <1>8, <1>13
  <2>2. delivery'[d].pc = "link" => q.status # "PARSED"
    BY <1>5, <1>7, <1>8, <1>13
  <2> QED
    BY <1>14, <2>1, <2>2 DEF Good, Parsing
<1>16. OneParsingPerMessage'
  BY <1>0, <1>7, <1>8, ParsingKept DEF Parsing
<1>17. Rows' /\ Responses'
  BY <1>0, <1>9, RowsStay, ResponsesStay
<1>18. NoticesTruthful'
  BY <1>0, <1>1, <1>8, <1>9, NoticesStay DEF Good
<1> QED
  BY <1>8, <1>9, <1>11, <1>12, <1>15, <1>16, <1>17, <1>18, Together

(* A webhook's call ends without having written. *)
LEMMA EndsEarly ==
  ASSUME IInv, NEW d \in Deliveries, NEW o \in Outcome, ~Saved(d), ~Parsing(d),
         delivery[d].pc # "idle",
         delivery' = [delivery EXCEPT ![d].pc = "done", ![d].outcome = o],
         UNCHANGED <<world, received, tables, processing, notices>>
  PROVE  IInv' /\ Keeps
<1>1. TypeOK /\ Good(d) /\ delivery[d].row \in SmsRow
  BY DEF IInv, TypeOK, DeliveryRecord
<1>2. /\ delivery' \in [Deliveries -> DeliveryRecord]
      /\ delivery'[d].pc = "done" /\ delivery'[d].outcome = o
      /\ delivery'[d].msg = delivery[d].msg /\ delivery'[d].row = delivery[d].row
      /\ \A e \in Deliveries : e # d => delivery'[e] = delivery[e]
  BY <1>1, EndEffect DEF SameElse
<1>3. LinkOK(delivery[d].msg, delivery[d].row) => LinkOK(delivery[d].msg, delivery[d].row)'
  BY <1>2 DEF LinkOK, AskedAbout, world
<1>4. Good(d)'
  BY <1>1, <1>2, <1>3 DEF Good, Parsing
<1>5. OneParsingPerMessage'
  BY <1>2, ParsingKept DEF Parsing
<1>6. processing' \in SUBSET Messages
  BY <1>1 DEF TypeOK
<1> QED
  BY <1>2, <1>4, <1>5, <1>6, QuietStep

LEMMA RefuseDeliveryStep ==
  ASSUME IInv, NEW d \in Deliveries, RefuseDelivery(d)
  PROVE  IInv' /\ Keeps
<1>1. "error" \in Outcome /\ Good(d)
  BY DEF Outcome, IInv
<1> QED
  BY <1>1, EndsEarly DEF RefuseDelivery, Good, Saved, Parsing

LEMMA CommitLinkStep ==
  ASSUME IInv, NEW d \in Deliveries, CommitLink(d)
  PROVE  IInv' /\ Keeps
<1> DEFINE m == delivery[d].msg
           new == delivery[d].row
           old == sms[m]
           lnk == [status |-> new.status,
                   request |-> IF new.request = None THEN old.request ELSE new.request,
                   shop |-> IF new.shop = None THEN old.shop ELSE new.shop,
                   counted |-> old.counted]
<1>0. /\ delivery[d].pc = "link" /\ ~Saved(d) /\ ~Parsing(d)
      /\ UNCHANGED <<sent, expired, received, response, selected, open, processing, notices>>
  BY DEF CommitLink, world, Saved, Parsing, IInv, Good
<1>1. /\ TypeOK /\ m \in Messages /\ new \in SmsRow /\ old \in SmsRow
      /\ LinkOK(m, new) /\ LinkOK(m, old) /\ new.status # "PARSED"
      /\ delivery[d] \in DeliveryRecord
  BY <1>0 DEF IInv, TypeOK, DeliveryRecord, Good, Rows
<1>2. CASE /\ delivery' = [delivery EXCEPT ![d].pc = "done", ![d].outcome = "error"]
           /\ UNCHANGED sms
  <2>1. "error" \in Outcome
    BY DEF Outcome
  <2> QED
    BY <1>0, <1>2, <2>1, EndsEarly DEF world, tables
<1>3. CASE /\ sms' = [sms EXCEPT ![m] = lnk]
           /\ delivery' = [delivery EXCEPT ![d].pc = "dispatch", ![d].row = lnk]
  <2>1. /\ lnk \in SmsRow /\ lnk.status # "PARSED" /\ lnk.counted = old.counted
        /\ lnk.request = (IF new.request = None THEN old.request ELSE new.request)
        /\ lnk.shop = (IF new.shop = None THEN old.shop ELSE new.shop)
    BY <1>1 DEF SmsRow
  <2>2. PICK q \in SmsRow : q = lnk
    BY <2>1
  <2> DEFINE rec == [delivery[d] EXCEPT !.pc = "dispatch", !.row = q]
  <2>3. /\ rec \in DeliveryRecord /\ rec.pc = "dispatch" /\ rec.row = q
        /\ rec.msg = m /\ rec.outcome = delivery[d].outcome
    BY <1>1 DEF DeliveryRecord, Point
  <2>4. /\ q.status # "PARSED" /\ q.counted = old.counted /\ LinkOK(m, q)
        /\ old.shop # None => q.shop = old.shop
    <3>1. /\ q.request = (IF new.request = None THEN old.request ELSE new.request)
          /\ q.shop = (IF new.shop = None THEN old.shop ELSE new.shop)
          /\ q.status # "PARSED" /\ q.counted = old.counted
      BY <2>1, <2>2
    <3>2. q.shop \in {None, Sender[m]}
      BY <1>1, <3>1 DEF LinkOK
    <3>3. ASSUME q.request # None
          PROVE  q.shop # None /\ AskedAbout(m, <<q.request, q.shop>>)
      <4>1. CASE new.request = None
        <5>1. old.request = q.request /\ old.shop = Sender[m] /\ old.shop # None
          BY <1>1, <3>1, <3>3, <4>1 DEF LinkOK
        <5>2. q.shop = old.shop
          BY <1>1, <3>1, <5>1 DEF LinkOK
        <5> QED
          BY <1>1, <3>3, <5>1, <5>2 DEF LinkOK
      <4>2. CASE new.request # None
        <5>1. q.request = new.request /\ q.shop = new.shop
          BY <1>1, <3>1, <4>2 DEF LinkOK
        <5> QED
          BY <1>1, <4>2, <5>1 DEF LinkOK
      <4> QED
        BY <4>1, <4>2
    <3>4. old.shop # None => q.shop = old.shop
      BY <1>1, <3>1 DEF LinkOK
    <3> QED
      BY <3>1, <3>2, <3>3, <3>4 DEF LinkOK
  <2>5. delivery' = [delivery EXCEPT ![d] = rec] /\ sms' = [sms EXCEPT ![m] = q]
    BY <1>1, <1>3, <2>2 DEF TypeOK
  <2> HIDE DEF lnk, rec
  <2>6. /\ delivery' \in [Deliveries -> DeliveryRecord] /\ delivery'[d] = rec
        /\ \A e \in Deliveries : e # d => delivery'[e] = delivery[e]
    BY <1>1, <2>3, <2>5, Changed
  <2>7. /\ sms' \in [Messages -> SmsRow] /\ sms'[m] = q
        /\ \A n \in Messages : n # m => sms'[n] = sms[n]
    BY <1>1, <2>5 DEF TypeOK
  <2>8. Keeps
    BY <1>0, <2>6, KeepsRows DEF Exists
  <2>9. TypeOK'
    BY <1>0, <1>1, <2>6, <2>7 DEF TypeOK
  <2>10. LinkOK(delivery[d].msg, delivery[d].row)'
    BY <1>0, <2>3, <2>4, <2>6 DEF LinkOK, AskedAbout
  <2>11. Good(d)'
    <3>1. delivery[d].outcome = "none"
      BY <1>0 DEF CommitLink, IInv, Good
    <3>. QED  BY <1>0, <1>1, <2>3, <2>6, <2>10, <3>1 DEF Good, Parsing, Saved
  <2>12. OneParsingPerMessage'
    BY <1>0, <2>3, <2>6, ParsingKept DEF Parsing
  <2>13. Rows'
    <3>1. ASSUME NEW n \in Messages PROVE LinkOK(n, sms[n])'
      <4>1. LinkOK(n, sms'[n])
        BY <2>4, <2>7 DEF IInv, Rows
      <4> QED
        BY <1>0, <4>1 DEF LinkOK, AskedAbout
    <3>2. CountedHasResponse'
      <4>0. CountedHasResponse
        BY DEF IInv, Rows
      <4>1. ASSUME NEW n \in Messages
            PROVE  /\ sms'[n].counted => \E k \in Keys : k[2] = sms'[n].shop /\ Exists(k)
                   /\ sms'[n].status = "PARSED" => sms'[n].counted
        <5>1. CASE n = m
          <6>1. old.counted => q.shop = old.shop
            <7>1. old.counted => \E k \in Keys : k[2] = old.shop
              BY <1>1, <4>0 DEF CountedHasResponse
            <7>2. \A k \in Keys : k[2] # None
              BY NoneAssumption DEF Keys
            <7> QED
              BY <2>4, <7>1, <7>2
          <6> QED
            BY <2>4, <2>7, <4>0, <5>1, <6>1 DEF CountedHasResponse
        <5>2. CASE n # m
          BY <2>7, <4>0, <5>2 DEF CountedHasResponse
        <5> QED
          BY <5>1, <5>2
      <4> QED
        BY <1>0, <4>1 DEF CountedHasResponse, Exists
    <3> QED
      BY <3>1, <3>2 DEF Rows
  <2>14. Responses'
    BY <1>0, <2>8, ResponsesStay
  <2>15. NoticesTruthful'
    BY <1>0, <2>6, <2>8, NoticesStay DEF Saved
  <2>16. \A n \in Messages : received'[n] # None => received'[n] <= Len(sent')
    BY <1>0 DEF IInv
  <2> QED
    BY <2>6, <2>8, <2>9, <2>11, <2>12, <2>13, <2>14, <2>15, <2>16, Together
<1> QED
  BY <1>2, <1>3 DEF CommitLink

LEMMA DispatchStep ==
  ASSUME IInv, NEW d \in Deliveries, Dispatch(d)
  PROVE  IInv' /\ Keeps
<1>0. /\ delivery[d].pc = "dispatch" /\ ~Saved(d) /\ ~Parsing(d) /\ Good(d) /\ TypeOK
      /\ UNCHANGED <<world, received, tables, notices>>
  BY DEF Dispatch, Saved, Parsing, IInv, Good
<1>1. CASE /\ processing' = processing
           /\ delivery' = [delivery EXCEPT ![d].pc = "done", ![d].outcome = "skipped"]
  <2>1. "skipped" \in Outcome
    BY DEF Outcome
  <2> QED
    BY <1>0, <1>1, <2>1, EndsEarly
<1>2. CASE /\ Linked(delivery[d].row) /\ delivery[d].msg \notin processing
           /\ processing' = processing \union {delivery[d].msg}
           /\ GoTo(d, "context")
  <2>1. /\ delivery' \in [Deliveries -> DeliveryRecord]
        /\ delivery'[d].pc = "context" /\ delivery'[d].outcome = delivery[d].outcome
        /\ delivery'[d].msg = delivery[d].msg /\ delivery'[d].row = delivery[d].row
        /\ \A e \in Deliveries : e # d => delivery'[e] = delivery[e]
    BY <1>0, <1>2, GoToEffect DEF SameElse, Point
  <2>2. LinkOK(delivery[d].msg, delivery[d].row)'
    BY <1>0, <2>1 DEF LinkOK, AskedAbout, world, Good
  <2>3. Good(d)'
    BY <1>0, <1>2, <2>1, <2>2 DEF Good, Parsing, Linked
  <2>4. OneParsingPerMessage'
    BY <1>0, <1>2, <2>1, ParsingStarts DEF Parsing
  <2>5. processing' \in SUBSET Messages
    BY <1>0, <1>2 DEF TypeOK, Good
  <2> QED
    BY <1>0, <2>1, <2>3, <2>4, <2>5, QuietStep
<1> QED
  BY <1>1, <1>2 DEF Dispatch, GoTo

-----------------------------------------------------------------------------
(* The parsing *)

LEMMA ComparedKept ==
  ASSUME Keeps, NEW d \in Deliveries, KeyOf(d)' = KeyOf(d),
         SavedAt(d, delivery'[d].prior)
  PROVE  Compared(d)'
  BY DEF SavedAt, Compared, Keeps

(* A parsing goes on to its next statement. *)
LEMMA ParsingMove ==
  ASSUME IInv, NEW d \in Deliveries, Parsing(d), ~Saved(d),
         UNCHANGED <<world, received, tables, processing, notices>>,
         delivery' \in [Deliveries -> DeliveryRecord],
         \A e \in Deliveries : e # d => delivery'[e] = delivery[e],
         delivery'[d].pc \in {"parse", "wait", "lowest", "begin", "save", "fail"},
         delivery'[d].msg = delivery[d].msg, delivery'[d].row = delivery[d].row,
         delivery'[d].outcome = delivery[d].outcome,
         delivery'[d].pc # "fail" =>
           \A m \in delivery'[d].texts : Sender[m] = KeyOf(d)[2] /\ AskedAbout(m, KeyOf(d)),
         delivery'[d].pc \in {"lowest", "begin", "save"} /\ delivery'[d].offer.can =>
           delivery'[d].offer.price # None /\ delivery'[d].offer.times # {},
         delivery'[d].pc = "save" => delivery'[d].seen.selected \subseteq selected[KeyOf(d)],
         delivery'[d].pc \in {"begin", "save"} /\ delivery'[d].prior # None =>
           SavedAt(d, delivery'[d].prior)
  PROVE  IInv' /\ Keeps
<1>0. /\ UNCHANGED <<sent, received, selected, response>> /\ KeyOf(d)' = KeyOf(d)
      /\ Parsing(d)' /\ Good(d) /\ TypeOK
  BY DEF world, tables, KeyOf, Parsing, IInv
<1>1. Keeps
  BY <1>0, KeepsRows DEF Exists
<1>2. LinkOK(delivery[d].msg, delivery[d].row)'
  <2>1. LinkOK(delivery[d].msg, delivery[d].row)
    BY DEF IInv, Good, Parsing
  <2> QED
    BY <1>0, <2>1 DEF LinkOK, AskedAbout
<1>3. delivery'[d].pc # "fail" =>
        \A m \in delivery'[d].texts : Sender[m] = KeyOf(d)'[2] /\ AskedAbout(m, KeyOf(d))'
  BY <1>0 DEF AskedAbout
<1>4. SavedAt(d, delivery'[d].prior) => Compared(d)'
  BY <1>0, <1>1, ComparedKept
<1>5. delivery[d].pc # "idle" /\ delivery[d].msg \in Messages
  BY <1>0 DEF Parsing, Good
<1>6. delivery[d].outcome = "none" /\ delivery[d].row.request # None
  BY <1>0 DEF Parsing, Good
<1>7. Good(d)'
  BY <1>0, <1>2, <1>3, <1>4, <1>5, <1>6 DEF Good, Parsing
<1>8. OneParsingPerMessage'
  BY <1>0, ParsingKept
<1>9. processing' \in SUBSET Messages
  BY <1>0 DEF TypeOK
<1> QED
  BY <1>7, <1>8, <1>9, QuietStep

LEMMA ReadContextStep ==
  ASSUME IInv, NEW d \in Deliveries, ReadContext(d)
  PROVE  IInv' /\ Keeps
<1> DEFINE T == {m \in Messages : <<sms[m].request, sms[m].shop>> = KeyOf(d)}
           r == [delivery[d] EXCEPT !.pc = "parse", !.texts = T]
<1>1. /\ TypeOK /\ Parsing(d) /\ ~Saved(d) /\ delivery[d] \in DeliveryRecord
      /\ UNCHANGED <<world, received, tables, processing, notices>>
  BY DEF IInv, TypeOK, ReadContext, Parsing, Saved, Good
<1>2. delivery' = [delivery EXCEPT ![d] = r]
  BY <1>1 DEF ReadContext, TypeOK
<1>3. T \subseteq Messages
  OBVIOUS
<1>4. \A m \in T : Sender[m] = KeyOf(d)[2] /\ AskedAbout(m, KeyOf(d))
  <2>1. ASSUME NEW m \in T PROVE Sender[m] = KeyOf(d)[2] /\ AskedAbout(m, KeyOf(d))
    <3>1. LinkOK(m, sms[m]) /\ <<sms[m].request, sms[m].shop>> = KeyOf(d)
      BY DEF IInv, Rows
    <3>2. sms[m].request # None
      BY <1>1, <3>1 DEF KeyOf, IInv, Good
    <3> QED
      BY <3>1, <3>2 DEF LinkOK
  <2> QED
    BY <2>1
<1> HIDE DEF T
<1>5. /\ r \in DeliveryRecord /\ r.pc = "parse" /\ r.msg = delivery[d].msg
      /\ r.row = delivery[d].row /\ r.outcome = delivery[d].outcome /\ r.texts = T
  BY ONLY <1>1, <1>3 DEF DeliveryRecord, Point
<1> HIDE DEF r
<1>6. /\ delivery' \in [Deliveries -> DeliveryRecord] /\ delivery'[d] = r
      /\ \A e \in Deliveries : e # d => delivery'[e] = delivery[e]
  BY <1>1, <1>2, <1>5, Changed
<1> QED
  BY <1>1, <1>4, <1>5, <1>6, ParsingMove

LEMMA ParseStep ==
  ASSUME IInv, NEW d \in Deliveries, NEW o \in Offers, Parse(d, o)
  PROVE  IInv' /\ Keeps
<1> DEFINE pc == IF o.can /\ (o.price = None \/ o.times = {}) THEN "wait" ELSE "lowest"
           r == [delivery[d] EXCEPT !.pc = pc, !.offer = o]
<1>1. /\ TypeOK /\ Parsing(d) /\ ~Saved(d) /\ delivery[d] \in DeliveryRecord
      /\ delivery[d].pc = "parse"
      /\ UNCHANGED <<world, received, tables, processing, notices>>
  BY DEF IInv, TypeOK, Parse, Parsing, Saved, Good
<1>2. delivery' = [delivery EXCEPT ![d] = r]
  BY <1>1 DEF Parse, TypeOK
<1>3. pc \in {"wait", "lowest"} /\ (pc = "lowest" /\ o.can => o.price # None /\ o.times # {})
  OBVIOUS
<1> HIDE DEF pc
<1>4. /\ r \in DeliveryRecord /\ r.pc = pc /\ r.msg = delivery[d].msg /\ r.offer = o
      /\ r.row = delivery[d].row /\ r.outcome = delivery[d].outcome
      /\ r.texts = delivery[d].texts
  BY ONLY <1>1, <1>3, o \in Offers DEF DeliveryRecord, Point
<1> HIDE DEF r
<1>5. /\ delivery' \in [Deliveries -> DeliveryRecord] /\ delivery'[d] = r
      /\ \A e \in Deliveries : e # d => delivery'[e] = delivery[e]
  BY <1>1, <1>2, <1>4, Changed
<1>6. \A m \in delivery[d].texts : Sender[m] = KeyOf(d)[2] /\ AskedAbout(m, KeyOf(d))
  BY <1>1 DEF IInv, Good
<1> QED
  BY <1>1, <1>3, <1>4, <1>5, <1>6, ParsingMove

LEMMA ReadLowestStep ==
  ASSUME IInv, NEW d \in Deliveries, ReadLowest(d)
  PROVE  IInv' /\ Keeps
<1> DEFINE k == KeyOf(d)
           P == {response[l].price : l \in {x \in Keys : x[1] = k[1] /\ Offered(x)}}
           r == [delivery[d] EXCEPT !.pc = "begin", !.prior = LowestOf(P)]
<1>1. /\ TypeOK /\ Parsing(d) /\ ~Saved(d) /\ delivery[d] \in DeliveryRecord
      /\ delivery[d].pc = "lowest"
      /\ UNCHANGED <<world, received, tables, processing, notices>>
  BY DEF IInv, TypeOK, ReadLowest, Parsing, Saved, Good
<1>2. delivery' = [delivery EXCEPT ![d] = r]
  BY <1>1, KeyOfParsing DEF ReadLowest, TypeOK, LowestOffered
<1>3. /\ LowestOf(P) \in Nat \union {None}
      /\ IF P = {} THEN LowestOf(P) = None ELSE LowestOf(P) \in P
  <2>1. P \in SUBSET Nat
    BY <1>1 DEF TypeOK, ResponseRow, Offered
  <2> QED
    BY <2>1, LowestType
<1>4. LowestOf(P) # None => SavedAt(d, LowestOf(P))
  <2>1. ASSUME LowestOf(P) # None PROVE SavedAt(d, LowestOf(P))
    <3>1. PICK l \in Keys : l[1] = k[1] /\ Offered(l) /\ response[l].price = LowestOf(P)
      BY <1>3, <2>1
    <3>2. Exists(l)
      BY <3>1 DEF Offered, Exists
    <3>3. PICK e \in Deliveries :
            KeyOf(e) = l /\ Saved(e) /\ delivery[e].offer.price = response[l].price
      BY <3>2 DEF IInv, Responses
    <3> QED
      BY <1>1, <3>1, <3>3 DEF SavedAt
  <2> QED
    BY <2>1
<1> HIDE DEF P, k
<1>5. /\ r \in DeliveryRecord /\ r.pc = "begin" /\ r.msg = delivery[d].msg
      /\ r.row = delivery[d].row /\ r.outcome = delivery[d].outcome
      /\ r.texts = delivery[d].texts /\ r.offer = delivery[d].offer /\ r.prior = LowestOf(P)
  BY ONLY <1>1, <1>3 DEF DeliveryRecord, Point
<1> HIDE DEF r
<1>6. /\ delivery' \in [Deliveries -> DeliveryRecord] /\ delivery'[d] = r
      /\ \A e \in Deliveries : e # d => delivery'[e] = delivery[e]
  BY <1>1, <1>2, <1>5, Changed
<1>7. /\ \A m \in delivery[d].texts : Sender[m] = KeyOf(d)[2] /\ AskedAbout(m, KeyOf(d))
      /\ delivery[d].offer.can =>
           delivery[d].offer.price # None /\ delivery[d].offer.times # {}
  BY <1>1 DEF IInv, Good
<1> QED
  BY <1>1, <1>4, <1>5, <1>6, <1>7, ParsingMove

LEMMA BeginSaveStep ==
  ASSUME IInv, NEW d \in Deliveries, BeginSave(d)
  PROVE  IInv' /\ Keeps
<1> DEFINE k == KeyOf(d)
           S == [row |-> Exists(k), accepted |-> response[k].status = "ACCEPTED",
                 selected |-> selected[k]]
           r == [delivery[d] EXCEPT !.pc = "save", !.seen = S]
<1>1. /\ TypeOK /\ Parsing(d) /\ ~Saved(d) /\ delivery[d] \in DeliveryRecord
      /\ delivery[d].pc = "begin"
      /\ UNCHANGED <<world, received, tables, processing, notices>>
  BY DEF IInv, TypeOK, BeginSave, Parsing, Saved, Good
<1>2. delivery' = [delivery EXCEPT ![d] = r]
  BY <1>1 DEF BeginSave, TypeOK
<1>3. S \in [row: BOOLEAN, accepted: BOOLEAN, selected: SUBSET Times]
  <2>1. k \in Keys
    BY <1>1, KeyOfParsing
  <2> QED
    BY <1>1, <2>1 DEF TypeOK, Exists
<1>4. S.selected = selected[k]
  OBVIOUS
<1> HIDE DEF S
<1>5. /\ r \in DeliveryRecord /\ r.pc = "save" /\ r.msg = delivery[d].msg
      /\ r.row = delivery[d].row /\ r.outcome = delivery[d].outcome
      /\ r.texts = delivery[d].texts /\ r.offer = delivery[d].offer
      /\ r.prior = delivery[d].prior /\ r.seen = S
  BY ONLY <1>1, <1>3 DEF DeliveryRecord, Point
<1> HIDE DEF r
<1>6. /\ delivery' \in [Deliveries -> DeliveryRecord] /\ delivery'[d] = r
      /\ \A e \in Deliveries : e # d => delivery'[e] = delivery[e]
  BY <1>1, <1>2, <1>5, Changed
<1>7. /\ \A m \in delivery[d].texts : Sender[m] = KeyOf(d)[2] /\ AskedAbout(m, KeyOf(d))
      /\ delivery[d].offer.can =>
           delivery[d].offer.price # None /\ delivery[d].offer.times # {}
      /\ delivery[d].prior # None => SavedAt(d, delivery[d].prior)
  BY <1>1 DEF IInv, Good, Compared
<1> QED
  BY <1>1, <1>4, <1>5, <1>6, <1>7, ParsingMove

LEMMA ThrowStep ==
  ASSUME IInv, NEW d \in Deliveries, Throw(d)
  PROVE  IInv' /\ Keeps
<1>1. /\ TypeOK /\ Parsing(d) /\ ~Saved(d)
      /\ UNCHANGED <<world, received, tables, processing, notices>>
  BY DEF IInv, TypeOK, Throw, Parsing, Saved, Good
<1>2. /\ delivery' \in [Deliveries -> DeliveryRecord] /\ delivery'[d].pc = "fail"
      /\ delivery'[d].msg = delivery[d].msg /\ delivery'[d].row = delivery[d].row
      /\ delivery'[d].outcome = delivery[d].outcome
      /\ \A e \in Deliveries : e # d => delivery'[e] = delivery[e]
  BY <1>1, GoToEffect DEF Throw, Point, SameElse
<1> QED
  BY <1>1, <1>2, ParsingMove

(* A parsing ends without a response: at most the status of its message is *)
(* written.                                                                *)
LEMMA SettleStep ==
  ASSUME IInv, NEW d \in Deliveries, Parsing(d), ~Saved(d), NEW o \in Outcome, Finish(d, o),
         UNCHANGED <<world, received, response, selected, open, notices>>,
         \/ UNCHANGED sms
         \/ \E x \in {"PENDING", "FAILED"} :
              sms' = [sms EXCEPT ![delivery[d].msg].status = x]
  PROVE  IInv' /\ Keeps
<1>0. /\ TypeOK /\ Good(d) /\ UNCHANGED <<sent, expired, received>>
      /\ delivery[d].msg \in Messages
  BY DEF IInv, world, Good, Parsing
<1>1. /\ delivery' \in [Deliveries -> DeliveryRecord]
      /\ delivery'[d].pc = "done" /\ delivery'[d].outcome = o
      /\ delivery'[d].msg = delivery[d].msg /\ delivery'[d].row = delivery[d].row
      /\ \A e \in Deliveries : e # d => delivery'[e] = delivery[e]
      /\ processing' = processing \ {delivery[d].msg}
  BY <1>0, FinishEffect
<1>2. Keeps
  BY <1>0, <1>1, KeepsRows DEF Exists
<1>3. /\ sms' \in [Messages -> SmsRow]
      /\ \A m \in Messages :
           /\ sms'[m].request = sms[m].request /\ sms'[m].shop = sms[m].shop
           /\ sms'[m].counted = sms[m].counted
           /\ sms'[m].status = "PARSED" => sms[m].status = "PARSED"
  <2>1. CASE UNCHANGED sms
    BY <1>0, <2>1 DEF TypeOK
  <2>2. ASSUME NEW x \in {"PENDING", "FAILED"},
               sms' = [sms EXCEPT ![delivery[d].msg].status = x]
        PROVE  /\ sms' \in [Messages -> SmsRow]
               /\ \A m \in Messages :
                    /\ sms'[m].request = sms[m].request /\ sms'[m].shop = sms[m].shop
                    /\ sms'[m].counted = sms[m].counted
                    /\ sms'[m].status = "PARSED" => sms[m].status = "PARSED"
    <3> DEFINE q == [sms[delivery[d].msg] EXCEPT !.status = x]
    <3>1. /\ q \in SmsRow /\ q.status = x /\ q.request = sms[delivery[d].msg].request
          /\ q.shop = sms[delivery[d].msg].shop /\ q.counted = sms[delivery[d].msg].counted
      <4>1. sms[delivery[d].msg] \in SmsRow
        BY <1>0 DEF TypeOK
      <4> QED
        BY ONLY <4>1, x \in {"PENDING", "FAILED"} DEF SmsRow
    <3>2. sms' = [sms EXCEPT ![delivery[d].msg] = q]
      BY <1>0, <2>2 DEF TypeOK
    <3> HIDE DEF q
    <3> QED
      BY <1>0, <3>1, <3>2 DEF TypeOK
  <2> QED
    BY <2>1, <2>2
<1>4. TypeOK'
  BY <1>0, <1>1, <1>3 DEF TypeOK
<1>5. LinkOK(delivery[d].msg, delivery[d].row)'
  <2>1. LinkOK(delivery[d].msg, delivery[d].row)
    BY DEF IInv, Good, Parsing
  <2> QED
    BY <1>0, <1>1, <2>1 DEF LinkOK, AskedAbout
<1>6. Good(d)'
  BY <1>0, <1>1, <1>5 DEF Good, Parsing
<1>7. OneParsingPerMessage'
  BY <1>1, ParsingEnds DEF Parsing
<1>8. Rows'
  <2>1. ASSUME NEW m \in Messages PROVE LinkOK(m, sms[m])'
    <3>1. LinkOK(m, sms[m])
      BY DEF IInv, Rows
    <3> QED
      BY <1>0, <1>3, <3>1 DEF LinkOK, AskedAbout
  <2>2. CountedHasResponse'
    BY <1>3 DEF IInv, Rows, CountedHasResponse, Exists
  <2> QED
    BY <2>1, <2>2 DEF Rows
<1>9. Responses'
  BY <1>2, ResponsesStay
<1>10. NoticesTruthful'
  BY <1>1, <1>2, NoticesStay DEF Saved
<1>11. \A m \in Messages : received'[m] # None => received'[m] <= Len(sent')
  BY <1>0 DEF IInv
<1> QED
  BY <1>1, <1>2, <1>4, <1>6, <1>7, <1>8, <1>9, <1>10, <1>11, Together

LEMMA WaitForMoreStep ==
  ASSUME IInv, NEW d \in Deliveries, WaitForMore(d)
  PROVE  IInv' /\ Keeps
<1>1. Parsing(d) /\ ~Saved(d) /\ "waiting" \in Outcome
  BY DEF WaitForMore, Parsing, Saved, IInv, Good, Outcome
<1>2. /\ Finish(d, "waiting")
      /\ sms' = [sms EXCEPT ![delivery[d].msg].status = "PENDING"]
      /\ UNCHANGED <<world, received, response, selected, open, notices>>
  BY DEF WaitForMore
<1> QED
  BY <1>1, <1>2, SettleStep

LEMMA MarkFailedStep ==
  ASSUME IInv, NEW d \in Deliveries, MarkFailed(d)
  PROVE  IInv' /\ Keeps
<1>1. Parsing(d) /\ ~Saved(d) /\ "failed" \in Outcome
  BY DEF MarkFailed, Parsing, Saved, IInv, Good, Outcome
<1>2. /\ Finish(d, "failed")
      /\ \/ UNCHANGED sms
         \/ sms' = [sms EXCEPT ![delivery[d].msg].status = "FAILED"]
      /\ UNCHANGED <<world, received, response, selected, open, notices>>
  BY DEF MarkFailed
<1> QED
  BY <1>1, <1>2, SettleStep

LEMMA LowestUndercuts ==
  ASSUME IInv, NEW d \in Deliveries, delivery[d].pc = "notify", IsNewLowest(d)
  PROVE  Undercuts(d)
<1>1. /\ delivery[d].prior # None /\ delivery[d].offer.price # None
      /\ delivery[d].offer.price < delivery[d].prior
  BY DEF IsNewLowest
<1>2. SavedAt(d, delivery[d].prior)
  BY <1>1 DEF IInv, Good, Compared
<1> QED
  BY <1>1, <1>2 DEF SavedAt, Undercuts

LEMMA NotifyStep ==
  ASSUME IInv, NEW d \in Deliveries, Notify(d)
  PROVE  IInv' /\ Keeps
<1> DEFINE k == KeyOf(d)
           n == [type |-> IF IsNewLowest(d) THEN "LOWER_ESTIMATE" ELSE "ESTIMATE_RESPONSE",
                 key |-> k, from |-> d]
<1>0. /\ TypeOK /\ Good(d) /\ Parsing(d) /\ delivery[d].pc = "notify"
      /\ delivery[d].outcome = "none"
      /\ UNCHANGED <<sent, expired, received, sms, response, selected, open>>
      /\ Finish(d, "saved") /\ "saved" \in Outcome
  BY DEF IInv, world, tables, Good, Parsing, Notify, Outcome
<1>1. /\ delivery' \in [Deliveries -> DeliveryRecord]
      /\ delivery'[d].pc = "done" /\ delivery'[d].outcome = "saved"
      /\ delivery'[d].msg = delivery[d].msg /\ delivery'[d].row = delivery[d].row
      /\ delivery'[d].offer = delivery[d].offer
      /\ \A e \in Deliveries : e # d => delivery'[e] = delivery[e]
      /\ processing' = processing \ {delivery[d].msg}
  BY <1>0, FinishEffect
<1>2. Keeps
  BY <1>0, <1>1, KeepsRows DEF Exists, Saved
<1>3. k \in Keys /\ KeyOf(d)' = k /\ delivery[d].msg \in Messages
  BY <1>0, <1>1, KeyOfParsing DEF KeyOf
<1>4. n \in Notice /\ n.key = k /\ n.from = d /\ (n.type = "LOWER_ESTIMATE" => IsNewLowest(d))
  BY <1>3 DEF Notice
<1>5. notices' = notices \union {n} \/ notices' = notices
  BY DEF Notify
<1> HIDE DEF n, k
<1>6. TypeOK'
  BY <1>0, <1>1, <1>4, <1>5 DEF TypeOK
<1>7. LinkOK(delivery[d].msg, delivery[d].row)'
  BY <1>0, <1>1 DEF LinkOK, AskedAbout, Good
<1>8. Good(d)'
  BY <1>0, <1>1, <1>3, <1>7 DEF Good, Parsing
<1>9. OneParsingPerMessage'
  BY <1>0, <1>1, ParsingEnds DEF Parsing
<1>10. Rows' /\ Responses'
  BY <1>0, <1>2, RowsStay, ResponsesStay
<1>11. \A e \in Deliveries : delivery[e].outcome = "saved" => delivery'[e].outcome = "saved"
  BY <1>0, <1>1
<1>12. NoticesTruthful'
  <2>1. CASE UNCHANGED notices
    BY <1>2, <1>11, <2>1, NoticesStay
  <2>2. CASE notices' = notices \union {n}
    <3>0. PICK c \in Notice : c = n
      BY <1>4
    <3>1. IsNewLowest(d) => Undercuts(d)'
      <4>1. IsNewLowest(d) => Undercuts(d)
        BY <1>0, LowestUndercuts
      <4>2. Saved(d)
        BY <1>0 DEF Saved
      <4> QED
        BY <1>2, <4>1, <4>2, UndercutsKept
    <3>2. /\ Exists(c.key)' /\ c.key = KeyOf(c.from)'
          /\ delivery'[c.from].outcome = "saved"
          /\ c.type = "LOWER_ESTIMATE" => Undercuts(c.from)'
      <4>1. c.key = k /\ c.from = d /\ (c.type = "LOWER_ESTIMATE" => IsNewLowest(d))
        BY <1>4, <3>0
      <4>2. c.key = KeyOf(d)'
        BY <1>3, <4>1
      <4>3. Exists(c.key)'
        BY <1>0, <1>3, <3>1, <4>1 DEF Exists, Good, k
      <4> QED
        BY <1>1, <3>1, <4>1, <4>2, <4>3
    <3>3. \A x \in notices : x.from # d
      BY <1>0 DEF IInv, NoticesTruthful
    <3>4. \A x, y \in notices : x.from = y.from => x = y
      BY DEF IInv, NoticesTruthful
    <3>5. c.from = d /\ notices' = notices \union {c}
      BY <1>4, <2>2, <3>0
    <3>6. \A x, y \in notices' : x.from = y.from => x = y
      BY <3>3, <3>4, <3>5
    <3>7. \A x \in notices :
            /\ Exists(x.key)' /\ x.key = KeyOf(x.from)'
            /\ delivery'[x.from].outcome = "saved"
            /\ x.type = "LOWER_ESTIMATE" => Undercuts(x.from)'
      BY <1>2, <1>11, NoticeStays
    <3> QED
      BY <3>2, <3>5, <3>6, <3>7 DEF NoticesTruthful, Saved
  <2> QED
    BY <1>5, <2>1, <2>2
<1>13. \A m \in Messages : received'[m] # None => received'[m] <= Len(sent')
  BY <1>0 DEF IInv
<1> QED
  BY <1>1, <1>2, <1>6, <1>8, <1>9, <1>10, <1>12, <1>13, Together

LEMMA SavedRowType ==
  ASSUME IInv, NEW d \in Deliveries
  PROVE  /\ SavedRow(d) \in ResponseRow /\ SavedRow(d).status # "none"
         /\ SavedRow(d).texts = delivery[d].texts
         /\ SavedRow(d).price = delivery[d].offer.price
         /\ SavedRow(d).status = "SUBMITTED" => delivery[d].offer.can
<1>1. /\ delivery[d].texts \in SUBSET Messages
      /\ delivery[d].offer.price \in Nat \union {None}
  BY OffersAssumption DEF IInv, TypeOK, DeliveryRecord, NoOffer
<1> QED
  BY <1>1 DEF SavedRow, ResponseRow

LEMMA SaveStep ==
  ASSUME IInv, NEW d \in Deliveries, Save(d)
  PROVE  IInv' /\ Keeps
<1> DEFINE k == KeyOf(d)
           times == delivery[d].offer.times
<1>0. /\ TypeOK /\ Good(d) /\ Parsing(d) /\ ~Saved(d) /\ delivery[d].pc = "save"
      /\ UNCHANGED <<sent, expired, received, selected, processing, notices>>
      /\ delivery[d] \in DeliveryRecord
  BY DEF IInv, TypeOK, world, Good, Parsing, Saved, Save
<1>1. k \in Keys /\ delivery[d].msg \in Messages
  BY <1>0, KeyOfParsing
<1>2. CASE GoTo(d, "fail") /\ UNCHANGED <<response, open, sms>>
  <2>1. /\ delivery' \in [Deliveries -> DeliveryRecord] /\ delivery'[d].pc = "fail"
        /\ delivery'[d].msg = delivery[d].msg /\ delivery'[d].row = delivery[d].row
        /\ delivery'[d].outcome = delivery[d].outcome
        /\ \A e \in Deliveries : e # d => delivery'[e] = delivery[e]
    BY <1>0, <1>2, GoToEffect DEF Point, SameElse
  <2>2. UNCHANGED <<world, received, tables, processing, notices>>
    BY <1>0, <1>2 DEF world, tables
  <2> QED
    BY <1>0, <2>1, <2>2, ParsingMove
<1>3. CASE /\ response' = [response EXCEPT ![k] = SavedRow(d)]
           /\ open' = [open EXCEPT ![k] = times \ delivery[d].seen.selected]
           /\ CountMessages(k)
           /\ GoTo(d, "notify")
  <2>1. /\ delivery' \in [Deliveries -> DeliveryRecord] /\ delivery'[d].pc = "notify"
        /\ delivery'[d].msg = delivery[d].msg /\ delivery'[d].row = delivery[d].row
        /\ delivery'[d].prior = delivery[d].prior /\ delivery'[d].offer = delivery[d].offer
        /\ delivery'[d].outcome = delivery[d].outcome
        /\ \A e \in Deliveries : e # d => delivery'[e] = delivery[e]
    BY <1>0, <1>3, GoToEffect DEF Point, SameElse
  <2>2. /\ response' \in [Keys -> ResponseRow] /\ response'[k] = SavedRow(d)
        /\ \A l \in Keys : l # k => response'[l] = response[l]
    BY <1>0, <1>1, <1>3, SavedRowType DEF TypeOK
  <2>3. times \in SUBSET Times
    BY <1>0, OffersAssumption DEF DeliveryRecord, NoOffer
  <2>4. /\ open' \in [Keys -> SUBSET Times]
        /\ open'[k] = times \ delivery[d].seen.selected
        /\ \A l \in Keys : l # k => open'[l] = open[l]
    BY <1>0, <1>1, <1>3, <2>3 DEF TypeOK
  <2>5. /\ sms' \in [Messages -> SmsRow]
        /\ \A m \in Messages :
             /\ sms'[m].request = sms[m].request /\ sms'[m].shop = sms[m].shop
             /\ sms'[m] = sms[m] \/ (sms'[m].counted /\ sms[m].shop = k[2])
    <3>1. ASSUME NEW m \in Messages
          PROVE  /\ sms'[m] \in SmsRow
                 /\ sms'[m].request = sms[m].request /\ sms'[m].shop = sms[m].shop
                 /\ sms'[m] = sms[m] \/ (sms'[m].counted /\ sms[m].shop = k[2])
      <4> DEFINE q == [sms[m] EXCEPT !.status = "PARSED", !.counted = TRUE]
      <4>1. sms[m] \in SmsRow
        BY <1>0 DEF TypeOK
      <4>2. /\ q \in SmsRow /\ q.request = sms[m].request /\ q.shop = sms[m].shop /\ q.counted
        BY ONLY <4>1 DEF SmsRow
      <4> HIDE DEF q
      <4>3. sms'[m] = IF <<sms[m].request, sms[m].shop>> = k THEN q ELSE sms[m]
        BY <1>3 DEF CountMessages, q
      <4> QED
        BY <4>1, <4>2, <4>3
    <3>2. sms' \in [Messages -> SmsRow]
      <4>1. sms' = [m \in Messages |-> sms'[m]]
        BY <1>3 DEF CountMessages
      <4> QED
        BY <3>1, <4>1
    <3> QED
      BY <3>1, <3>2
  <2>6. \A l \in Keys : Exists(l) => Exists(l)'
    BY <2>2, SavedRowType DEF Exists
  <2>7. Exists(k)' /\ KeyOf(d)' = k
    BY <1>1, <2>1, <2>2, SavedRowType DEF Exists, KeyOf
  <2>8. Keeps
    BY <1>0, <2>1, <2>6, KeepsRows
  <2>9. TypeOK'
    BY <1>0, <2>1, <2>2, <2>4, <2>5 DEF TypeOK
  <2>10. Good(d)'
    <3>1. LinkOK(delivery[d].msg, delivery[d].row)'
      BY <1>0, <2>1 DEF LinkOK, AskedAbout, Good
    <3>2. delivery'[d].prior # None => Compared(d)'
      <4>1. delivery[d].prior # None => SavedAt(d, delivery[d].prior)
        BY <1>0 DEF Good, Compared
      <4> QED
        BY <2>1, <2>7, <2>8, <4>1, ComparedKept
    <3>3. delivery[d].row.request # None /\ delivery[d].outcome = "none"
      BY <1>0 DEF Good, Saved
    <3>4. Exists(KeyOf(d))'
      BY <2>2, <2>7, SavedRowType DEF Exists
    <3> QED
      BY <1>1, <2>1, <3>1, <3>2, <3>3, <3>4 DEF Good, Parsing
  <2>11. OneParsingPerMessage'
    BY <1>0, <2>1, ParsingKept DEF Parsing
  <2>12. Rows'
    <3>1. ASSUME NEW m \in Messages PROVE LinkOK(m, sms[m])'
      <4>1. LinkOK(m, sms[m])
        BY DEF IInv, Rows
      <4> QED
        BY <1>0, <2>5, <4>1 DEF LinkOK, AskedAbout
    <3>2. CountedHasResponse'
      <4>1. ASSUME NEW m \in Messages
            PROVE  /\ sms'[m].counted => \E l \in Keys : l[2] = sms'[m].shop /\ Exists(l)'
                   /\ sms'[m].status = "PARSED" => sms'[m].counted
        <5>1. CASE sms'[m].counted /\ sms[m].shop = k[2]
          BY <1>1, <2>5, <2>7, <5>1
        <5>2. CASE sms'[m] = sms[m]
          BY <2>6, <5>2 DEF IInv, Rows, CountedHasResponse
        <5> QED
          BY <2>5, <5>1, <5>2
      <4> QED
        BY <4>1 DEF CountedHasResponse
    <3> QED
      BY <3>1, <3>2 DEF Rows
  <2>13. Responses'
    <3>1. SubmittedIsBookable'
      <4>1. ASSUME NEW l \in Keys, response'[l].status = "SUBMITTED"
            PROVE  response'[l].price # None /\ open'[l] \union selected'[l] # {}
        <5>1. CASE l = k
          <6>1. delivery[d].offer.can
            BY <2>2, <4>1, <5>1, SavedRowType
          <6>2. delivery[d].offer.price # None /\ times # {}
            BY <1>0, <6>1 DEF Good
          <6>3. delivery[d].seen.selected \subseteq selected'[k]
            BY <1>0 DEF Good
          <6> QED
            BY <2>2, <2>4, <5>1, <6>2, <6>3, SavedRowType
        <5>2. CASE l # k
          BY <1>0, <2>2, <2>4, <4>1, <5>2 DEF IInv, Responses, SubmittedIsBookable
        <5> QED
          BY <5>1, <5>2
      <4> QED
        BY <4>1 DEF SubmittedIsBookable
    <3>2. ASSUME NEW l \in Keys
          PROVE  \A m \in response'[l].texts : Sender[m] = l[2] /\ AskedAbout(m, l)'
      <4>1. CASE l = k
        BY <1>0, <2>2, <4>1, SavedRowType DEF Good, AskedAbout
      <4>2. CASE l # k
        BY <2>2, <2>8, <4>2, TextsStay
      <4> QED
        BY <4>1, <4>2
    <3>3. ASSUME NEW l \in Keys, Exists(l)'
          PROVE  \E e \in Deliveries :
                   KeyOf(e)' = l /\ Saved(e)' /\ delivery'[e].offer.price = response'[l].price
      <4>1. CASE l = k
        BY <2>1, <2>2, <2>7, <4>1, SavedRowType DEF Saved
      <4>2. CASE l # k
        <5>1. Exists(l)
          BY <2>2, <3>3, <4>2 DEF Exists
        <5> QED
          BY <2>2, <2>8, <4>2, <5>1, SaversStay
      <4> QED
        BY <4>1, <4>2
    <3> QED
      BY <3>1, <3>2, <3>3 DEF Responses
  <2>14. NoticesTruthful'
    BY <1>0, <2>1, <2>8, NoticesStay DEF Saved
  <2>15. \A m \in Messages : received'[m] # None => received'[m] <= Len(sent')
    BY <1>0 DEF IInv
  <2> QED
    BY <2>1, <2>8, <2>9, <2>10, <2>11, <2>12, <2>13, <2>14, <2>15, Together
<1> QED
  BY <1>2, <1>3 DEF Save

LEMMA DeliveryStepKeeps ==
  ASSUME IInv, NEW d \in Deliveries, DeliveryStep(d)
  PROVE  IInv' /\ Keeps
  BY CommitLinkStep, RefuseDeliveryStep, DispatchStep, ReadContextStep, ParseStep,
     WaitForMoreStep, ReadLowestStep, BeginSaveStep, SaveStep, NotifyStep, ThrowStep,
     MarkFailedStep DEF DeliveryStep

-----------------------------------------------------------------------------
(* The environment *)

LEMMA EnvironmentKeeps ==
  ASSUME IInv, TypeOK', UNCHANGED <<received, sms, processing, delivery, notices>>,
         \A m \in Messages, k \in Keys : AskedAbout(m, k) => AskedAbout(m, k)',
         \A m \in Messages : received'[m] # None => received'[m] <= Len(sent'),
         \A k \in Keys :
           /\ response'[k].texts = response[k].texts /\ response'[k].price = response[k].price
           /\ (response'[k].status = "none") <=> (response[k].status = "none")
           /\ selected[k] \subseteq selected'[k],
         SubmittedIsBookable'
  PROVE  IInv' /\ Keeps
<1>1. \A k \in Keys : Exists(k)' <=> Exists(k)
  BY DEF Exists
<1>2. Keeps
  BY <1>1 DEF Keeps, Saved, KeyOf
<1>3. \A e \in Deliveries : Good(e)'
  BY <1>2, OthersStayGood
<1>4. OneParsingPerMessage'
  BY DEF IInv, OneParsingPerMessage, Parsing
<1>5. Rows'
  BY <1>2, RowsStay
<1>6. Responses'
  <2>1. \A k \in Keys : \A m \in response'[k].texts : Sender[m] = k[2] /\ AskedAbout(m, k)'
    BY <1>2, TextsStay
  <2>2. \A k \in Keys : Exists(k)' =>
        \E e \in Deliveries :
          KeyOf(e)' = k /\ Saved(e)' /\ delivery'[e].offer.price = response'[k].price
    BY <1>1, <1>2, SaversStay
  <2> QED
    BY <2>1, <2>2 DEF Responses
<1>7. NoticesTruthful'
  BY <1>2, NoticesStay
<1> QED
  BY <1>2, <1>3, <1>4, <1>5, <1>6, <1>7 DEF IInv

LEMMA SendOutboundStep ==
  ASSUME IInv, NEW r \in Requests, NEW s \in Shops, SendOutbound(r, s)
  PROVE  IInv' /\ Keeps
<1>0. /\ TypeOK /\ sent' = Append(sent, <<r, s>>) /\ sent \in Seq(Keys)
      /\ UNCHANGED <<expired, received, sms, response, selected, open, processing, delivery,
                     notices>>
  BY DEF IInv, TypeOK, SendOutbound, tables
<1>1. /\ sent' \in Seq(Keys) /\ Len(sent') = Len(sent) + 1 /\ Len(sent) \in Nat
      /\ \A j \in 1..Len(sent) : sent'[j] = sent[j]
  BY <1>0 DEF Keys
<1>2. \A m \in Messages : received[m] # None => received[m] \in Nat /\ received[m] <= Len(sent)
  BY <1>0 DEF IInv, TypeOK
<1>3. \A m \in Messages, k \in Keys : AskedAbout(m, k) => AskedAbout(m, k)'
  <2>1. ASSUME NEW m \in Messages, NEW k \in Keys, AskedAbout(m, k) PROVE AskedAbout(m, k)'
    <3>1. received[m] # None /\ received'[m] = received[m]
      BY <1>0, <2>1 DEF AskedAbout
    <3>2. PICK j \in 1..received[m] : sent[j] = k
      BY <2>1 DEF AskedAbout
    <3>3. j \in 1..Len(sent)
      BY <1>1, <1>2, <3>1, <3>2
    <3> QED
      BY <1>1, <3>1, <3>2, <3>3 DEF AskedAbout
  <2> QED
    BY <2>1
<1>4. TypeOK'
  BY <1>0, <1>1 DEF TypeOK
<1>5. \A m \in Messages : received'[m] # None => received'[m] <= Len(sent')
  BY <1>0, <1>1, <1>2
<1>6. SubmittedIsBookable'
  BY <1>0 DEF IInv, Responses, SubmittedIsBookable
<1> QED
  BY <1>0, <1>3, <1>4, <1>5, <1>6, EnvironmentKeeps

LEMMA RowsOfOthers ==
  ASSUME IInv, TypeOK',
         \/ \E r \in Requests : Expire(r)
         \/ \E k \in Keys : Accept(k)
         \/ \E k \in Keys, t \in Times : SelectTime(k, t)
  PROVE  IInv' /\ Keeps
<1>0. UNCHANGED <<sent, received, sms, processing, delivery, notices>> /\ TypeOK
  BY DEF Expire, Accept, SelectTime, tables, world, IInv
<1>1. \A m \in Messages, k \in Keys : AskedAbout(m, k) => AskedAbout(m, k)'
  BY <1>0 DEF AskedAbout
<1>2. \A m \in Messages : received'[m] # None => received'[m] <= Len(sent')
  BY <1>0 DEF IInv
<1>3. /\ \A k \in Keys :
           /\ response'[k].texts = response[k].texts /\ response'[k].price = response[k].price
           /\ (response'[k].status = "none") <=> (response[k].status = "none")
           /\ selected[k] \subseteq selected'[k]
      /\ SubmittedIsBookable'
  <2>0. SubmittedIsBookable
    BY DEF IInv, Responses
  <2>1. ASSUME NEW r \in Requests, Expire(r) PROVE <1>3
    <3>1. UNCHANGED <<response, selected, open>>
      BY <2>1 DEF Expire, tables
    <3> QED
      BY <2>0, <3>1 DEF SubmittedIsBookable
  <2>2. ASSUME NEW k \in Keys, Accept(k) PROVE <1>3
    <3> DEFINE q == [response[k] EXCEPT !.status = "ACCEPTED"]
    <3>1. /\ UNCHANGED <<selected, open>> /\ response' = [response EXCEPT ![k] = q]
          /\ response[k].status = "SUBMITTED"
      BY <1>0, <2>2 DEF Accept, TypeOK
    <3>2. q.texts = response[k].texts /\ q.price = response[k].price /\ q.status = "ACCEPTED"
      BY <1>0 DEF TypeOK, ResponseRow
    <3> HIDE DEF q
    <3>3. response'[k] = q /\ \A l \in Keys : l # k => response'[l] = response[l]
      BY <1>0, <3>1 DEF TypeOK
    <3> QED
      BY <2>0, <3>1, <3>2, <3>3 DEF SubmittedIsBookable
  <2>3. ASSUME NEW k \in Keys, NEW t \in Times, SelectTime(k, t) PROVE <1>3
    <3>1. /\ UNCHANGED response
          /\ open' = [open EXCEPT ![k] = open[k] \ {t}]
          /\ selected' = [selected EXCEPT ![k] = selected[k] \union {t}]
      BY <1>0, <2>3 DEF SelectTime, TypeOK
    <3>2. /\ open'[k] = open[k] \ {t} /\ selected'[k] = selected[k] \union {t}
          /\ \A l \in Keys : l # k => open'[l] = open[l] /\ selected'[l] = selected[l]
      BY <1>0, <3>1 DEF TypeOK
    <3>3. \A l \in Keys : open[l] \union selected[l] # {} => open'[l] \union selected'[l] # {}
      BY <3>2
    <3> QED
      BY <2>0, <3>1, <3>2, <3>3 DEF SubmittedIsBookable
  <2> QED
    BY <2>1, <2>2, <2>3
<1> QED
  BY <1>0, <1>1, <1>2, <1>3, EnvironmentKeeps

LEMMA RowsOfOthersType ==
  ASSUME TypeOK,
         \/ \E r \in Requests : Expire(r)
         \/ \E k \in Keys : Accept(k)
         \/ \E k \in Keys, t \in Times : SelectTime(k, t)
  PROVE  TypeOK'
<1>1. ASSUME NEW r \in Requests, Expire(r) PROVE TypeOK'
  BY <1>1 DEF TypeOK, Expire, tables
<1>2. ASSUME NEW k \in Keys, Accept(k) PROVE TypeOK'
  <2> DEFINE q == [response[k] EXCEPT !.status = "ACCEPTED"]
  <2>1. /\ response' = [response EXCEPT ![k] = q]
        /\ UNCHANGED <<sent, expired, received, sms, selected, open, processing, delivery,
                       notices>>
    BY <1>2 DEF Accept, TypeOK, world
  <2>2. q \in ResponseRow
    BY DEF TypeOK, ResponseRow
  <2> QED
    BY <2>1, <2>2 DEF TypeOK
<1>3. ASSUME NEW k \in Keys, NEW t \in Times, SelectTime(k, t) PROVE TypeOK'
  <2>1. /\ open' = [open EXCEPT ![k] = open[k] \ {t}]
        /\ selected' = [selected EXCEPT ![k] = selected[k] \union {t}]
        /\ UNCHANGED <<sent, expired, received, sms, response, processing, delivery, notices>>
    BY <1>3 DEF SelectTime, TypeOK, world
  <2> QED
    BY <2>1 DEF TypeOK
<1> QED
  BY <1>1, <1>2, <1>3

LEMMA CrashStep ==
  ASSUME IInv, ServerCrash
  PROVE  IInv' /\ Keeps
<1>0. /\ TypeOK /\ processing' = {}
      /\ UNCHANGED <<sent, expired, received, sms, response, selected, open, notices>>
  BY DEF IInv, ServerCrash, world, tables
<1>1. ASSUME NEW e \in Deliveries
      PROVE  /\ delivery'[e] \in DeliveryRecord
             /\ delivery'[e].row = delivery[e].row /\ delivery'[e].msg = delivery[e].msg
             /\ delivery'[e].offer = delivery[e].offer
             /\ \/ delivery'[e] = delivery[e] /\ delivery[e].pc \in {"idle", "done"}
                \/ /\ delivery'[e].pc = "done" /\ delivery[e].pc \notin {"idle", "done"}
                   /\ delivery[e].pc = "notify" => delivery'[e].outcome = "saved"
  <2>. DEFINE o == IF delivery[e].pc = "notify" THEN "saved" ELSE "lost"
  <2>1. delivery[e] \in DeliveryRecord /\ o \in Outcome
    BY <1>0 DEF TypeOK, Outcome
  <2>2. /\ delivery'[e] = IF delivery[e].pc \in {"idle", "done"} THEN delivery[e]
                          ELSE [delivery[e] EXCEPT !.pc = "done", !.outcome = o]
        /\ delivery[e].pc = "notify" => o = "saved"
    BY DEF ServerCrash
  <2>. HIDE DEF o
  <2>3. CASE delivery[e].pc \in {"idle", "done"}
    BY <2>1, <2>2, <2>3
  <2>4. CASE delivery[e].pc \notin {"idle", "done"}
    <3> DEFINE r == [delivery[e] EXCEPT !.pc = "done", !.outcome = o]
    <3>1. /\ r \in DeliveryRecord /\ r.pc = "done" /\ r.outcome = o
          /\ SameElse(r, delivery[e])
      BY ONLY <2>1, OutcomeRecord
    <3>2. delivery'[e] = r
      BY <2>2, <2>4
    <3> HIDE DEF r
    <3> QED
      BY <2>2, <2>4, <3>1, <3>2 DEF SameElse
  <2> QED
    BY <2>3, <2>4
<1>2. delivery' \in [Deliveries -> DeliveryRecord]
  <2>1. delivery' = [e \in Deliveries |-> delivery'[e]]
    BY DEF ServerCrash
  <2> QED
    BY <1>1, <2>1
<1>3. TypeOK'
  BY <1>0, <1>2 DEF TypeOK
<1>4. Keeps
  <2>1. \A m \in Messages, k \in Keys : AskedAbout(m, k) => AskedAbout(m, k)'
    BY <1>0 DEF AskedAbout
  <2>2. \A e \in Deliveries : Saved(e) =>
        Saved(e)' /\ KeyOf(e)' = KeyOf(e) /\ delivery'[e].offer = delivery[e].offer
    BY <1>1 DEF Saved, KeyOf, IInv, Good
  <2> QED
    BY <1>0, <2>1, <2>2 DEF Keeps, Exists
<1>5. ASSUME NEW e \in Deliveries PROVE Good(e)'
  <2>1. CASE delivery'[e] = delivery[e]
    BY <1>4, <2>1, OthersStayGood
  <2>2. CASE delivery[e].pc \notin {"idle", "done"} /\ delivery'[e].pc = "done"
    <3>1. delivery[e].msg \in Messages /\ LinkOK(delivery[e].msg, delivery[e].row)
      BY <2>2 DEF IInv, Good
    <3>2. LinkOK(delivery[e].msg, delivery[e].row)'
      BY <1>0, <1>1, <3>1 DEF LinkOK, AskedAbout
    <3> QED
      BY <1>1, <2>2, <3>1, <3>2 DEF Good, Parsing
  <2> QED
    BY <1>1, <2>1, <2>2
<1>6. OneParsingPerMessage'
  BY <1>0, <1>1 DEF OneParsingPerMessage, Parsing
<1>7. Rows' /\ Responses'
  BY <1>0, <1>4, RowsStay, ResponsesStay
<1>8. NoticesTruthful'
  <2>1. \A e \in Deliveries : delivery[e].outcome = "saved" => delivery'[e].outcome = "saved"
    BY <1>1 DEF IInv, Good
  <2> QED
    BY <1>0, <1>4, <2>1, NoticesStay
<1>9. \A m \in Messages : received'[m] # None => received'[m] <= Len(sent')
  BY <1>0 DEF IInv
<1> QED
  BY <1>3, <1>4, <1>5, <1>6, <1>7, <1>8, <1>9 DEF IInv

-----------------------------------------------------------------------------
(* The whole *)

LEMMA StepKeeps == IInv /\ [Next]_vars => IInv' /\ \A k \in Keys : selected[k] \subseteq selected'[k]
<1> SUFFICES ASSUME IInv, [Next]_vars
             PROVE  IInv' /\ \A k \in Keys : selected[k] \subseteq selected'[k]
  OBVIOUS
<1>1. CASE Next
  <2>1. ASSUME NEW d \in Deliveries, NEW m \in Messages, NEW s \in {Sender[m], None},
               NEW i \in 0..Len(sent), BeginDelivery(d, m, s, i)
        PROVE  IInv' /\ Keeps
    BY <2>1, BeginDeliveryStep
  <2>2. ASSUME NEW d \in Deliveries, DeliveryStep(d) PROVE IInv' /\ Keeps
    BY <2>2, DeliveryStepKeeps
  <2>3. ASSUME Environment PROVE IInv' /\ Keeps
    <3>1. ASSUME NEW r \in Requests, NEW s \in Shops, SendOutbound(r, s) PROVE IInv' /\ Keeps
      BY <3>1, SendOutboundStep
    <3>2. CASE \/ \E r \in Requests : Expire(r)
               \/ \E k \in Keys : Accept(k)
               \/ \E k \in Keys, t \in Times : SelectTime(k, t)
      BY <3>2, RowsOfOthers, RowsOfOthersType DEF IInv
    <3>3. CASE ServerCrash
      BY <3>3, CrashStep
    <3> QED
      BY <2>3, <3>1, <3>2, <3>3 DEF Environment
  <2>4. IInv' /\ Keeps
    BY <1>1, <2>1, <2>2, <2>3 DEF Next
  <2> QED
    BY <2>4 DEF Keeps
<1>2. CASE UNCHANGED vars
  <2>1. UNCHANGED <<sent, expired, received, sms, response, selected, open, processing,
                    delivery, notices>>
    BY <1>2 DEF vars, world, tables
  <2>2. TypeOK' /\ SubmittedIsBookable'
    BY <2>1 DEF IInv, TypeOK, Responses, SubmittedIsBookable
  <2>3. \A m \in Messages, k \in Keys : AskedAbout(m, k) => AskedAbout(m, k)'
    BY <2>1 DEF AskedAbout
  <2>4. \A m \in Messages : received'[m] # None => received'[m] <= Len(sent')
    BY <2>1 DEF IInv
  <2> QED
    BY <2>1, <2>2, <2>3, <2>4, EnvironmentKeeps DEF Keeps
<1> QED
  BY <1>1, <1>2

LEMMA Invariant == Spec => []IInv
  BY InitInvariant, StepKeeps, PTL DEF Spec

(* Every variable keeps its type, however the deliveries, the parsings,    *)
(* their failures and the crashes interleave.                              *)
THEOREM TypeCorrect == Spec => []TypeOK
<1>1. IInv => TypeOK
  BY DEF IInv
<1> QED
  BY <1>1, Invariant, PTL

(* createSmsMessage hands a message to one parsing at a time, and the set  *)
(* processingSmsMessageIds holds exactly the messages being parsed.        *)
THEOREM OneParsing == Spec => []OneParsingPerMessage
<1>1. IInv => OneParsingPerMessage
  BY DEF IInv
<1> QED
  BY <1>1, Invariant, PTL

(* A response saved as SUBMITTED has a price and a time that is open or    *)
(* selected, however old the snapshot it was saved from.                   *)
LEMMA Bookable == Spec => []SubmittedIsBookable
<1>1. IInv => SubmittedIsBookable
  BY DEF IInv, Responses
<1> QED
  BY <1>1, Invariant, PTL

(* A message is marked as parsed only with a response of its shop.         *)
LEMMA SavedTogether == Spec => []CountedHasResponse
<1>1. IInv => CountedHasResponse
  BY DEF IInv, Rows
<1> QED
  BY <1>1, Invariant, PTL

(* A save writes the response, its times and its messages together: no     *)
(* stale snapshot, failure or crash leaves a part of it.                   *)
THEOREM SavedAsAWhole == Spec => []SavedWhole
  BY Bookable, SavedTogether, PTL DEF SavedWhole

(* A response is made of texts of its own shop, each received after the    *)
(* shop had been asked about that request.                                 *)
THEOREM RightRequest == Spec => []TextsAnswerTheRequest
<1>1. IInv => TextsAnswerTheRequest
  BY DEF IInv, Responses, TextsAnswerTheRequest, AskedAbout
<1> QED
  BY <1>1, Invariant, PTL

(* The requester hears of an estimate that was saved, once for each        *)
(* parsing, and of a lower one only if another parsing had saved a higher  *)
(* price for the same request.                                             *)
THEOREM Truthful == Spec => []NoticesTruthful
<1>1. IInv => NoticesTruthful
  BY DEF IInv
<1> QED
  BY <1>1, Invariant, PTL

(* No step takes away a proposed time that a reservation selected.         *)
THEOREM SelectedStays == Spec => SelectedKept
<1>1. IInv /\ [Next]_vars => [\A k \in Keys : selected[k] \subseteq selected'[k]]_vars
  BY StepKeeps
<1> QED
  BY <1>1, Invariant, PTL DEF Spec, SelectedKept

-----------------------------------------------------------------------------
(***************************************************************************)
(* That no text is forgotten (NoMessageForgotten) is not inductive: a      *)
(* delivery that skips its message relies on the parsing under way, which  *)
(* may have read its texts before a third delivery moved the message to    *)
(* another request and a fourth one back.  KeptInv says that whoever is    *)
(* about to finish leaves the message settled: counted, or linked to two   *)
(* requests by deliveries that keep a record of it.                        *)
(***************************************************************************)

(* A delivery has linked message m to request r, or is about to. *)
LinkedTo(m, r) == \E d \in Deliveries : delivery[d].msg = m /\ delivery[d].row.request = r

Relinked(m) == \E q, r \in Requests : q # r /\ LinkedTo(m, q) /\ LinkedTo(m, r)

(* What becomes of m is no longer up to the parsing under way. *)
Settled(m) == sms[m].counted \/ Relinked(m)

(* The delivery has still to hand its message over, or has given it up.    *)
HandsOver(d) ==
  delivery[d].pc = "dispatch" /\ Linked(delivery[d].row) /\ delivery[d].row.status = "PENDING"

GaveUp(d) == delivery[d].outcome \in {"waiting", "failed", "lost"}

Remembered(m) ==
  Linked(sms[m]) /\ sms[m].status = "PENDING" =>
    \/ m \in processing \/ Settled(m)
    \/ \E d \in Deliveries : delivery[d].msg = m /\ (HandsOver(d) \/ GaveUp(d))

LinksOfDeliveries ==
  /\ \A d \in Deliveries : delivery[d].pc = "idle" => delivery[d].row.request = None
  /\ \A m \in Messages : sms[m].request # None => LinkedTo(m, sms[m].request)
  /\ \A d \in Deliveries :
       delivery[d].pc \notin {"idle", "link", "done"} /\ delivery[d].row.request # None =>
         sms[delivery[d].msg].request # None

KeptInv ==
  /\ IInv /\ LinksOfDeliveries
  /\ \A d \in Deliveries : delivery[d].pc = "notify" => Settled(delivery[d].msg)
  /\ \A m \in Messages : Remembered(m)

LEMMA KeptTypes ==
  ASSUME KeptInv
  PROVE  /\ \A m \in Messages : sms[m] \in SmsRow /\ sms[m].request \in Requests \union {None}
         /\ \A d \in Deliveries :
              /\ delivery[d] \in DeliveryRecord /\ delivery[d].row \in SmsRow
              /\ delivery[d].row.request \in Requests \union {None}
              /\ delivery[d].pc # "idle" => delivery[d].msg \in Messages
              /\ delivery[d].pc # "done" => ~GaveUp(d)
         /\ None \notin Requests
BY NoneAssumption DEF KeptInv, IInv, TypeOK, Good, DeliveryRecord, SmsRow, GaveUp

LEMMA KeptStart == Init => KeptInv
<1>. SUFFICES ASSUME Init PROVE KeptInv
  OBVIOUS
<1>1. \A d \in Deliveries : delivery[d].pc = "idle" /\ delivery[d].row.request = None
  BY DEF Init, NewDelivery, NoRow
<1>2. \A m \in Messages : sms[m].request = None
  BY DEF Init, NoRow
<1>3. LinksOfDeliveries
  BY <1>1, <1>2 DEF LinksOfDeliveries
<1>. QED  BY <1>1, <1>2, <1>3, InitInvariant DEF KeptInv, Remembered, Linked

(* What a delivery has linked stays linked, and what is settled settled.   *)
LEMMA SettledStays ==
  ASSUME KeptInv,
         \A e \in Deliveries : delivery[e].row.request # None =>
           /\ delivery'[e].msg = delivery[e].msg
           /\ delivery'[e].row.request = delivery[e].row.request,
         \A m \in Messages : sms[m].counted => sms'[m].counted
  PROVE  /\ \A m \in Messages, r \in Requests : LinkedTo(m, r) => LinkedTo(m, r)'
         /\ \A m \in Messages : Settled(m) => Settled(m)'
<1>1. \A m \in Messages, r \in Requests : LinkedTo(m, r) => LinkedTo(m, r)'
  BY KeptTypes DEF LinkedTo
<1>. QED  BY <1>1 DEF Settled, Relinked

(* A step of d that writes no message, and does not let go of one that it  *)
(* should have handed over.                                                *)
LEMMA GoesOn ==
  ASSUME KeptInv, IInv', NEW d \in Deliveries, UNCHANGED sms, processing \subseteq processing',
         \A e \in Deliveries : e # d => delivery'[e] = delivery[e],
         delivery'[d].msg = delivery[d].msg, delivery'[d].row = delivery[d].row,
         delivery[d].pc \notin {"idle", "done"}, delivery'[d].pc \notin {"idle", "notify"},
         delivery[d].pc = "link" => delivery'[d].pc = "done",
         HandsOver(d) => delivery[d].msg \in processing'
  PROVE  KeptInv'
<1>1. /\ \A m \in Messages, r \in Requests : LinkedTo(m, r) => LinkedTo(m, r)'
      /\ \A m \in Messages : Settled(m) => Settled(m)'
  BY SettledStays
<1>2. LinksOfDeliveries'
  BY <1>1, KeptTypes DEF LinksOfDeliveries, KeptInv
<1>3. \A e \in Deliveries : delivery'[e].pc = "notify" => Settled(delivery[e].msg)' /\ e # d
  BY <1>1, KeptTypes DEF KeptInv
<1>4. \A m \in Messages : Remembered(m)'
  <2>. SUFFICES ASSUME NEW m \in Messages, Linked(sms[m]), sms[m].status = "PENDING"
                PROVE  \/ m \in processing' \/ Settled(m)'
                       \/ \E e \in Deliveries : delivery'[e].msg = m /\ (HandsOver(e)' \/ GaveUp(e)')
    BY DEF Remembered
  <2>1. ASSUME NEW e \in Deliveries, delivery[e].msg = m, HandsOver(e) \/ GaveUp(e)
        PROVE  \/ m \in processing'
               \/ delivery'[e].msg = m /\ (HandsOver(e)' \/ GaveUp(e)')
    BY <2>1, KeptTypes DEF HandsOver, GaveUp
  <2>. QED  BY <1>1, <2>1 DEF KeptInv, Remembered
<1>. QED  BY <1>2, <1>3, <1>4 DEF KeptInv

LEMMA StepsBetween ==
  ASSUME KeptInv, IInv', NEW d \in Deliveries,
         \/ RefuseDelivery(d) \/ Dispatch(d) \/ ReadContext(d)
         \/ \E o \in Offers : Parse(d, o)
         \/ ReadLowest(d) \/ BeginSave(d) \/ Throw(d)
  PROVE  KeptInv'
<1>. USE DEF world, tables
<1>1. delivery[d] \in DeliveryRecord /\ TypeOK
  BY DEF KeptInv, IInv, TypeOK
<1>2. CASE RefuseDelivery(d)
  <2>1. delivery' = [delivery EXCEPT ![d].pc = "done", ![d].outcome = "error"]
    BY <1>2 DEF RefuseDelivery
  <2>2. /\ delivery'[d].pc = "done" /\ SameElse(delivery'[d], delivery[d])
        /\ \A e \in Deliveries : e # d => delivery'[e] = delivery[e]
    BY <1>1, <2>1, EndEffect DEF Outcome
  <2>. QED  BY <1>2, <2>2, GoesOn DEF RefuseDelivery, SameElse, HandsOver
<1>3. CASE Dispatch(d)
  <2>. DEFINE m == delivery[d].msg
  <2>1. CASE /\ Linked(delivery[d].row) /\ delivery[d].row.status = "PENDING"
             /\ delivery[d].msg \notin processing
    <3>1. delivery' = [delivery EXCEPT ![d].pc = "context"]
          /\ processing' = processing \union {m}
      BY <1>3, <2>1 DEF Dispatch
    <3>2. /\ delivery'[d].pc = "context" /\ SameElse(delivery'[d], delivery[d])
          /\ \A e \in Deliveries : e # d => delivery'[e] = delivery[e]
      BY <1>1, <3>1, GoToEffect DEF GoTo, Point
    <3>. QED  BY <1>3, <3>1, <3>2, GoesOn DEF Dispatch, SameElse
  <2>2. CASE ~(/\ Linked(delivery[d].row) /\ delivery[d].row.status = "PENDING"
               /\ delivery[d].msg \notin processing)
    <3>1. delivery' = [delivery EXCEPT ![d].pc = "done", ![d].outcome = "skipped"]
          /\ UNCHANGED processing
      BY <1>3, <2>2 DEF Dispatch
    <3>2. /\ delivery'[d].pc = "done" /\ SameElse(delivery'[d], delivery[d])
          /\ \A e \in Deliveries : e # d => delivery'[e] = delivery[e]
      BY <1>1, <3>1, EndEffect DEF Outcome
    <3>. QED  BY <1>3, <2>2, <3>1, <3>2, GoesOn DEF Dispatch, SameElse, HandsOver
  <2>. QED  BY <2>1, <2>2
<1>4. CASE ReadContext(d) \/ (\E o \in Offers : Parse(d, o)) \/ ReadLowest(d) \/ BeginSave(d)
  <2>1. /\ delivery[d].pc \in {"context", "parse", "lowest", "begin"}
        /\ UNCHANGED <<sms, processing>>
    BY <1>4 DEF ReadContext, Parse, ReadLowest, BeginSave
  <2>2. /\ delivery'[d].pc \in {"parse", "wait", "lowest", "begin", "save"}
        /\ delivery'[d].msg = delivery[d].msg /\ delivery'[d].row = delivery[d].row
        /\ \A e \in Deliveries : e # d => delivery'[e] = delivery[e]
    <3>1. delivery \in [Deliveries -> DeliveryRecord]
      BY <1>1 DEF TypeOK
    <3>2. CASE ReadContext(d)
      BY <1>1, <3>1, <3>2 DEF ReadContext, DeliveryRecord
    <3>3. CASE \E o \in Offers : Parse(d, o)
      <4>. PICK o \in Offers : Parse(d, o)
        BY <3>3
      <4>. DEFINE p == IF o.can /\ (o.price = None \/ o.times = {}) THEN "wait" ELSE "lowest"
      <4>1. delivery' = [delivery EXCEPT ![d].pc = p, ![d].offer = o] /\ p \in {"wait", "lowest"}
        BY DEF Parse
      <4>. HIDE DEF p
      <4>. QED  BY <1>1, <3>1, <4>1 DEF DeliveryRecord
    <3>4. CASE ReadLowest(d)
      BY <1>1, <3>1, <3>4 DEF ReadLowest, DeliveryRecord
    <3>5. CASE BeginSave(d)
      BY <1>1, <3>1, <3>5 DEF BeginSave, DeliveryRecord
    <3>. QED  BY <1>4, <3>2, <3>3, <3>4, <3>5
  <2>. QED  BY <2>1, <2>2, GoesOn DEF HandsOver
<1>5. CASE Throw(d)
  <2>1. /\ delivery[d].pc \in {"context", "parse", "wait", "lowest", "begin", "save"}
        /\ UNCHANGED <<sms, processing>> /\ GoTo(d, "fail")
    BY <1>5 DEF Throw
  <2>2. /\ delivery'[d].pc = "fail" /\ SameElse(delivery'[d], delivery[d])
        /\ \A e \in Deliveries : e # d => delivery'[e] = delivery[e]
    BY <1>1, <2>1, GoToEffect DEF Point
  <2>. QED  BY <2>1, <2>2, GoesOn DEF SameElse, HandsOver
<1>. QED  BY <1>2, <1>3, <1>4, <1>5

(* The end of a parsing: given up, or settled by then.                     *)
LEMMA ParsingIsOver ==
  ASSUME KeptInv, IInv', NEW d \in Deliveries, NEW o \in {"waiting", "failed", "saved"},
         Parsing(d), Finish(d, o), o = "saved" => delivery[d].pc = "notify",
         \A m \in Messages :
           /\ sms'[m].request = sms[m].request /\ sms'[m].counted = sms[m].counted
           /\ sms'[m].shop = sms[m].shop
           /\ m # delivery[d].msg \/ o = "saved" => sms'[m] = sms[m]
  PROVE  KeptInv'
<1>1. /\ delivery'[d].pc = "done" /\ delivery'[d].outcome = o
      /\ delivery'[d].msg = delivery[d].msg /\ delivery'[d].row = delivery[d].row
      /\ \A e \in Deliveries : e # d => delivery'[e] = delivery[e]
      /\ processing' = processing \ {delivery[d].msg}
  BY FinishEffect DEF KeptInv, IInv, Outcome
<1>2. /\ \A m \in Messages, r \in Requests : LinkedTo(m, r) => LinkedTo(m, r)'
      /\ \A m \in Messages : Settled(m) => Settled(m)'
  BY <1>1, SettledStays
<1>3. LinksOfDeliveries'
  BY <1>1, <1>2, KeptTypes DEF LinksOfDeliveries, KeptInv
<1>4. \A e \in Deliveries : delivery'[e].pc = "notify" => Settled(delivery[e].msg)' /\ e # d
  BY <1>1, <1>2, KeptTypes DEF KeptInv
<1>5. \A m \in Messages : Remembered(m)'
  <2>. SUFFICES ASSUME NEW m \in Messages, Linked(sms'[m]), sms'[m].status = "PENDING"
                PROVE  \/ m \in processing' \/ Settled(m)'
                       \/ \E e \in Deliveries : delivery'[e].msg = m /\ (HandsOver(e)' \/ GaveUp(e)')
    BY DEF Remembered
  <2>1. CASE m = delivery[d].msg
    <3>1. o = "saved" => Settled(m)'
      BY <1>2, <2>1 DEF KeptInv
    <3>2. o # "saved" => GaveUp(d)'
      BY <1>1 DEF GaveUp
    <3>. QED  BY <1>1, <2>1, <3>1, <3>2
  <2>2. CASE m # delivery[d].msg
    <3>1. ASSUME NEW e \in Deliveries, delivery[e].msg = m, HandsOver(e) \/ GaveUp(e)
          PROVE  delivery'[e].msg = m /\ (HandsOver(e)' \/ GaveUp(e)')
      BY <1>1, <2>2, <3>1 DEF HandsOver, GaveUp
    <3>. QED  BY <1>1, <1>2, <2>2, <3>1 DEF KeptInv, Remembered
  <2>. QED  BY <2>1, <2>2
<1>. QED  BY <1>1, <1>3, <1>4, <1>5 DEF KeptInv

LEMMA ParsingEndsKept ==
  ASSUME KeptInv, IInv', NEW d \in Deliveries, WaitForMore(d) \/ MarkFailed(d) \/ Notify(d)
  PROVE  KeptInv'
<1>1. sms \in [Messages -> SmsRow]
  BY DEF KeptInv, IInv, TypeOK
<1>2. CASE WaitForMore(d)
  <2>1. /\ Parsing(d) /\ Finish(d, "waiting")
        /\ sms' = [sms EXCEPT ![delivery[d].msg].status = "PENDING"]
    BY <1>2 DEF WaitForMore, Parsing
  <2>2. \A m \in Messages :
          /\ sms'[m].request = sms[m].request /\ sms'[m].counted = sms[m].counted
          /\ sms'[m].shop = sms[m].shop /\ (m # delivery[d].msg => sms'[m] = sms[m])
    BY <1>1, <2>1 DEF SmsRow
  <2>. QED  BY <2>1, <2>2, ParsingIsOver
<1>3. CASE MarkFailed(d)
  <2>1. /\ Parsing(d) /\ Finish(d, "failed")
        /\ sms' = [sms EXCEPT ![delivery[d].msg].status = "FAILED"] \/ UNCHANGED sms
    BY <1>3 DEF MarkFailed, Parsing
  <2>2. \A m \in Messages :
          /\ sms'[m].request = sms[m].request /\ sms'[m].counted = sms[m].counted
          /\ sms'[m].shop = sms[m].shop /\ (m # delivery[d].msg => sms'[m] = sms[m])
    BY <1>1, <2>1 DEF SmsRow
  <2>. QED  BY <2>1, <2>2, ParsingIsOver
<1>4. CASE Notify(d)
  <2>1. /\ Parsing(d) /\ Finish(d, "saved") /\ UNCHANGED sms /\ delivery[d].pc = "notify"
    BY <1>4 DEF Notify, Parsing, tables
  <2>. QED  BY <2>1, ParsingIsOver
<1>. QED  BY <1>2, <1>3, <1>4

(* A step that writes neither messages nor deliveries.                     *)
LEMMA KeptByOthers ==
  ASSUME KeptInv, IInv', UNCHANGED <<sms, delivery, processing>>
  PROVE  KeptInv'
<1>1. \A m \in Messages : (Settled(m) <=> Settled(m)') /\ Remembered(m)'
  BY DEF Settled, Relinked, LinkedTo, KeptInv, Remembered, HandsOver, GaveUp
<1>2. LinksOfDeliveries'
  BY DEF KeptInv, LinksOfDeliveries, LinkedTo
<1>. QED  BY <1>1, <1>2, KeptTypes DEF KeptInv

LEMMA DeliveryBegins ==
  ASSUME KeptInv, IInv', NEW d \in Deliveries, NEW m \in Messages,
         NEW s \in {Sender[m], None}, NEW i \in 0..Len(sent), BeginDelivery(d, m, s, i)
  PROVE  KeptInv'
<1>. DEFINE linked == Linked(sms[m])
            r == LinkTarget(s, i)
            new == [NoRow EXCEPT !.status = IF s = None \/ r = None THEN "FAILED" ELSE "PENDING",
                                 !.request = IF s = None THEN None ELSE r, !.shop = s]
            lnk == IF linked THEN sms[m] ELSE new
            rec == [NewDelivery EXCEPT !.pc = IF linked THEN "dispatch" ELSE "link",
                      !.msg = m, !.fresh = sms[m].status = "none", !.row = lnk]
<1>1. /\ delivery[d].pc = "idle" /\ delivery' = [delivery EXCEPT ![d] = rec]
      /\ UNCHANGED <<sms, processing>>
  BY DEF BeginDelivery, tables
<1>2. /\ rec.msg = m /\ rec.row = lnk
      /\ linked => rec.pc = "dispatch" /\ rec.row = sms[m]
      /\ ~linked => rec.pc = "link"
  BY DEF NewDelivery
<1>. HIDE DEF rec, lnk
<1>3. delivery \in [Deliveries -> DeliveryRecord] /\ delivery[d].row.request = None
  BY <1>1 DEF KeptInv, IInv, TypeOK, LinksOfDeliveries
<1>4. delivery'[d] = rec /\ \A e \in Deliveries : e # d => delivery'[e] = delivery[e]
  BY <1>1, <1>3
<1>5. /\ \A x \in Messages, q \in Requests : LinkedTo(x, q) => LinkedTo(x, q)'
      /\ \A x \in Messages : Settled(x) => Settled(x)'
  BY <1>1, <1>3, <1>4, SettledStays
<1>6. LinksOfDeliveries'
  BY <1>1, <1>2, <1>4, <1>5, KeptTypes DEF LinksOfDeliveries, KeptInv, Linked
<1>7. \A e \in Deliveries : delivery'[e].pc = "notify" => Settled(delivery[e].msg)'
  <2>1. delivery'[d].pc # "notify"
    BY <1>2, <1>4
  <2>2. ASSUME NEW e \in Deliveries, e # d, delivery[e].pc = "notify"
        PROVE  Settled(delivery[e].msg)'
    BY <1>4, <1>5, <2>2, KeptTypes DEF KeptInv
  <2>. QED  BY <1>4, <2>1, <2>2
<1>8. \A x \in Messages : Remembered(x)'
  <2>1. ~HandsOver(d) /\ ~GaveUp(d)
    BY <1>1, KeptTypes DEF HandsOver
  <2>. QED  BY <1>1, <1>4, <1>5, <2>1 DEF KeptInv, Remembered, HandsOver, GaveUp
<1>. QED  BY <1>6, <1>7, <1>8 DEF KeptInv

LEMMA LinkCommitted ==
  ASSUME KeptInv, IInv', NEW d \in Deliveries, CommitLink(d)
  PROVE  KeptInv'
<1>0. PICK m \in Messages : m = delivery[d].msg
  BY KeptTypes DEF CommitLink
<1>. DEFINE new == delivery[d].row
            old == sms[m]
            request == IF new.request = None THEN old.request ELSE new.request
            shop == IF new.shop = None THEN old.shop ELSE new.shop
            lnk == [status |-> new.status, request |-> request, shop |-> shop,
                    counted |-> old.counted]
<1>1. /\ delivery[d].pc = "link" /\ processing' = processing /\ delivery[d].msg = m
      /\ delivery \in [Deliveries -> DeliveryRecord] /\ sms \in [Messages -> SmsRow]
      /\ delivery[d] \in DeliveryRecord /\ TypeOK
  BY <1>0 DEF CommitLink, KeptInv, IInv, TypeOK
<1>2. CASE /\ delivery[d].fresh /\ old.status # "none" /\ UNCHANGED sms
           /\ delivery' = [delivery EXCEPT ![d].pc = "done", ![d].outcome = "error"]
  <2>1. /\ delivery'[d].pc = "done" /\ SameElse(delivery'[d], delivery[d])
        /\ \A e \in Deliveries : e # d => delivery'[e] = delivery[e]
    BY <1>1, <1>2, EndEffect DEF Outcome
  <2>. QED  BY <1>1, <1>2, <2>1, GoesOn DEF SameElse, HandsOver
<1>3. CASE /\ sms' = [sms EXCEPT ![m] = lnk]
           /\ delivery' = [delivery EXCEPT ![d].pc = "dispatch", ![d].row = lnk]
  <2>1. lnk.request = request /\ lnk.status = new.status /\ lnk.counted = old.counted
    OBVIOUS
  <2>2. /\ new.request # None => request = new.request
        /\ new.request = None => request = old.request
    OBVIOUS
  <2>. HIDE DEF request, lnk
  <2>3. /\ delivery'[d].pc = "dispatch" /\ delivery'[d].row = lnk /\ delivery'[d].msg = m
        /\ \A e \in Deliveries : e # d => delivery'[e] = delivery[e]
        /\ sms'[m] = lnk /\ \A x \in Messages : x # m => sms'[x] = sms[x]
    BY <1>1, <1>3 DEF DeliveryRecord
  <2>4. /\ \A x \in Messages, q \in Requests : LinkedTo(x, q) => LinkedTo(x, q)'
        /\ \A x \in Messages : Settled(x) => Settled(x)'
    BY <1>1, <2>1, <2>2, <2>3, SettledStays
  <2>5. \A x \in Messages : sms[x].request # None => sms'[x].request # None
    BY <2>1, <2>2, <2>3
  <2>6. LinksOfDeliveries'
    <3>1. ASSUME NEW x \in Messages, sms'[x].request # None
          PROVE  LinkedTo(x, sms[x].request)'
      <4>1. CASE x = m
        BY <2>1, <2>3, <4>1 DEF LinkedTo
      <4>2. CASE x # m
        BY <2>3, <2>4, <3>1, <4>2, KeptTypes DEF KeptInv, LinksOfDeliveries
      <4>. QED  BY <4>1, <4>2
    <3>2. ASSUME NEW e \in Deliveries, delivery'[e].pc \notin {"idle", "link", "done"},
                 delivery'[e].row.request # None
          PROVE  sms'[delivery'[e].msg].request # None
      <4>1. CASE e = d
        BY <2>3, <3>2, <4>1
      <4>2. CASE e # d
        BY <2>3, <2>5, <3>2, <4>2, KeptTypes DEF KeptInv, LinksOfDeliveries
      <4>. QED  BY <4>1, <4>2
    <3>3. \A e \in Deliveries : delivery'[e].pc = "idle" => delivery'[e].row.request = None
      BY <2>3 DEF KeptInv, LinksOfDeliveries
    <3>. QED  BY <3>1, <3>2, <3>3 DEF LinksOfDeliveries, LinkedTo
  <2>7. \A e \in Deliveries : delivery'[e].pc = "notify" => Settled(delivery[e].msg)'
    <3>1. delivery'[d].pc # "notify"
      BY <2>3
    <3>2. ASSUME NEW e \in Deliveries, e # d, delivery[e].pc = "notify"
          PROVE  Settled(delivery[e].msg)'
      BY <2>3, <2>4, <3>2, KeptTypes DEF KeptInv
    <3>. QED  BY <2>3, <3>1, <3>2
  <2>8. \A x \in Messages : Remembered(x)'
    <3>1. Remembered(m)'
      BY <2>3 DEF Remembered, HandsOver
    <3>2. ASSUME NEW x \in Messages, x # m
          PROVE  Remembered(x)'
      <4>1. ASSUME NEW e \in Deliveries, delivery[e].msg = x
            PROVE  delivery'[e] = delivery[e]
        BY <1>1, <2>3, <3>2, <4>1
      <4>. QED  BY <1>1, <2>3, <2>4, <3>2, <4>1 DEF KeptInv, Remembered, HandsOver, GaveUp
    <3>. QED  BY <3>1, <3>2
  <2>. QED  BY <2>6, <2>7, <2>8 DEF KeptInv
<1>. QED  BY <1>0, <1>2, <1>3 DEF CommitLink

LEMMA ResponseSaved ==
  ASSUME KeptInv, IInv', NEW d \in Deliveries, Save(d)
  PROVE  KeptInv'
<1>0. PICK m \in Messages : m = delivery[d].msg
  BY KeptTypes DEF Save
<1>. DEFINE k == KeyOf(d)
<1>1. /\ delivery[d].pc = "save" /\ Parsing(d) /\ processing' = processing /\ TypeOK
      /\ delivery[d] \in DeliveryRecord /\ sms \in [Messages -> SmsRow] /\ delivery[d].msg = m
  BY <1>0 DEF Save, Parsing, KeptInv, IInv, TypeOK
<1>2. CASE Exists(k) /\ ~delivery[d].seen.row /\ GoTo(d, "fail") /\ UNCHANGED <<response, open, sms>>
  <2>1. /\ delivery'[d].pc = "fail" /\ SameElse(delivery'[d], delivery[d])
        /\ \A e \in Deliveries : e # d => delivery'[e] = delivery[e]
    BY <1>1, <1>2, GoToEffect DEF Point
  <2>. QED  BY <1>1, <1>2, <2>1, GoesOn DEF SameElse, HandsOver
<1>3. CASE CountMessages(k) /\ GoTo(d, "notify")
  <2>1. /\ delivery'[d].pc = "notify" /\ delivery'[d].outcome = delivery[d].outcome
        /\ delivery'[d].msg = m /\ delivery'[d].row = delivery[d].row
        /\ \A e \in Deliveries : e # d => delivery'[e] = delivery[e]
    BY <1>1, <1>3, GoToEffect DEF Point, SameElse
  <2>2. \A x \in Messages :
          /\ sms'[x].request = sms[x].request
          /\ sms[x].counted => sms'[x].counted
          /\ <<sms[x].request, sms[x].shop>> = k => sms'[x].counted
          /\ <<sms[x].request, sms[x].shop>> # k => sms'[x] = sms[x]
    BY <1>1, <1>3 DEF CountMessages, SmsRow
  <2>3. /\ \A x \in Messages, q \in Requests : LinkedTo(x, q) => LinkedTo(x, q)'
        /\ \A x \in Messages : Settled(x) => Settled(x)'
    BY <1>1, <2>1, <2>2, SettledStays
  <2>4. LinksOfDeliveries'
    BY <1>1, <2>1, <2>2, <2>3, KeptTypes DEF LinksOfDeliveries, KeptInv
  <2>5. Settled(m)'
    <3>. DEFINE q == delivery[d].row.request
                r == sms[m].request
    <3>1. q \in Requests /\ r \in Requests /\ LinkedTo(m, q) /\ LinkedTo(m, r)
      <4>1. q # None /\ q \in Requests
        BY <1>1, KeptTypes DEF KeptInv, IInv, Good
      <4>2. r # None /\ r \in Requests
        BY <1>1, <4>1, KeptTypes DEF KeptInv, LinksOfDeliveries
      <4>. QED  BY <1>1, <4>1, <4>2 DEF LinkedTo, KeptInv, LinksOfDeliveries
    <3>2. CASE q = r
      <4>1. LinkOK(m, delivery[d].row) /\ LinkOK(m, sms[m])
        BY <1>1 DEF KeptInv, IInv, Good, Rows
      <4>2. sms[m].shop = delivery[d].row.shop
        BY <3>1, <3>2, <4>1, KeptTypes DEF LinkOK
      <4>3. <<sms[m].request, sms[m].shop>> = k
        BY <3>2, <4>2 DEF KeyOf
      <4>. QED  BY <1>1, <2>2, <4>3 DEF Settled
    <3>3. CASE q # r
      <4>1. Relinked(m)
        BY <3>1, <3>3 DEF Relinked
      <4>. QED  BY <1>1, <2>3, <4>1 DEF Settled
    <3>. QED  BY <3>2, <3>3
  <2>6. \A e \in Deliveries : delivery'[e].pc = "notify" => Settled(delivery[e].msg)'
    <3>1. ASSUME NEW e \in Deliveries, e # d, delivery[e].pc = "notify"
          PROVE  Settled(delivery[e].msg)'
      BY <2>1, <2>3, <3>1, KeptTypes DEF KeptInv
    <3>. QED  BY <2>1, <2>5, <3>1
  <2>7. \A x \in Messages : Remembered(x)'
    <3>. SUFFICES ASSUME NEW x \in Messages PROVE Remembered(x)'
      OBVIOUS
    <3>1. CASE <<sms[x].request, sms[x].shop>> = k
      BY <2>2, <3>1 DEF Remembered, Settled
    <3>2. CASE <<sms[x].request, sms[x].shop>> # k
      <4>1. ~HandsOver(d) /\ ~GaveUp(d)
        BY <1>1, KeptTypes DEF HandsOver
      <4>. QED  BY <1>1, <2>1, <2>2, <2>3, <3>2, <4>1 DEF KeptInv, Remembered, HandsOver, GaveUp
    <3>. QED  BY <3>1, <3>2
  <2>. QED  BY <2>4, <2>6, <2>7 DEF KeptInv
<1>. QED  BY <1>2, <1>3 DEF Save

LEMMA KeptAfterACrash ==
  ASSUME KeptInv, IInv', ServerCrash
  PROVE  KeptInv'
<1>1. processing' = {} /\ sms' = sms
  BY DEF ServerCrash, tables
<1>2. ASSUME NEW e \in Deliveries
      PROVE  /\ delivery'[e].row = delivery[e].row /\ delivery'[e].msg = delivery[e].msg
             /\ \/ delivery'[e] = delivery[e] /\ delivery[e].pc \in {"idle", "done"}
                \/ /\ delivery'[e].pc = "done" /\ delivery[e].pc \notin {"idle", "done"}
                   /\ delivery[e].pc # "notify" => delivery'[e].outcome = "lost"
  <2>. DEFINE o == IF delivery[e].pc = "notify" THEN "saved" ELSE "lost"
  <2>1. delivery[e] \in DeliveryRecord
    BY KeptTypes
  <2>2. /\ delivery'[e] = IF delivery[e].pc \in {"idle", "done"} THEN delivery[e]
                          ELSE [delivery[e] EXCEPT !.pc = "done", !.outcome = o]
        /\ delivery[e].pc # "notify" => o = "lost"
    BY DEF ServerCrash
  <2>. HIDE DEF o
  <2>. QED  BY <2>1, <2>2 DEF DeliveryRecord
<1>3. /\ \A m \in Messages, r \in Requests : LinkedTo(m, r) => LinkedTo(m, r)'
      /\ \A m \in Messages : Settled(m) => Settled(m)'
  BY <1>1, <1>2, SettledStays
<1>4. LinksOfDeliveries'
  BY <1>1, <1>2, <1>3, KeptTypes DEF LinksOfDeliveries, KeptInv
<1>5. \A m \in Messages : Remembered(m)'
  <2>. SUFFICES ASSUME NEW m \in Messages, Linked(sms[m]), sms[m].status = "PENDING", ~Settled(m)
                PROVE  \E e \in Deliveries : delivery'[e].msg = m /\ GaveUp(e)'
    BY <1>1, <1>3 DEF Remembered
  <2>1. CASE m \in processing
    <3>1. PICK e \in Deliveries : Parsing(e) /\ delivery[e].msg = m
      BY <2>1 DEF KeptInv, IInv, OneParsingPerMessage
    <3>2. delivery[e].pc # "notify"
      BY <3>1 DEF KeptInv
    <3>3. GaveUp(e)'
      BY <1>2, <3>1, <3>2 DEF Parsing, GaveUp
    <3>. QED  BY <1>2, <3>1, <3>3
  <2>2. CASE m \notin processing
    <3>1. PICK e \in Deliveries : delivery[e].msg = m /\ (HandsOver(e) \/ GaveUp(e))
      BY <2>2 DEF KeptInv, Remembered
    <3>2. GaveUp(e)'
      BY <1>2, <3>1, KeptTypes DEF HandsOver, GaveUp
    <3>. QED  BY <1>2, <3>1, <3>2
  <2>. QED  BY <2>1, <2>2
<1>. QED  BY <1>2, <1>4, <1>5 DEF KeptInv

LEMMA KeptMoves == KeptInv /\ [Next]_vars => KeptInv'
<1>. SUFFICES ASSUME KeptInv, [Next]_vars PROVE KeptInv'
  OBVIOUS
<1>1. IInv'
  BY StepKeeps DEF KeptInv
<1>2. CASE UNCHANGED vars
  BY <1>1, <1>2, KeptByOthers DEF vars, tables
<1>3. ASSUME NEW d \in Deliveries, DeliveryStep(d) PROVE KeptInv'
  BY <1>1, <1>3, LinkCommitted, StepsBetween, ParsingEndsKept, ResponseSaved DEF DeliveryStep
<1>4. ASSUME Environment PROVE KeptInv'
  <2>1. CASE ServerCrash
    BY <1>1, <2>1, KeptAfterACrash
  <2>2. CASE ~ServerCrash
    <3>1. UNCHANGED <<sms, delivery, processing>>
      BY <1>4, <2>2 DEF Environment, SendOutbound, Expire, Accept, SelectTime, tables
    <3>. QED  BY <1>1, <3>1, KeptByOthers
  <2>. QED  BY <2>1, <2>2
<1>. QED  BY <1>1, <1>2, <1>3, <1>4, DeliveryBegins DEF Next

(* Skipping a message that is being parsed already loses no text, and no   *)
(* estimate is made of texts that answer another request.                  *)
THEOREM NothingForgotten == Spec => []MessagesKept
<1>1. KeptInv => NoMessageForgotten
  <2>. SUFFICES ASSUME KeptInv, NEW m \in Messages, Linked(sms[m]), sms[m].status = "PENDING",
                       m \notin processing, ~sms[m].counted
                PROVE  \E d \in Deliveries :
                         /\ delivery[d].msg = m
                         /\ \/ delivery[d].pc = "dispatch"
                            \/ delivery[d].outcome \in {"waiting", "failed", "lost"}
                            \/ delivery[d].row.request \notin {None, sms[m].request}
    BY DEF NoMessageForgotten
  <2>1. CASE Relinked(m)
    BY <2>1, KeptTypes DEF Relinked, LinkedTo
  <2>2. CASE ~Relinked(m)
    BY <2>2 DEF KeptInv, Remembered, Settled, HandsOver, GaveUp
  <2>. QED  BY <2>1, <2>2
<1>. QED  BY <1>1, KeptStart, KeptMoves, RightRequest, PTL DEF Spec, MessagesKept
=============================================================================
