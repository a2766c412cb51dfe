------------------------- MODULE EstimateRequestProofs -------------------------
(***************************************************************************)
(* Proofs about EstimateRequest, for any requests, designs, calendar, time *)
(* zone and number of scheduler instances.                                 *)
(*                                                                         *)
(* IInv says of each POST what its statement so far has brought about      *)
(* (Progress: nothing is stored before the shops have the message), and of *)
(* each execution of the scheduler that what it is about to announce is    *)
(* closed, unannounced and its own (RunsKnow).                             *)
(***************************************************************************)
EXTENDS MCLive, TLAPS

(* Where nothing is sent yet; only a failed clean-up of the picture ends a *)
(* POST between the shops and the sending.                                 *)
Unsent == {"idle", "design", "shops", "fetch", "body", "upload", "cleanup", "ready"}

(* What a POST at r has sent and stored. *)
Progress(r, row, text) ==
  /\ r.pc \in Unsent => text = "none"
  /\ r.pc = "save" /\ smsEnabled => text = "delivered"
  /\ r.pc # "done" => r.outcome = "none"
  /\ (row.status # "none") <=> (r.outcome \in {"created", "unconfirmed"})
  /\ row.status # "none" /\ smsEnabled => text = "delivered"

RunsKnow ==
  \A x \in Runs :
    /\ run[x].cutoff <= day
    /\ run[x].pc = "notify" =>
         /\ run[x].current \in Creates
         /\ request[run[x].current].status = "EXPIRED"
         /\ \A n \in closed : n.request # run[x].current
         /\ \A y \in Runs :
              run[y].pc = "notify" /\ run[y].current = run[x].current => y = x

IInv ==
  /\ TypeOK
  /\ \A c \in Creates : Progress(create[c], request[c], sms[c])
  /\ RunsKnow
  /\ ClosedOnce /\ ClosedAfterLastDay

(* What no step may do to a row. *)
RowKept ==
  \A c \in Creates :
    /\ request[c].status = "EXPIRED" => request'[c].status = "EXPIRED"
    /\ request[c].status # "none" => request'[c].status # "none"

-----------------------------------------------------------------------------
LEMMA InitInvariant == Init => IInv
<1> SUFFICES ASSUME Init PROVE IInv
  OBVIOUS
<1>1. 0 \in Days
  BY CalendarAssumption DEF Days
<1>2. TypeOK
  <2>1. [status |-> "none", last |-> 0, design |-> None] \in RequestRow
    BY <1>1 DEF RequestRow
  <2>2. [pc |-> "idle", last |-> 0, design |-> None, image |-> FALSE,
        outcome |-> "none"] \in CreateRecord
    BY <1>1 DEF CreateRecord
  <2>3. IdleRun \in RunRecord
    BY <1>1 DEF IdleRun, RunRecord
  <2> QED
    BY <1>1, <2>1, <2>2, <2>3 DEF Init, TypeOK
<1>3. \A c \in Creates : Progress(create[c], request[c], sms[c])
  BY DEF Init, Progress, Unsent
<1>4. RunsKnow
  BY DEF Init, RunsKnow, IdleRun
<1>5. ClosedOnce /\ ClosedAfterLastDay
  BY DEF Init, ClosedOnce, ClosedAfterLastDay
<1> QED
  BY <1>2, <1>3, <1>4, <1>5 DEF IInv

(* A step of the POST c alone, to the record r. *)
LEMMA OnePost ==
  ASSUME IInv, NEW c \in Creates, NEW r \in CreateRecord,
         create' = [create EXCEPT ![c] = r],
         UNCHANGED <<day, smsEnabled, designs, request, run, closed>>,
         sms' \in [Creates -> {"none", "inflight", "delivered", "refused"}],
         \A d \in Creates : d # c => sms'[d] = sms[d],
         Progress(r, request[c], sms'[c])
  PROVE  IInv' /\ RowKept
<1>1. TypeOK'
  BY DEF IInv, TypeOK
<1>2. create'[c] = r /\ \A d \in Creates : d # c => create'[d] = create[d]
  BY DEF IInv, TypeOK
<1>3. ASSUME NEW d \in Creates PROVE Progress(create[d], request[d], sms[d])'
  <2>1. Progress(create'[d], request[d], sms'[d])
    <3>1. CASE d = c
      BY <1>2, <3>1
    <3>2. CASE d # c
      BY <1>2, <3>2 DEF IInv
    <3> QED
      BY <3>1, <3>2
  <2> QED
    BY <2>1 DEF Progress
<1>4. RunsKnow' /\ ClosedOnce' /\ ClosedAfterLastDay' /\ RowKept
  BY DEF IInv, RunsKnow, ClosedOnce, ClosedAfterLastDay, RowKept
<1> QED
  BY <1>1, <1>3, <1>4 DEF IInv

(* The records a POST can go to from where it is. *)
LEMMA GoRecord ==
  ASSUME IInv, NEW c \in Creates, NEW pc \in Unsent \union {"send", "save"}, GoTo(c, pc)
  PROVE  /\ [create[c] EXCEPT !.pc = pc] \in CreateRecord
         /\ [create[c] EXCEPT !.pc = pc].pc = pc
         /\ [create[c] EXCEPT !.pc = pc].outcome = create[c].outcome
         /\ create' = [create EXCEPT ![c] = [create[c] EXCEPT !.pc = pc]]
<1>1. create \in [Creates -> CreateRecord] /\ create[c] \in CreateRecord
  BY DEF IInv, TypeOK
<1>2. create' = [create EXCEPT ![c] = [create[c] EXCEPT !.pc = pc]]
  BY <1>1 DEF GoTo
<1> QED
  BY <1>1, <1>2 DEF CreateRecord, Unsent

LEMMA DoneRecord ==
  ASSUME NEW r \in CreateRecord,
         NEW outcome \in {"created", "failed", "unconfirmed", "designNotFound", "lost"}
  PROVE  /\ [r EXCEPT !.pc = "done", !.outcome = outcome] \in CreateRecord
         /\ [r EXCEPT !.pc = "done", !.outcome = outcome].pc = "done"
         /\ [r EXCEPT !.pc = "done", !.outcome = outcome].outcome = outcome
  BY DEF CreateRecord

LEMMA AnswerRecord ==
  ASSUME IInv, NEW c \in Creates,
         NEW outcome \in {"created", "failed", "unconfirmed", "designNotFound", "lost"},
         Answer(c, outcome)
  PROVE  /\ create[c] \in CreateRecord
         /\ create' = [create EXCEPT ![c] = [create[c] EXCEPT !.pc = "done", !.outcome = outcome]]
  BY DEF IInv, TypeOK, Answer

LEMMA BeginCreateStep ==
  ASSUME IInv, NEW c \in Creates, NEW last \in Days, NEW g \in Designs \union {None},
         NEW image \in BOOLEAN, BeginCreate(c, last, g, image)
  PROVE  IInv' /\ RowKept
<1> DEFINE pc == IF g = None THEN "shops" ELSE "design"
           r == [pc |-> pc, last |-> last, design |-> g, image |-> image,
                 outcome |-> "none"]
<1>1. /\ create' = [create EXCEPT ![c] = r] /\ create[c].pc = "idle"
      /\ UNCHANGED <<day, smsEnabled, designs, request, run, closed>> /\ sms' = sms
  BY DEF BeginCreate, database
<1>2. r \in CreateRecord
  BY DEF CreateRecord
<1>3. r.pc \in {"shops", "design"} /\ r.outcome = "none"
  OBVIOUS
<1> HIDE DEF r
<1>4. Progress(r, request[c], sms'[c])
  BY <1>1, <1>3 DEF IInv, Progress, Unsent
<1>5. sms' \in [Creates -> {"none", "inflight", "delivered", "refused"}]
  BY <1>1 DEF IInv, TypeOK
<1> QED
  BY <1>1, <1>2, <1>4, <1>5, OnePost

(* The statements and answers before the row is stored. *)
LEMMA GoStep ==
  ASSUME IInv, NEW c \in Creates,
         \/ CheckDesign(c) \/ FindShops(c) \/ FetchImage(c) \/ ReadImage(c)
         \/ UploadImage(c) \/ RemoveFile(c) \/ StartSend(c) \/ SendReturns(c)
         \/ SendTimesOut(c) \/ StatementFails(c)
  PROVE  IInv' /\ RowKept
<1>0. Progress(create[c], request[c], sms[c]) /\ sms \in [Creates -> {"none", "inflight", "delivered", "refused"}]
  BY DEF IInv, TypeOK
<1>1. ASSUME NEW outcome \in {"failed", "designNotFound"}, Answer(c, outcome),
             create[c].pc # "done",
             UNCHANGED <<day, smsEnabled, designs, request, run, closed, sms>>
      PROVE  IInv' /\ RowKept
  <2> DEFINE r == [create[c] EXCEPT !.pc = "done", !.outcome = outcome]
  <2>0. /\ create[c] \in CreateRecord /\ create' = [create EXCEPT ![c] = r]
        /\ outcome \in {"created", "failed", "unconfirmed", "designNotFound", "lost"}
    BY <1>1, AnswerRecord
  <2>1. r \in CreateRecord /\ r.pc = "done" /\ r.outcome = outcome
    BY ONLY <2>0, DoneRecord
  <2> HIDE DEF r
  <2>2. Progress(r, request[c], sms'[c])
    BY <1>0, <1>1, <2>1 DEF Progress, Unsent
  <2> QED
    BY <1>0, <1>1, <2>0, <2>1, <2>2, OnePost
<1>2. ASSUME NEW pc \in Unsent \union {"send", "save"}, GoTo(c, pc),
             create[c].pc # "done",
             UNCHANGED <<day, smsEnabled, designs, request, run, closed>>,
             sms' \in [Creates -> {"none", "inflight", "delivered", "refused"}],
             \A d \in Creates : d # c => sms'[d] = sms[d],
             pc \in Unsent => sms'[c] = "none",
             pc = "save" /\ smsEnabled => sms'[c] = "delivered"
      PROVE  IInv' /\ RowKept
  <2> DEFINE r == [create[c] EXCEPT !.pc = pc]
  <2>1. /\ r \in CreateRecord /\ r.pc = pc /\ r.outcome = create[c].outcome
        /\ create' = [create EXCEPT ![c] = r]
    BY <1>2, GoRecord
  <2> HIDE DEF r
  <2>2. Progress(r, request[c], sms'[c])
    BY <1>0, <1>2, <2>1 DEF Progress
  <2> QED
    BY <1>2, <2>1, <2>2, OnePost
<1>3. CASE CheckDesign(c)
  <2>1. UNCHANGED <<day, smsEnabled, designs, request, run, closed, sms>>
    BY <1>3 DEF CheckDesign, database
  <2>2. create[c].pc = "design" /\ (GoTo(c, "shops") \/ Answer(c, "designNotFound"))
    BY <1>3 DEF CheckDesign
  <2>3. sms'[c] = "none"
    BY <1>0, <2>1, <2>2 DEF Progress, Unsent
  <2>4. CASE GoTo(c, "shops")
    BY <1>0, <1>2, <2>1, <2>2, <2>3, <2>4 DEF Unsent
  <2>5. CASE Answer(c, "designNotFound")
    BY <1>1, <2>1, <2>2, <2>5
  <2> QED
    BY <2>2, <2>4, <2>5
<1>4. CASE FindShops(c)
  <2>1. UNCHANGED <<day, smsEnabled, designs, request, run, closed, sms>> /\ create[c].pc = "shops"
    BY <1>4 DEF FindShops, database
  <2>2. PICK pc \in {"fetch", "ready", "save"} : GoTo(c, pc) /\ (pc = "save" => ~smsEnabled)
    BY <1>4 DEF FindShops
  <2> QED
    BY <1>0, <1>2, <2>1, <2>2 DEF Progress, Unsent
<1>5. CASE StartSend(c)
  <2>1. /\ UNCHANGED <<day, smsEnabled, designs, request, run, closed>>
        /\ create[c].pc = "ready" /\ GoTo(c, "send") /\ sms' = [sms EXCEPT ![c] = "inflight"]
    BY <1>5 DEF StartSend, database
  <2>2. /\ sms' \in [Creates -> {"none", "inflight", "delivered", "refused"}]
        /\ \A d \in Creates : d # c => sms'[d] = sms[d]
    BY <1>0, <2>1
  <2> QED
    BY <1>0, <1>2, <2>1, <2>2 DEF Progress, Unsent
<1>6. CASE SendReturns(c)
  <2>1. UNCHANGED <<day, smsEnabled, designs, request, run, closed, sms>> /\ create[c].pc = "send"
    BY <1>6 DEF SendReturns, database
  <2>2. (sms[c] = "delivered" /\ GoTo(c, "save")) \/ Answer(c, "failed")
    BY <1>6 DEF SendReturns
  <2> QED
    BY <1>0, <1>1, <1>2, <2>1, <2>2 DEF Unsent
<1>7. CASE SendTimesOut(c) \/ StatementFails(c)
  <2>1. /\ UNCHANGED <<day, smsEnabled, designs, request, run, closed, sms>>
        /\ create[c].pc # "done" /\ Answer(c, "failed")
    BY <1>7 DEF SendTimesOut, StatementFails, database
  <2> QED
    BY <1>1, <2>1
<1>8. CASE FetchImage(c) \/ ReadImage(c) \/ UploadImage(c) \/ RemoveFile(c)
  <2>1. /\ UNCHANGED <<day, smsEnabled, designs, request, run, closed, sms>>
        /\ create[c].pc \in {"fetch", "body", "upload", "cleanup"}
    BY <1>8 DEF FetchImage, ReadImage, UploadImage, RemoveFile, database
  <2>2. sms'[c] = "none"
    BY <1>0, <2>1 DEF Progress, Unsent
  <2>3. CASE Answer(c, "failed")
    BY <1>1, <2>1, <2>3
  <2>4. ASSUME NEW pc \in {"body", "upload", "cleanup", "ready"}, GoTo(c, pc)
        PROVE  IInv' /\ RowKept
    BY <1>0, <1>2, <2>1, <2>2, <2>4 DEF Unsent
  <2> QED
    BY <1>8, <2>3, <2>4 DEF FetchImage, ReadImage, UploadImage, RemoveFile
<1> QED
  BY <1>3, <1>4, <1>5, <1>6, <1>7, <1>8

(* The row is inserted once, by a POST whose shops have the message. *)
LEMMA SaveStep == ASSUME IInv, NEW c \in Creates, Save(c) PROVE IInv' /\ RowKept
<1> DEFINE g == create[c].design
           row == [status |-> "MATCHING", last |-> create[c].last, design |-> g]
<1>0. /\ Progress(create[c], request[c], sms[c]) /\ create[c].pc = "save"
      /\ create[c] \in CreateRecord
      /\ UNCHANGED <<day, smsEnabled, designs, sms, run, closed>>
  BY DEF IInv, TypeOK, Save
<1>1. CASE Answer(c, "designNotFound") /\ UNCHANGED request
  <2> DEFINE r == [create[c] EXCEPT !.pc = "done", !.outcome = "designNotFound"]
  <2>1. /\ r \in CreateRecord /\ r.pc = "done" /\ r.outcome = "designNotFound"
        /\ create' = [create EXCEPT ![c] = r]
    BY <1>1, AnswerRecord, DoneRecord
  <2> HIDE DEF r
  <2>2. Progress(r, request[c], sms'[c])
    BY <1>0, <2>1 DEF Progress, Unsent
  <2>3. sms' \in [Creates -> {"none", "inflight", "delivered", "refused"}]
    BY <1>0 DEF IInv, TypeOK
  <2> QED
    BY <1>0, <1>1, <2>1, <2>2, <2>3, OnePost
<1>2. ASSUME NEW outcome \in {"created", "unconfirmed"}, Answer(c, outcome),
             request' = [request EXCEPT ![c] = row]
      PROVE  IInv' /\ RowKept
  <2> DEFINE r == [create[c] EXCEPT !.pc = "done", !.outcome = outcome]
  <2>0. /\ create' = [create EXCEPT ![c] = r]
        /\ outcome \in {"created", "failed", "unconfirmed", "designNotFound", "lost"}
    BY <1>2, AnswerRecord
  <2>1. /\ r \in CreateRecord /\ r.pc = "done" /\ r.outcome = outcome
        /\ create' = [create EXCEPT ![c] = r]
    BY ONLY <1>0, <2>0, DoneRecord
  <2>2. row \in RequestRow /\ row.status = "MATCHING"
    BY <1>0 DEF CreateRecord, RequestRow
  <2> HIDE DEF r, row
  <2>3. /\ create'[c] = r /\ request'[c] = row /\ request[c].status = "none"
        /\ \A d \in Creates : d # c => create'[d] = create[d] /\ request'[d] = request[d]
    BY <1>0, <1>2, <2>1 DEF IInv, TypeOK, Progress
  <2>4. TypeOK'
    BY <1>0, <1>2, <2>1, <2>2 DEF IInv, TypeOK
  <2>5. Progress(r, row, sms[c])
    BY <1>0, <1>2, <2>1, <2>2 DEF Progress, Unsent
  <2>6. ASSUME NEW d \in Creates PROVE Progress(create[d], request[d], sms[d])'
    <3>1. Progress(create'[d], request'[d], sms[d])
      BY <2>3, <2>5 DEF IInv
    <3> QED
      BY <1>0, <3>1 DEF Progress
  <2>7. \A d \in Creates : request[d].status = "EXPIRED" => request'[d] = request[d]
    BY <2>3
  <2>8. \A d \in Creates : request'[d].status = "EXPIRED" => request'[d] = request[d]
    BY <2>2, <2>3
  <2>9. ClosedOnce' /\ ClosedAfterLastDay'
    BY <1>0, <2>7, <2>8 DEF IInv, TypeOK, ClosedOnce, ClosedAfterLastDay
  <2>10. RunsKnow'
    BY <1>0, <2>7 DEF IInv, RunsKnow
  <2>11. RowKept
    BY <2>3, <2>7, <2>2 DEF RowKept
  <2> QED
    BY <2>4, <2>6, <2>9, <2>10, <2>11 DEF IInv
<1> QED
  BY <1>1, <1>2 DEF Save

-----------------------------------------------------------------------------
(* The scheduler. *)

(* A step of the execution x alone that announces nothing yet. *)
LEMMA OneRun ==
  ASSUME IInv, NEW x \in Runs, NEW q \in RunRecord,
         run' = [run EXCEPT ![x] = q], q.pc # "notify", q.cutoff <= day,
         UNCHANGED <<day, smsEnabled, designs, request, sms, create, closed>>
  PROVE  IInv' /\ RowKept
<1>1. TypeOK'
  BY DEF IInv, TypeOK
<1>2. run'[x] = q /\ \A y \in Runs : y # x => run'[y] = run[y]
  BY DEF IInv, TypeOK
<1>3. RunsKnow'
  BY <1>2 DEF IInv, RunsKnow
<1>4. \A d \in Creates : Progress(create[d], request[d], sms[d])'
  BY DEF IInv, Progress
<1>5. ClosedOnce' /\ ClosedAfterLastDay' /\ RowKept
  BY DEF IInv, ClosedOnce, ClosedAfterLastDay, RowKept
<1> QED
  BY <1>1, <1>3, <1>4, <1>5 DEF IInv

LEMMA BeginRunStep == ASSUME IInv, NEW x \in Runs, BeginRun(x) PROVE IInv' /\ RowKept
<1> DEFINE todo == {c \in Creates : request[c].status = "MATCHING" /\ Over(c, day)}
           q == [pc |-> "each", cutoff |-> day, current |-> None, todo |-> todo]
<1>1. /\ run' = [run EXCEPT ![x] = q]
      /\ UNCHANGED <<day, smsEnabled, designs, request, sms, create, closed>>
  BY DEF BeginRun, database
<1>2. todo \in SUBSET Creates /\ day \in Days
  BY DEF IInv, TypeOK
<1>3. day <= day
  BY <1>2, CalendarAssumption DEF Days
<1> HIDE DEF todo
<1>4. q \in RunRecord /\ q.pc = "each" /\ q.cutoff = day
  BY <1>2 DEF RunRecord
<1> HIDE DEF q
<1> QED
  BY <1>1, <1>3, <1>4, OneRun

LEMMA EndRunStep == ASSUME IInv, NEW x \in Runs, EndRun(x) PROVE IInv' /\ RowKept
<1>1. /\ run' = [run EXCEPT ![x] = IdleRun]
      /\ UNCHANGED <<day, smsEnabled, designs, request, sms, create, closed>>
  BY DEF EndRun, database
<1>2. IdleRun \in RunRecord /\ IdleRun.pc = "idle" /\ IdleRun.cutoff = 0
  BY CalendarAssumption DEF IdleRun, RunRecord, Days
<1>3. 0 <= day
  BY CalendarAssumption DEF IInv, TypeOK, Days
<1> QED
  BY <1>1, <1>2, <1>3, OneRun

(* Of the runs that have the request on their list, the one whose update   *)
(* counts a row goes on to announce it.                                    *)
LEMMA CloseNextStep ==
  ASSUME IInv, NEW x \in Runs, NEW c \in Creates, CloseNext(x, c) PROVE IInv' /\ RowKept
<1> DEFINE todo == run[x].todo \ {c}
<1>0. /\ run \in [Runs -> RunRecord] /\ run[x] \in RunRecord /\ todo \in SUBSET Creates
      /\ run[x].pc = "each" /\ run[x].cutoff <= day
      /\ UNCHANGED <<day, smsEnabled, designs, sms, create, closed>>
  BY DEF IInv, TypeOK, RunsKnow, CloseNext, RunRecord
<1>1. CASE /\ UNCHANGED request
           /\ run' = [run EXCEPT ![x].todo = @ \ {c}]
  <2> DEFINE q == [run[x] EXCEPT !.todo = todo]
  <2>1. run' = [run EXCEPT ![x] = q]
    BY <1>0, <1>1
  <2>2. q \in RunRecord /\ q.pc = "each" /\ q.cutoff = run[x].cutoff
    BY <1>0 DEF RunRecord
  <2> HIDE DEF q
  <2> QED
    BY <1>0, <1>1, <2>1, <2>2, OneRun
<1>2. CASE /\ request[c].status = "MATCHING" /\ Over(c, run[x].cutoff)
           /\ request' = [request EXCEPT ![c].status = "EXPIRED"]
           /\ run' = [run EXCEPT ![x].pc = "notify", ![x].todo = @ \ {c}, ![x].current = c]
  <2> DEFINE q == [run[x] EXCEPT !.pc = "notify", !.todo = todo, !.current = c]
             row == [request[c] EXCEPT !.status = "EXPIRED"]
  <2>1. run' = [run EXCEPT ![x] = q]
    BY <1>0, <1>2
  <2>2. /\ q \in RunRecord /\ q.pc = "notify" /\ q.cutoff = run[x].cutoff
        /\ q.current = c
    BY <1>0 DEF RunRecord
  <2>3. request \in [Creates -> RequestRow] /\ request[c] \in RequestRow
    BY DEF IInv, TypeOK
  <2>4. request' = [request EXCEPT ![c] = row]
    BY <1>2, <2>3
  <2>5. row \in RequestRow /\ row.status = "EXPIRED" /\ row.last = request[c].last
    BY <2>3 DEF RequestRow
  <2> HIDE DEF q, row
  <2>6. /\ run'[x] = q /\ \A y \in Runs : y # x => run'[y] = run[y]
        /\ request'[c] = row /\ \A d \in Creates : d # c => request'[d] = request[d]
    BY <1>0, <2>1, <2>3, <2>4
  <2>7. TypeOK'
    BY <1>0, <2>1, <2>2, <2>4, <2>5 DEF IInv, TypeOK
  <2>8. \A n \in closed : n.request # c /\ n.request \in Creates
    BY <1>2 DEF IInv, TypeOK, ClosedOnce
  <2>9. \A y \in Runs : run[y].pc = "notify" => run[y].current # c
    BY <1>2 DEF IInv, RunsKnow
  <2>10. RunsKnow'
    <3>1. \A y \in Runs : run'[y].cutoff <= day
      BY <1>0, <2>2, <2>6 DEF IInv, RunsKnow
    <3>2. ASSUME NEW y \in Runs, run'[y].pc = "notify"
          PROVE  /\ run'[y].current \in Creates
                 /\ request'[run'[y].current].status = "EXPIRED"
                 /\ \A n \in closed : n.request # run'[y].current
                 /\ \A z \in Runs :
                      run'[z].pc = "notify" /\ run'[z].current = run'[y].current => z = y
      <4>1. CASE y = x
        BY <2>2, <2>5, <2>6, <2>8, <2>9, <4>1
      <4>2. CASE y # x
        <5>1. /\ run[y].pc = "notify" /\ run'[y] = run[y] /\ run[y].current # c
              /\ run[y].current \in Creates
          BY <2>6, <2>9, <3>2, <4>2 DEF IInv, RunsKnow
        <5> QED
          BY <2>2, <2>6, <5>1 DEF IInv, RunsKnow
      <4> QED
        BY <4>1, <4>2
    <3> QED
      BY <1>0, <3>1, <3>2 DEF RunsKnow
  <2>11. ASSUME NEW d \in Creates PROVE Progress(create[d], request[d], sms[d])'
    <3>1. Progress(create[d], request'[d], sms[d])
      <4>1. (request'[d].status # "none") <=> (request[d].status # "none")
        BY <1>2, <2>5, <2>6
      <4> QED
        BY <4>1 DEF IInv, Progress
    <3> QED
      BY <1>0, <3>1 DEF Progress
  <2>12. ClosedOnce'
    BY <1>0, <2>6, <2>8 DEF IInv, ClosedOnce
  <2>13. ClosedAfterLastDay'
    <3>1. request[c].last < day
      <4>1. /\ request[c].last \in Nat /\ day \in Nat /\ run[x].cutoff \in Nat
        BY <1>0, <2>3, CalendarAssumption DEF RequestRow, RunRecord, IInv, TypeOK, Days
      <4>2. request[c].last + DateLag < run[x].cutoff /\ run[x].cutoff <= day
        BY <1>0, <1>2 DEF Over
      <4> QED
        BY <4>1, <4>2, CalendarAssumption
    <3> QED
      BY <1>0, <2>5, <2>6, <3>1 DEF IInv, ClosedAfterLastDay
  <2>14. RowKept
    BY <2>5, <2>6 DEF RowKept
  <2> QED
    BY <2>7, <2>10, <2>11, <2>12, <2>13, <2>14 DEF IInv
<1> QED
  BY <1>1, <1>2 DEF CloseNext

LEMMA NotifyStep == ASSUME IInv, NEW x \in Runs, NotifyClosed(x) PROVE IInv' /\ RowKept
<1> DEFINE q == [run[x] EXCEPT !.pc = "each", !.current = None]
           n == [request |-> run[x].current, run |-> x, at |-> run[x].cutoff]
<1>0. /\ run \in [Runs -> RunRecord] /\ run[x] \in RunRecord
      /\ run[x].pc = "notify" /\ run[x].cutoff <= day /\ run[x].current \in Creates
      /\ request[run[x].current].status = "EXPIRED"
      /\ \A o \in closed : o.request # run[x].current
      /\ UNCHANGED <<day, smsEnabled, designs, request, sms, create>>
  BY DEF IInv, TypeOK, RunsKnow, NotifyClosed, database
<1>1. run' = [run EXCEPT ![x] = q] /\ closed' \in {closed, closed \union {n}}
  BY <1>0 DEF NotifyClosed
<1>2. q \in RunRecord /\ q.pc = "each" /\ q.cutoff = run[x].cutoff
  BY <1>0 DEF RunRecord
<1>3. n \in [request: Creates, run: Runs, at: Days] /\ n.request = run[x].current
  BY <1>0 DEF RunRecord
<1> HIDE DEF q, n
<1>4. run'[x] = q /\ \A y \in Runs : y # x => run'[y] = run[y]
  BY <1>0, <1>1
<1>5. TypeOK'
  BY <1>0, <1>1, <1>2, <1>3 DEF IInv, TypeOK
<1>6. \A d \in Creates : Progress(create[d], request[d], sms[d])'
  BY <1>0 DEF IInv, Progress
<1>7. RunsKnow'
  <2>1. \A y \in Runs : run[y].pc = "notify" /\ y # x => run[y].current # run[x].current
    BY <1>0 DEF IInv, RunsKnow
  <2> QED
    BY <1>0, <1>1, <1>2, <1>3, <1>4, <2>1 DEF IInv, RunsKnow
<1>8. ClosedOnce'
  BY <1>0, <1>1, <1>3 DEF IInv, ClosedOnce
<1>9. ClosedAfterLastDay' /\ RowKept
  BY <1>0 DEF IInv, ClosedAfterLastDay, RowKept
<1> QED
  BY <1>5, <1>6, <1>7, <1>8, <1>9 DEF IInv

-----------------------------------------------------------------------------
(* The environment. *)

LEMMA ProviderStep ==
  ASSUME IInv, NEW c \in Creates, NEW result \in {"delivered", "refused"},
         ProviderEnds(c, result)
  PROVE  IInv' /\ RowKept
<1>1. /\ sms[c] = "inflight" /\ sms' = [sms EXCEPT ![c] = result]
      /\ UNCHANGED <<day, smsEnabled, designs, request, create, run, closed>>
  BY DEF ProviderEnds, database
<1>2. sms'[c] = result /\ \A d \in Creates : d # c => sms'[d] = sms[d]
  BY <1>1 DEF IInv, TypeOK
<1>3. TypeOK'
  BY <1>1 DEF IInv, TypeOK
<1>4. ASSUME NEW d \in Creates PROVE Progress(create[d], request[d], sms[d])'
  <2>1. Progress(create[d], request[d], sms[d])
    BY DEF IInv
  <2>2. Progress(create[d], request[d], sms'[d])
    BY <1>1, <1>2, <2>1 DEF Progress, Unsent
  <2> QED
    BY <1>1, <2>2 DEF Progress
<1>5. RunsKnow' /\ ClosedOnce' /\ ClosedAfterLastDay' /\ RowKept
  BY <1>1 DEF IInv, RunsKnow, ClosedOnce, ClosedAfterLastDay, RowKept
<1> QED
  BY <1>3, <1>4, <1>5 DEF IInv

LEMMA DeleteDesignStep ==
  ASSUME IInv, NEW g \in Designs, DeleteDesign(g) PROVE IInv' /\ RowKept
<1>1. /\ designs' = designs \ {g}
      /\ request' = [c \in Creates |->
           IF request[c].design = g THEN [request[c] EXCEPT !.design = None] ELSE request[c]]
      /\ UNCHANGED <<day, smsEnabled, sms, create, run, closed>>
  BY DEF DeleteDesign
<1>2. request \in [Creates -> RequestRow]
  BY DEF IInv, TypeOK
<1>3. ASSUME NEW c \in Creates
      PROVE  /\ request'[c] \in RequestRow
             /\ request'[c].status = request[c].status /\ request'[c].last = request[c].last
  BY <1>1, <1>2 DEF RequestRow
<1>4. TypeOK'
  BY <1>1, <1>3 DEF IInv, TypeOK
<1>5. ASSUME NEW d \in Creates PROVE Progress(create[d], request[d], sms[d])'
  <2>1. Progress(create[d], request'[d], sms[d])
    BY <1>3 DEF IInv, Progress
  <2> QED
    BY <1>1, <2>1 DEF Progress
<1>6. RunsKnow'
  BY <1>1, <1>3 DEF IInv, RunsKnow
<1>7. ClosedOnce' /\ ClosedAfterLastDay' /\ RowKept
  BY <1>1, <1>3 DEF IInv, TypeOK, ClosedOnce, ClosedAfterLastDay, RowKept
<1> QED
  BY <1>4, <1>5, <1>6, <1>7 DEF IInv

LEMMA MidnightStep == ASSUME IInv, Midnight PROVE IInv' /\ RowKept
<1>1. /\ day' = day + 1 /\ day \in Nat /\ day' \in Days
      /\ UNCHANGED <<smsEnabled, designs, request, sms, create, run, closed>>
  BY CalendarAssumption DEF IInv, TypeOK, Midnight, Days
<1>2. TypeOK'
  BY <1>1 DEF IInv, TypeOK
<1>3. \A d \in Creates : Progress(create[d], request[d], sms[d])'
  BY <1>1 DEF IInv, Progress
<1>4. RunsKnow'
  <2>1. \A x \in Runs : run[x].cutoff \in Nat
    BY CalendarAssumption DEF IInv, TypeOK, RunRecord, Days
  <2> QED
    BY <1>1, <2>1 DEF IInv, RunsKnow
<1>5. ClosedAfterLastDay'
  <2>1. \A c \in Creates : request[c].last \in Nat
    BY CalendarAssumption DEF IInv, TypeOK, RequestRow, Days
  <2> QED
    BY <1>1, <2>1 DEF IInv, ClosedAfterLastDay
<1>6. ClosedOnce' /\ RowKept
  BY <1>1 DEF IInv, ClosedOnce, RowKept
<1> QED
  BY <1>2, <1>3, <1>4, <1>5, <1>6 DEF IInv

LEMMA CrashStep == ASSUME IInv, ServerCrash PROVE IInv' /\ RowKept
<1>1. /\ create' = [c \in Creates |->
           IF create[c].pc \in {"idle", "done"} THEN create[c]
           ELSE [create[c] EXCEPT !.pc = "done", !.outcome = "lost"]]
      /\ run' = [x \in Runs |-> IdleRun]
      /\ UNCHANGED <<day, smsEnabled, designs, request, sms, closed>>
  BY DEF ServerCrash, database
<1>2. ASSUME NEW c \in Creates
      PROVE  create'[c] \in CreateRecord /\ Progress(create'[c], request[c], sms[c])
  <2>0. Progress(create[c], request[c], sms[c]) /\ create[c] \in CreateRecord
    BY DEF IInv, TypeOK
  <2>1. CASE create[c].pc \in {"idle", "done"}
    BY <1>1, <2>0, <2>1
  <2>2. CASE create[c].pc \notin {"idle", "done"}
    <3>1. /\ create'[c] \in CreateRecord
          /\ create'[c].pc = "done" /\ create'[c].outcome = "lost"
      BY <1>1, <2>0, <2>2, DoneRecord
    <3> QED
      BY <2>0, <2>2, <3>1 DEF Progress, Unsent
  <2> QED
    BY <2>1, <2>2
<1>3. IdleRun \in RunRecord /\ IdleRun.pc = "idle" /\ IdleRun.cutoff = 0 /\ 0 <= day
  BY CalendarAssumption DEF IdleRun, RunRecord, IInv, TypeOK, Days
<1>4. TypeOK'
  BY <1>1, <1>2, <1>3 DEF IInv, TypeOK
<1>5. \A d \in Creates : Progress(create[d], request[d], sms[d])'
  BY <1>1, <1>2 DEF Progress
<1>6. RunsKnow'
  BY <1>1, <1>3 DEF RunsKnow
<1>7. ClosedOnce' /\ ClosedAfterLastDay' /\ RowKept
  BY <1>1 DEF IInv, ClosedOnce, ClosedAfterLastDay, RowKept
<1> QED
  BY <1>4, <1>5, <1>6, <1>7 DEF IInv

LEMMA Inductive == IInv /\ [Next]_vars => IInv' /\ RowKept
<1> SUFFICES ASSUME IInv, [Next]_vars PROVE IInv' /\ RowKept
  OBVIOUS
<1>1. ASSUME NEW c \in Creates,
             \/ \E last \in Days, g \in Designs \union {None}, image \in BOOLEAN :
                  BeginCreate(c, last, g, image)
             \/ CreateStep(c) \/ ReadImage(c)
      PROVE  IInv' /\ RowKept
  BY <1>1, BeginCreateStep, GoStep, SaveStep DEF CreateStep
<1>2. ASSUME NEW x \in Runs, BeginRun(x) \/ RunStep(x) PROVE IInv' /\ RowKept
  BY <1>2, BeginRunStep, CloseNextStep, NotifyStep, EndRunStep DEF RunStep
<1>3. CASE Environment
  BY <1>3, ProviderStep, DeleteDesignStep, MidnightStep, CrashStep DEF Environment
<1>4. CASE UNCHANGED vars
  <2>1. UNCHANGED <<day, smsEnabled, designs, request, sms, create, run, closed>>
    BY <1>4 DEF vars
  <2>2. TypeOK' /\ RunsKnow' /\ ClosedOnce' /\ ClosedAfterLastDay'
    BY <2>1 DEF IInv, TypeOK, RunsKnow, ClosedOnce, ClosedAfterLastDay
  <2>3. \A c \in Creates : Progress(create[c], request[c], sms[c])'
    BY <2>1 DEF IInv, Progress
  <2> QED
    BY <2>1, <2>2, <2>3 DEF IInv, RowKept
<1> QED
  BY <1>1, <1>2, <1>3, <1>4 DEF Next

-----------------------------------------------------------------------------
(* What the theorems are about follows from the invariant.                 *)
LEMMA Consequences ==
  IInv => TypeOK /\ StoredWasSent /\ AnswerMatchesDatabase /\ ClosedOnce /\ ClosedAfterLastDay
  BY DEF IInv, Progress, StoredWasSent, AnswerMatchesDatabase, Exists

(* Every variable keeps its type. *)
THEOREM TypeCorrect == Spec => []TypeOK
  BY InitInvariant, Inductive, Consequences, PTL DEF Spec

(* No timeout, refusal, late delivery or crash leaves a stored request     *)
(* whose shops were not told (createEstimateRequest sends, then stores).   *)
LEMMA StoredAfterSending == Spec => []StoredWasSent
  BY InitInvariant, Inductive, Consequences, PTL DEF Spec

(* Success is answered only for a request that is stored, an error only    *)
(* for one that is not, but for an insert that was not acknowledged.       *)
LEMMA AnswersTrue == Spec => []AnswerMatchesDatabase
  BY InitInvariant, Inductive, Consequences, PTL DEF Spec

(* A POST ends in a row that was sent to the shops and an answer that says *)
(* so, or in neither; an acknowledgement that was lost is the one case in  *)
(* which a 500 hides a row.                                                *)
THEOREM PostsToldTheTruth == Spec => []PostsTruthful
  BY StoredAfterSending, AnswersTrue, PTL DEF PostsTruthful

(* Any number of overlapping runs announce each closing once, and only     *)
(* what is closed: updateMany with status MATCHING decides.                *)
LEMMA ClosingAnnouncedOnce == Spec => []ClosedOnce
  BY InitInvariant, Inductive, Consequences, PTL DEF Spec

(* No request is closed before its last day is over, wherever midnight     *)
(* falls in a run and whichever date the database makes of the cutoff.     *)
LEMMA ClosedInTime == Spec => []ClosedAfterLastDay
  BY InitInvariant, Inductive, Consequences, PTL DEF Spec

(* Any number of runs close a request once, and after its last day.        *)
THEOREM ClosedInTimeOnce == Spec => []ClosedOnceInTime
  BY ClosingAnnouncedOnce, ClosedInTime, PTL DEF ClosedOnceInTime

(* A closed request stays closed and a stored one stays stored. *)
THEOREM ClosedStays == Spec => ClosedForGood
<1>1. IInv /\ [Next]_vars =>
        [\A c \in Creates :
           /\ request[c].status = "EXPIRED" => request'[c].status = "EXPIRED"
           /\ Exists(c) => Exists(c)']_vars
  BY Inductive DEF RowKept, Exists
<1> QED
  BY <1>1, InitInvariant, Inductive, PTL DEF Spec, ClosedForGood


-----------------------------------------------------------------------------
(***************************************************************************)
(* The answers to the requests, in the same run (MCLive).                  *)
(***************************************************************************)

(* The theorems about EstimateResponse, for the requests and messages of   *)
(* MCLive.                                                                 *)
Answers == INSTANCE EstimateResponseProofs WITH
  Requests <- {r1, r2}, Shops <- {s1}, Messages <- {m1}, Sender <- [m \in {m1} |-> s1],
  Deliveries <- {d1, d2}, Times <- {t1}, Offers <- MCOffers, MaxSent <- 2,
  sms <- texts, notices <- estimateNotices

(* What EstimateResponse assumes of its constants is so.                   *)
LEMMA AnswersAreTyped ==
  /\ [m \in {m1} |-> s1] \in [{m1} -> {s1}]
  /\ MCOffers \subseteq [can: BOOLEAN, price: Nat \union {None}, times: SUBSET {t1}]
  /\ 2 \in Nat
  /\ None \notin {r1, r2} \union {s1} \union {m1} \union Nat
<1>1. MCOffers \subseteq [can: BOOLEAN, price: Nat \union {None}, times: SUBSET {t1}]
  <2>1. \A p \in {1, None} :
          [can |-> TRUE, price |-> p, times |-> {t1}] \in
             [can: BOOLEAN, price: Nat \union {None}, times: SUBSET {t1}]
    OBVIOUS
  <2>. QED  BY <2>1 DEF MCOffers
<1>2. None \notin {r1, r2} \union {s1} \union {m1} \union Nat
  BY LiveAssumption
<1>. QED  BY <1>1, <1>2

(* The two instances, that of the model and that of its theorems, have the *)
(* same initial states and steps.                                          *)
LEMMA AnswersStart == Answered!Init => Answers!Init
BY DEF
  Answered!Init, Answered!NoRow, Answered!Keys, Answered!NewDelivery,
  Answered!NoOffer, Answered!NoSnapshot, Answers!Init, Answers!NoRow, Answers!Keys,
  Answers!NewDelivery, Answers!NoOffer, Answers!NoSnapshot

LEMMA AnswersVars == UNCHANGED responseVars => UNCHANGED Answers!vars
BY DEF Answers!vars, Answers!world, Answers!tables, responseVars

LEMMA AnswersStep == Answered!Next => Answers!Next
BY DEF
  Answered!Next, Answered!DeliveryStep, Answered!Environment,
  Answered!BeginDelivery, Answered!CommitLink, Answered!RefuseDelivery,
  Answered!Dispatch, Answered!ReadContext, Answered!Parse, Answered!WaitForMore,
  Answered!ReadLowest, Answered!BeginSave, Answered!Save, Answered!Notify,
  Answered!Throw, Answered!MarkFailed, Answered!SendOutbound, Answered!Expire,
  Answered!SelectTime, Answered!Accept, Answered!ServerCrash, Answered!LinkTarget,
  Answered!Linked, Answered!KeyOf, Answered!Exists, Answered!Offered,
  Answered!LowestOf, Answered!LowestOffered, Answered!GoTo, Answered!Finish,
  Answered!SavedRow, Answered!CountMessages, Answered!IsNewLowest, Answered!NoRow,
  Answered!NoOffer, Answered!NoSnapshot, Answered!NewDelivery, Answered!Keys,
  Answered!world, Answered!tables, Answers!Next, Answers!DeliveryStep,
  Answers!Environment, Answers!BeginDelivery, Answers!CommitLink,
  Answers!RefuseDelivery, Answers!Dispatch, Answers!ReadContext, Answers!Parse,
  Answers!WaitForMore, Answers!ReadLowest, Answers!BeginSave, Answers!Save,
  Answers!Notify, Answers!Throw, Answers!MarkFailed, Answers!SendOutbound,
  Answers!Expire, Answers!SelectTime, Answers!Accept, Answers!ServerCrash,
  Answers!LinkTarget, Answers!Linked, Answers!KeyOf, Answers!Exists,
  Answers!Offered, Answers!LowestOf, Answers!LowestOffered, Answers!GoTo,
  Answers!Finish, Answers!SavedRow, Answers!CountMessages, Answers!IsNewLowest,
  Answers!NoRow, Answers!NoOffer, Answers!NoSnapshot, Answers!NewDelivery,
  Answers!Keys, Answers!world, Answers!tables

(* However the parts of MCLive are scheduled, no text of a shop is lost    *)
(* and none answers a request it was not sent for: what createSmsMessage   *)
(* and processSmsMessage (estimate-response.service.ts) do to the rows.    *)
THEOREM NoTextForgotten == MCSpec => []MessagesKept
<1>1. MCInit => Answers!Init
  BY AnswersStart DEF MCInit
<1>2. [MCNext]_MCVars => [Answers!Next]_(Answers!vars)
  BY AnswersStep, AnswersVars DEF MCNext, MCVars
<1>3. Answers!MessagesKept => MessagesKept
  BY DEF MessagesKept, Answered!MessagesKept, Answers!MessagesKept,
         Answered!NoMessageForgotten, Answers!NoMessageForgotten, Answered!Linked,
         Answers!Linked, Answered!Keys, Answers!Keys, Answered!TextsAnswerTheRequest,
         Answers!TextsAnswerTheRequest
<1>4. Answers!Spec => []Answers!MessagesKept
  BY AnswersAreTyped, Answers!NothingForgotten
<1>. QED  BY <1>1, <1>2, <1>3, <1>4, PTL DEF MCSpec, Answers!Spec
=============================================================================
