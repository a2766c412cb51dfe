------------------------------- MODULE Reminder -------------------------------
(***************************************************************************)
(* The reminders of the day before and of the day: every morning at nine   *)
(* reservation-reminder.scheduler.ts reads the confirmed reservations of   *)
(* tomorrow and then those of today, and sends an SMS to each customer who *)
(* has not turned the notices of reservations off.                         *)
(*                                                                         *)
(* Time is in hours of Seoul.  A run takes minutes: the clock stands while *)
(* one is under way, customers do not.                                     *)
(***************************************************************************)
EXTENDS Integers

CONSTANTS
  Bookings,   \* ids of reservations
  HoursKst,   \* hours of the day at which things happen
  LastDay     \* bound on the days

ASSUME ReminderAssumption == HoursKst \subseteq 0..23 /\ LastDay \in Nat

VARIABLES
  clock,
  booking,    \* booking[b]: when it is for, and its status
  wanted,     \* wanted[b]: its customer has a phone and reservationEnabled
  ranOn,      \* the day of the last run
  job,        \* the run that is under way
  reminded    \* history: SMS of each kind, counted up to two

reminderVars == <<clock, booking, wanted, ranOn, job, reminded>>

-----------------------------------------------------------------------------
Kinds == {"DAY_BEFORE", "DAY_OF"}
Instants == {24 * d + h : d \in 0..LastDay, h \in HoursKst}

(* steady: those confirmed and wanted all the time since the run began;    *)
(* sometime, someWanted: those confirmed, and those wanted, at some time.  *)
JobRecord ==
  [pc : {"idle", "read", "next", "send"}, kind : Kinds,
   left : SUBSET Bookings, current : SUBSET Bookings,
   tried : SUBSET Bookings, steady : SUBSET Bookings,
   sometime : SUBSET Bookings, someWanted : SUBSET Bookings]

NoJob ==
  [pc |-> "idle", kind |-> "DAY_BEFORE", left |-> {}, current |-> {},
   tried |-> {}, steady |-> {}, sometime |-> {}, someWanted |-> {}]

ReminderTypeOK ==
  /\ clock \in Instants \union {0}
  /\ booking \in [Bookings -> [at : Instants \union {0},
                               status : {"NONE", "CONFIRMED", "CANCELLED"}]]
  /\ wanted \in [Bookings -> BOOLEAN]
  /\ ranOn \in -1..LastDay
  /\ job \in JobRecord /\ (job.pc = "idle" => job = NoJob)
  /\ reminded \in [Bookings \X Kinds -> 0..2]

ReminderInit ==
  /\ clock = 0
  /\ booking = [b \in Bookings |-> [at |-> 0, status |-> "NONE"]]
  /\ wanted = [b \in Bookings |-> TRUE]
  /\ ranOn = -1
  /\ job = NoJob
  /\ reminded = [x \in Bookings \X Kinds |-> 0]

-----------------------------------------------------------------------------
(* kstMidnightUtc *)
Midnight(t, days) == 24 * (t \div 24 + days)

(* Variant: the day before is whatever is less than two days away. *)
DueOfTwoDays(kind, t) ==
  IF kind = "DAY_BEFORE" THEN {x \in Instants : t <= x /\ x < Midnight(t, 2)}
  ELSE {x \in Instants : t <= x /\ x < Midnight(t, 1)}

(* getReminderWindows, and without what has passed today. *)
DueWindow(kind, t) ==
  IF kind = "DAY_BEFORE"
  THEN {x \in Instants : Midnight(t, 1) <= x /\ x < Midnight(t, 2)}
  ELSE {x \in Instants : t <= x /\ x < Midnight(t, 1)}

Confirmed == {b \in Bookings : booking[b].status = "CONFIRMED"}

(* Customers book, cancel and change their settings; the run under way     *)
(* keeps account of it.                                                    *)
CustomersDo(newBooking, newWanted) ==
  LET good == {b \in Bookings : newBooking[b].status = "CONFIRMED"}
      on == {b \in Bookings : newWanted[b]}
  IN
  /\ booking' = newBooking
  /\ wanted' = newWanted
  /\ job' = IF job.pc = "idle" THEN job
            ELSE [job EXCEPT !.steady = @ \intersect good \intersect on,
                             !.sometime = @ \union good, !.someWanted = @ \union on]
  /\ UNCHANGED <<clock, ranOn, reminded>>

BookVisit(b, t) ==
  /\ booking[b].status = "NONE" /\ t > clock
  /\ CustomersDo([booking EXCEPT ![b] = [at |-> t, status |-> "CONFIRMED"]], wanted)

CancelBooking(b) ==
  /\ booking[b].status = "CONFIRMED"
  /\ CustomersDo([booking EXCEPT ![b].status = "CANCELLED"], wanted)

SwitchSetting(b) == CustomersDo(booking, [wanted EXCEPT ![b] = ~@])

-----------------------------------------------------------------------------
(* cron: '0 9 * * *' *)
StartJob ==
  LET on == {b \in Bookings : wanted[b]} IN
  /\ job.pc = "idle"
  /\ clock % 24 = 9 /\ ranOn < clock \div 24
  /\ ranOn' = clock \div 24
  /\ job' = [NoJob EXCEPT !.pc = "read", !.steady = Confirmed \intersect on,
                          !.sometime = Confirmed, !.someWanted = on]
  /\ UNCHANGED <<clock, booking, wanted, reminded>>

(* reservation.findMany for one kind. *)
ReadDue ==
  /\ job.pc = "read"
  /\ job' = [job EXCEPT !.pc = "next", !.left =
       {b \in Confirmed : booking[b].at \in DueWindow(job.kind, clock)}]
  /\ UNCHANGED <<clock, booking, wanted, ranOn, reminded>>

(* isCategoryEnabled of the next customer. *)
CheckWanted(b) ==
  /\ job.pc = "next" /\ b \in job.left
  /\ job' = [job EXCEPT !.left = @ \ {b},
                        !.pc = IF wanted[b] THEN "send" ELSE "next",
                        !.current = IF wanted[b] THEN {b} ELSE {}]
  /\ UNCHANGED <<clock, booking, wanted, ranOn, reminded>>

(* sendText; a failure is logged and the next one's turn comes. *)
SendReminder ==
  /\ job.pc = "send"
  /\ \/ reminded' = [x \in Bookings \X Kinds |->
          IF x[1] \in job.current /\ x[2] = job.kind /\ reminded[x] < 2
          THEN reminded[x] + 1 ELSE reminded[x]]
     \/ UNCHANGED reminded
  /\ job' = [job EXCEPT !.pc = "next", !.tried = @ \union job.current]
  /\ UNCHANGED <<clock, booking, wanted, ranOn>>

NextKind ==
  /\ job.pc = "next" /\ job.left = {} /\ job.kind = "DAY_BEFORE"
  /\ job' = [job EXCEPT !.pc = "read", !.kind = "DAY_OF", !.current = {}]
  /\ UNCHANGED <<clock, booking, wanted, ranOn, reminded>>

(* The run is over. *)
EndJob ==
  /\ job.pc = "next" /\ job.left = {} /\ job.kind = "DAY_OF"
  /\ job' = NoJob
  /\ UNCHANGED <<clock, booking, wanted, ranOn, reminded>>

(* A read fails, or the server dies: nothing takes the run up again. *)
BreakJob ==
  /\ job.pc # "idle"
  /\ job' = NoJob
  /\ UNCHANGED <<clock, booking, wanted, ranOn, reminded>>

Hour ==
  /\ job.pc = "idle"
  /\ \E t \in Instants : /\ t > clock
                         /\ \A x \in Instants : x > clock => t <= x
                         /\ clock' = t
  /\ UNCHANGED <<booking, wanted, ranOn, job, reminded>>

-----------------------------------------------------------------------------
ReminderNext ==
  \/ \E b \in Bookings :
       \/ \E t \in Instants : BookVisit(b, t)
       \/ CancelBooking(b) \/ SwitchSetting(b) \/ CheckWanted(b)
  \/ StartJob \/ ReadDue \/ SendReminder \/ NextKind \/ EndJob \/ BreakJob
  \/ Hour

ReminderSpec == ReminderInit /\ [][ReminderNext]_reminderVars

-----------------------------------------------------------------------------
(* One server sends at most one reminder of each kind for a reservation,   *)
(* whatever day and hour it is for: the windows of the runs do not overlap *)
(* (reservation-reminder.scheduler.ts:23).                                 *)
RemindedOnce == \A x \in Bookings \X Kinds : reminded[x] <= 1

(* The run that comes to its end has had a try at everybody whose          *)
(* reservation is still to come today or tomorrow, and who did not change  *)
(* anything meanwhile: a failing SMS stops only itself.                    *)
NobodyPassedOver ==
  EndJob =>
    \A b \in job.steady :
      booking[b].at >= clock /\ booking[b].at \div 24 <= clock \div 24 + 1
        => b \in job.tried

(* Nobody is reminded who had cancelled, or turned the notices off, before *)
(* the run began.                                                          *)
RemindersHaveReason == job.tried \subseteq job.sometime \intersect job.someWanted

(* The reminders go to those they are meant for: to all, once, and to      *)
(* nobody else.                                                            *)
RemindersArrive ==
  [][NobodyPassedOver /\ RemindedOnce' /\ RemindersHaveReason']_reminderVars
=============================================================================
