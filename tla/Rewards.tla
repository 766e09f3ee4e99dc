-------------------------------- MODULE Rewards --------------------------------
(***************************************************************************)
(* The points of one customer (RewardsService): an award reads the         *)
(* booking, asks the database two questions about the customer's other     *)
(* bookings, each a query of its own, and then inserts a row keyed by the  *)
(* booking.  Completions, awards, backfills, cancellations and deletions   *)
(* of several bookings of the customer overlap.                            *)
(*                                                                         *)
(* A booking that is not yet completed is OPEN, whatever its status;       *)
(* BookingLifecycle has the statuses.  Time is counted in ticks.           *)
(***************************************************************************)
EXTENDS Naturals, FiniteSets

CONSTANTS
  Bookings,  \* the bookings of the customer
  Legacy,    \* those completed before the column confirmedAt was added
  Slots,     \* completions and awards under way at one time
  Worth,     \* basePoints + bonusPoints of each booking
  Window,    \* the seven days of the weekly streak, in ticks
  MaxTime,   \* bound: the clock stops here
  Ops,       \* which of the operations below an instance lets happen
  NoTime,    \* null in confirmedAt
  NoAward,   \* no PointsTransaction row
  Gone       \* in place of a row, once the booking is deleted

ASSUME RewardsAssumption ==
  /\ Legacy \subseteq Bookings
  /\ Worth \in [Bookings -> Nat]
  /\ Window \in Nat /\ MaxTime \in Nat
  /\ Ops \subseteq {"cancel", "delete", "backfill", "fail"}
  /\ NoTime \notin 0..MaxTime

VARIABLES
  now,          \* Date.now()
  status,       \* Booking.status
  createdAt,    \* Booking.createdAt; as it was, of a deleted booking
  confirmedAt,  \* Booking.confirmedAt; likewise
  ledger,       \* the PointsTransaction rows, by their unique bookingId
  slot          \* updateBooking and awardPointsForBooking calls under way

vars == <<now, status, createdAt, confirmedAt, ledger, slot>>

Times    == 0..MaxTime
Statuses == {"ABSENT", "OPEN", "COMPLETED", "CANCELLED", "DELETED"}
Reasons  == {"weekly_streak", "first_booking", "standard"}
Answers  == {"unasked", "yes", "no"}

Answer(p) == IF p THEN "yes" ELSE "no"

(* MULTIPLIERS, in halves.                                                 *)
Halves(reason) ==
  CASE reason = "weekly_streak" -> 4
    [] reason = "first_booking" -> 3
    [] reason = "standard"      -> 2

(* calculatePoints: the streak before the first booking, rounded once.     *)
Reason(first, streak) ==
  IF streak = "yes" THEN "weekly_streak"
  ELSE IF first = "yes" THEN "first_booking" ELSE "standard"

Points(b, reason) == (Worth[b] * Halves(reason) + 1) \div 2

(* Mutant of Award: no time.                                               *)
UndatedAward(b, reason, at) ==
  [points |-> Points(b, reason), reason |-> reason, at |-> NoTime]

Award(b, reason, at) ==
  [points |-> Points(b, reason), reason |-> reason, at |-> at]

Awards == [points: Nat, reason: Reasons, at: Times]

(* A call under way: an update that will write `at` into confirmedAt, or   *)
(* an award that goes by `at`, with the answers of its two counts.  fresh: *)
(* the update changes the status; the row the award read had no time.      *)
Call(pc, b, at, fresh) ==
  [pc |-> pc, b |-> b, at |-> at, fresh |-> fresh,
   first |-> "unasked", streak |-> "unasked"]

Idle == [pc |-> "idle"]

AwardCall(b) == Call("read", b, NoTime, FALSE)

TypeOK ==
  /\ now \in Times
  /\ status \in [Bookings -> Statuses]
  /\ createdAt \in [Bookings -> Times]
  /\ confirmedAt \in [Bookings -> Times \cup {NoTime}]
  /\ ledger \in [Bookings -> Awards \cup {NoAward}]
  /\ slot \in [Slots -> {Idle} \cup
                        [pc: {"confirm", "read", "count"}, b: Bookings,
                         at: Times \cup {NoTime}, fresh: BOOLEAN,
                         first: Answers, streak: Answers]]

Init ==
  /\ now = 0
  /\ status = [b \in Bookings |-> IF b \in Legacy THEN "COMPLETED" ELSE "ABSENT"]
  /\ createdAt = [b \in Bookings |-> 0]
  /\ confirmedAt = [b \in Bookings |-> NoTime]
  /\ ledger = [b \in Bookings |-> NoAward]
  /\ slot = [s \in Slots |-> Idle]

-----------------------------------------------------------------------------
Tick ==
  /\ now < MaxTime
  /\ now' = now + 1
  /\ UNCHANGED <<status, createdAt, confirmedAt, ledger, slot>>

Create(b) ==
  /\ status[b] = "ABSENT"
  /\ status' = [status EXCEPT ![b] = "OPEN"]
  /\ createdAt' = [createdAt EXCEPT ![b] = now]
  /\ UNCHANGED <<now, confirmedAt, ledger, slot>>

(* The customer's cancel does not look at the status.                      *)
Cancel(b) ==
  /\ "cancel" \in Ops
  /\ status[b] \notin {"ABSENT", "DELETED"}
  /\ status' = [status EXCEPT ![b] = "CANCELLED"]
  /\ UNCHANGED <<now, createdAt, confirmedAt, ledger, slot>>

(* A booking of any status may be deleted, and its points row goes with    *)
(* it.  An account that is deleted takes each of its bookings so.          *)
Delete(b) ==
  /\ "delete" \in Ops
  /\ status[b] \notin {"ABSENT", "DELETED"}
  /\ status' = [status EXCEPT ![b] = "DELETED"]
  /\ ledger' = [ledger EXCEPT ![b] = NoAward]
  /\ UNCHANGED <<now, createdAt, confirmedAt, slot>>

(* updateBooking decides to complete, or edits a COMPLETED booking.  The   *)
(* time is taken here, before the update, when the row has none.           *)
Complete(s, b) ==
  /\ slot[s] = Idle
  /\ status[b] \in {"OPEN", "COMPLETED"}
  /\ slot' = [slot EXCEPT ![s] =
                Call("confirm", b, IF confirmedAt[b] = NoTime THEN now ELSE NoTime,
                     status[b] = "OPEN")]
  /\ UNCHANGED <<now, status, createdAt, confirmedAt, ledger>>

(* The update; a change of the status is followed by the award.            *)
Confirm(s) ==
  LET q == slot[s]
  IN  /\ q.pc = "confirm" /\ status[q.b] # "DELETED"
      /\ status' = [status EXCEPT ![q.b] = IF q.fresh THEN "COMPLETED" ELSE @]
      /\ confirmedAt' = [confirmedAt EXCEPT ![q.b] =
                           IF q.at = NoTime THEN @ ELSE q.at]
      /\ slot' = [slot EXCEPT ![s] = IF q.fresh THEN AwardCall(q.b) ELSE Idle]
      /\ UNCHANGED <<now, createdAt, ledger>>

(* The row that is to be updated, or that a points row refers to, is gone: *)
(* the database refuses, and the call fails.                               *)
RowGone(s) ==
  LET q == slot[s]
  IN  /\ \/ q.pc = "confirm"
         \/ q.pc = "count" /\ q.first # "unasked" /\ q.streak # "unasked"
      /\ status[q.b] = "DELETED"
      /\ slot' = [slot EXCEPT ![s] = Idle]
      /\ UNCHANGED <<now, status, createdAt, confirmedAt, ledger>>

(* backfillMissingPoints: a COMPLETED booking without a row.               *)
Backfill(s, b) ==
  /\ "backfill" \in Ops
  /\ slot[s] = Idle
  /\ status[b] = "COMPLETED" /\ ledger[b] = NoAward
  /\ slot' = [slot EXCEPT ![s] = AwardCall(b)]
  /\ UNCHANGED <<now, status, createdAt, confirmedAt, ledger>>

(* Mutant of AwardTime: the time of the award.                             *)
AwardTimeNow(b) == now

(* const confirmedAt = booking.confirmedAt ?? new Date()                   *)
AwardTime(b) == IF confirmedAt[b] = NoTime THEN now ELSE confirmedAt[b]

Read(s) ==
  LET b == slot[s].b
  IN  /\ slot[s].pc = "read"
      /\ slot' = [slot EXCEPT ![s] =
                    IF status[b] = "COMPLETED"
                    THEN Call("count", b, AwardTime(b), confirmedAt[b] = NoTime)
                    ELSE Idle]
      /\ UNCHANGED <<now, status, createdAt, confirmedAt, ledger>>

(* The time by which another booking counts.                               *)
CountedAt(c) == IF confirmedAt[c] = NoTime THEN createdAt[c] ELSE confirmedAt[c]

OthersCompleted(b) == {c \in Bookings \ {b} : status[c] = "COMPLETED"}

IsFirstConfirmedBooking(b, at) ==
  \A c \in OthersCompleted(b) : CountedAt(c) >= at

HasWeeklyPickupStreak(b, at) ==
  \E c \in OthersCompleted(b) : CountedAt(c) < at /\ CountedAt(c) + Window >= at

(* Promise.all: the two counts run as two queries, in either order.        *)
CountFirst(s) ==
  LET q == slot[s]
  IN  /\ q.pc = "count" /\ q.first = "unasked"
      /\ slot' = [slot EXCEPT ![s].first =
                    Answer(IsFirstConfirmedBooking(q.b, q.at))]
      /\ UNCHANGED <<now, status, createdAt, confirmedAt, ledger>>

CountStreak(s) ==
  LET q == slot[s]
  IN  /\ q.pc = "count" /\ q.streak = "unasked"
      /\ slot' = [slot EXCEPT ![s].streak =
                    Answer(HasWeeklyPickupStreak(q.b, q.at))]
      /\ UNCHANGED <<now, status, createdAt, confirmedAt, ledger>>

(* Mutant of Insert: an upsert.                                            *)
InsertOrReplace(s) ==
  LET q == slot[s]
  IN  /\ q.pc = "count" /\ q.first # "unasked" /\ q.streak # "unasked"
      /\ status[q.b] # "DELETED"
      /\ ledger' = [ledger EXCEPT ![q.b] =
                       Award(q.b, Reason(q.first, q.streak), q.at)]
      /\ confirmedAt' = [confirmedAt EXCEPT ![q.b] = IF q.fresh THEN q.at ELSE @]
      /\ slot' = [slot EXCEPT ![s] = Idle]
      /\ UNCHANGED <<now, status, createdAt>>

(* The transaction: createMany with skipDuplicates, and confirmedAt when   *)
(* the row that was read had none and a points row was inserted.           *)
Insert(s) ==
  LET q == slot[s]
  IN  /\ q.pc = "count" /\ q.first # "unasked" /\ q.streak # "unasked"
      /\ status[q.b] # "DELETED"
      /\ IF ledger[q.b] = NoAward
         THEN /\ ledger' = [ledger EXCEPT ![q.b] =
                              Award(q.b, Reason(q.first, q.streak), q.at)]
              /\ confirmedAt' = [confirmedAt EXCEPT ![q.b] =
                                   IF q.fresh THEN q.at ELSE @]
         ELSE UNCHANGED <<ledger, confirmedAt>>
      /\ slot' = [slot EXCEPT ![s] = Idle]
      /\ UNCHANGED <<now, status, createdAt>>

(* An await of a call fails and the call with it.                          *)
Fail(s) ==
  /\ "fail" \in Ops
  /\ slot[s] # Idle
  /\ slot' = [slot EXCEPT ![s] = Idle]
  /\ UNCHANGED <<now, status, createdAt, confirmedAt, ledger>>

Next ==
  \/ Tick
  \/ \E b \in Bookings : Create(b) \/ Cancel(b) \/ Delete(b)
  \/ \E s \in Slots, b \in Bookings : Complete(s, b) \/ Backfill(s, b)
  \/ \E s \in Slots :
       Confirm(s) \/ Read(s) \/ CountFirst(s) \/ CountStreak(s) \/ Insert(s)
         \/ RowGone(s) \/ Fail(s)

Spec == Init /\ [][Next]_vars

-----------------------------------------------------------------------------
Awarded(b) == ledger[b] # NoAward

(* PointsTransaction is an immutable record, one per booking, however      *)
(* completions, repeated completions, backfills and deletions overlap: it  *)
(* goes only with its booking, and no award under way brings it back.      *)
Kept == [b \in Bookings |-> IF status[b] = "DELETED" THEN Gone ELSE ledger[b]]
Promise == INSTANCE RewardLedger WITH ledger <- Kept
LedgerIsFinal == Promise!Spec

(* One call at a time: a doubled award is earned by another booking that   *)
(* counts within the window before it, also when that booking is then      *)
(* cancelled, deleted, edited or backfilled, or had no confirmedAt.        *)
StreakIsEarned ==
  \A b \in Bookings :
    Awarded(b) /\ ledger[b].reason = "weekly_streak" =>
      \E c \in Bookings \ {b} :
        /\ status[c] # "ABSENT"
        /\ \E t \in {createdAt[c], confirmedAt[c]} \ {NoTime} :
             t < ledger[b].at /\ t + Window >= ledger[b].at

(* One call at a time: the first-booking multiplier is for the earliest    *)
(* confirmation among the bookings neither cancelled nor gone, in whatever  *)
(* order failed awards are made up for by the backfill.                    *)
FirstIsEarliest ==
  \A b, c \in Bookings :
    /\ Awarded(b) /\ ledger[b].reason = "first_booking"
    /\ Awarded(c) /\ status[c] # "CANCELLED"
    => ledger[c].at >= ledger[b].at

(* One call at a time: awardedAt is the booking's confirmedAt, also for    *)
(* rows that had none, after edits and after a cancellation.               *)
AwardedAtConfirmation ==
  \A b \in Bookings : Awarded(b) => ledger[b].at = confirmedAt[b]
=============================================================================
