---------------------------- MODULE Rewards_proofs ----------------------------
(***************************************************************************)
(* Proofs about Rewards, for any number of bookings of the customer, of    *)
(* calls under way and of ticks.                                           *)
(***************************************************************************)
EXTENDS RewardsServed, TLAPS

Busy ==
  [pc: {"confirm", "read", "count"}, b: Bookings, at: Times \cup {NoTime},
   fresh: BOOLEAN, first: Answers, streak: Answers]

(* An award that counts knows its time.                                    *)
CountsHaveTime == \A s \in Slots : slot[s].pc = "count" => slot[s].at \in Times

IInv == TypeOK /\ CountsHaveTime

(* Points are whole and not negative, whichever multiplier is applied.     *)
LEMMA AwardType ==
  ASSUME NEW b \in Bookings, NEW reason \in Reasons, NEW t \in Times
  PROVE  Award(b, reason, t) \in Awards
<1>1. Worth[b] \in Nat
  BY RewardsAssumption
<1>2. Halves(reason) \in {2, 3, 4}
  BY DEF Halves, Reasons
<1>3. (Worth[b] * Halves(reason) + 1) \div 2 \in Nat
  <2>1. CASE Halves(reason) = 2
    BY <1>1, <2>1
  <2>2. CASE Halves(reason) = 3
    BY <1>1, <2>2
  <2>3. CASE Halves(reason) = 4
    BY <1>1, <2>3
  <2> QED
    BY <1>2, <2>1, <2>2, <2>3
<1> QED
  BY <1>3 DEF Award, Points, Awards

(* Whatever the two counts answered, there is a reason for the multiplier. *)
LEMMA ReasonType ==
  ASSUME NEW first, NEW streak
  PROVE  Reason(first, streak) \in Reasons
BY DEF Reason, Reasons

(* A new call is of the type of calls.                                     *)
LEMMA CallType ==
  ASSUME NEW pc \in {"confirm", "read", "count"}, NEW b \in Bookings,
         NEW at \in Times \cup {NoTime}, NEW fresh \in BOOLEAN
  PROVE  /\ Call(pc, b, at, fresh) \in Busy
         /\ Call(pc, b, at, fresh).pc = pc
         /\ Call(pc, b, at, fresh).at = at
BY DEF Call, Busy, Answers

LEMMA AwardCallType ==
  ASSUME NEW b \in Bookings
  PROVE  AwardCall(b) \in Busy /\ AwardCall(b).pc = "read"
BY CallType DEF AwardCall

(* A call that has a booking is of the type of calls.                      *)
LEMMA BusySlot ==
  ASSUME TypeOK, NEW s \in Slots, slot[s].pc \in {"confirm", "read", "count"}
  PROVE  slot[s] \in Busy
BY DEF TypeOK, Idle, Busy

(* A slot that takes a new value of the right type keeps the invariant.    *)
LEMMA SlotStep ==
  ASSUME IInv, NEW s \in Slots, NEW q \in {Idle} \cup Busy,
         q.pc = "count" => q.at \in Times,
         slot' = [slot EXCEPT ![s] = q]
  PROVE  /\ slot' \in [Slots -> {Idle} \cup Busy]
         /\ CountsHaveTime'
<1>1. slot \in [Slots -> {Idle} \cup Busy]
  BY DEF IInv, TypeOK, Busy
<1>2. \A x \in Slots : slot'[x] = IF x = s THEN q ELSE slot[x]
  BY <1>1
<1> QED
  BY <1>1, <1>2 DEF IInv, CountsHaveTime

LEMMA InitInv == Init => IInv
<1> SUFFICES ASSUME Init PROVE IInv
  OBVIOUS
<1>1. 0 \in Times
  BY RewardsAssumption DEF Times
<1> QED
  BY <1>1 DEF Init, IInv, TypeOK, CountsHaveTime, Statuses, Idle

(* Every step keeps the types and the time of an award that counts.        *)
LEMMA StepInv == IInv /\ [Next]_vars => IInv'
<1> SUFFICES ASSUME IInv, [Next]_vars PROVE IInv'
  OBVIOUS
<1> USE DEF IInv
<1>0. /\ TypeOK' <=> /\ now' \in Times
                     /\ status' \in [Bookings -> Statuses]
                     /\ createdAt' \in [Bookings -> Times]
                     /\ confirmedAt' \in [Bookings -> Times \cup {NoTime}]
                     /\ ledger' \in [Bookings -> Awards \cup {NoAward}]
                     /\ slot' \in [Slots -> {Idle} \cup Busy]
      /\ Idle \in {Idle} \cup Busy /\ Idle.pc = "idle"
  BY DEF TypeOK, Busy, Idle
<1>1. CASE Tick
  <2>1. now' \in Times
    BY <1>1, RewardsAssumption DEF Tick, TypeOK, Times
  <2> QED
    BY <1>1, <2>1 DEF Tick, TypeOK, CountsHaveTime
<1>2. ASSUME NEW b \in Bookings, Create(b) PROVE IInv'
  BY <1>2 DEF Create, TypeOK, CountsHaveTime, Statuses
<1>3. ASSUME NEW b \in Bookings, Cancel(b) PROVE IInv'
  BY <1>3 DEF Cancel, TypeOK, CountsHaveTime, Statuses
<1>12. ASSUME NEW b \in Bookings, Delete(b) PROVE IInv'
  BY <1>12 DEF Delete, TypeOK, CountsHaveTime, Statuses
<1>4. ASSUME NEW s \in Slots, NEW b \in Bookings, Complete(s, b) PROVE IInv'
  <2> DEFINE q == Call("confirm", b,
                       IF confirmedAt[b] = NoTime THEN now ELSE NoTime,
                       status[b] = "OPEN")
  <2>0. (IF confirmedAt[b] = NoTime THEN now ELSE NoTime) \in Times \cup {NoTime}
    BY DEF TypeOK
  <2>1. q \in Busy /\ q.pc = "confirm"
    <3> DEFINE at == IF confirmedAt[b] = NoTime THEN now ELSE NoTime
               fresh == status[b] = "OPEN"
    <3>1. at \in Times \cup {NoTime} /\ fresh \in BOOLEAN
      BY <2>0
    <3> HIDE DEF at, fresh
    <3>2. Call("confirm", b, at, fresh) \in Busy
          /\ Call("confirm", b, at, fresh).pc = "confirm"
      BY <3>1, CallType
    <3> QED
      BY <3>2 DEF at, fresh
  <2>2. slot' = [slot EXCEPT ![s] = q]
    BY <1>4 DEF Complete
  <2>3. slot' \in [Slots -> {Idle} \cup Busy] /\ CountsHaveTime'
    <3> HIDE DEF q
    <3> QED
      BY <2>1, <2>2, SlotStep
  <2> QED
    BY <1>0, <1>4, <2>3 DEF Complete, TypeOK
<1>5. ASSUME NEW s \in Slots, NEW b \in Bookings, Backfill(s, b) PROVE IInv'
  <2>1. AwardCall(b) \in Busy /\ AwardCall(b).pc = "read"
    BY AwardCallType
  <2>2. slot' \in [Slots -> {Idle} \cup Busy] /\ CountsHaveTime'
    BY <1>5, <2>1, SlotStep DEF Backfill
  <2> QED
    BY <1>0, <1>5, <2>2 DEF Backfill, TypeOK
<1>6. ASSUME NEW s \in Slots, Confirm(s) PROVE IInv'
  <2>1. slot[s] \in Busy
    BY <1>6, BusySlot DEF Confirm
  <2>2. slot[s].b \in Bookings /\ slot[s].at \in Times \cup {NoTime}
    BY <2>1 DEF Busy
  <2>3. AwardCall(slot[s].b) \in Busy /\ AwardCall(slot[s].b).pc = "read"
    BY <2>2, AwardCallType
  <2>4. slot' \in [Slots -> {Idle} \cup Busy] /\ CountsHaveTime'
    <3>1. CASE slot[s].fresh
      BY <1>6, <2>3, <3>1, SlotStep DEF Confirm
    <3>2. CASE ~slot[s].fresh
      BY <1>0, <1>6, <3>2, SlotStep DEF Confirm
    <3> QED
      BY <3>1, <3>2
  <2>5. status' \in [Bookings -> Statuses]
    BY <1>6, <2>2 DEF Confirm, TypeOK, Statuses
  <2>6. confirmedAt' \in [Bookings -> Times \cup {NoTime}]
    BY <1>6, <2>2 DEF Confirm, TypeOK
  <2> QED
    BY <1>0, <1>6, <2>4, <2>5, <2>6 DEF Confirm, TypeOK
<1>7. ASSUME NEW s \in Slots, Read(s) PROVE IInv'
  <2> DEFINE b == slot[s].b
             q == Call("count", b, AwardTime(b), confirmedAt[b] = NoTime)
  <2>1. b \in Bookings
    BY <1>7, BusySlot DEF Read, Busy
  <2>2. AwardTime(b) \in Times
    BY <2>1 DEF AwardTime, TypeOK
  <2>3. q \in Busy /\ q.at \in Times
    <3> DEFINE at == AwardTime(b)
               fresh == confirmedAt[b] = NoTime
    <3>1. at \in Times /\ fresh \in BOOLEAN
      BY <2>2
    <3> HIDE DEF at, fresh
    <3>2. Call("count", b, at, fresh) \in Busy
          /\ Call("count", b, at, fresh).at = at
      BY <2>1, <3>1, CallType
    <3> QED
      BY <3>1, <3>2 DEF at, fresh
  <2>4. slot' \in [Slots -> {Idle} \cup Busy] /\ CountsHaveTime'
    <3>1. CASE status[b] = "COMPLETED"
      <4>1. slot' = [slot EXCEPT ![s] = q]
        BY <1>7, <3>1 DEF Read
      <4> HIDE DEF q
      <4> QED
        BY <2>3, <4>1, SlotStep
    <3>2. CASE status[b] # "COMPLETED"
      BY <1>0, <1>7, <3>2, SlotStep DEF Read
    <3> QED
      BY <3>1, <3>2
  <2> QED
    BY <1>0, <1>7, <2>4 DEF Read, TypeOK
<1>8. ASSUME NEW s \in Slots, CountFirst(s) \/ CountStreak(s) PROVE IInv'
  <2>1. slot[s] \in Busy /\ slot[s].pc = "count" /\ slot[s].at \in Times
    BY <1>8, BusySlot DEF CountFirst, CountStreak, CountsHaveTime
  <2>2. \A p \in BOOLEAN : Answer(p) \in Answers
    BY DEF Answer, Answers
  <2>3. slot' \in [Slots -> {Idle} \cup Busy] /\ CountsHaveTime'
    <3>1. CASE CountFirst(s)
      <4> DEFINE a == Answer(IsFirstConfirmedBooking(slot[s].b, slot[s].at))
                 q == [slot[s] EXCEPT !.first = a]
      <4>1. a \in Answers
        BY DEF Answer, Answers
      <4>2. slot' = [slot EXCEPT ![s] = q]
        BY <3>1 DEF CountFirst
      <4> HIDE DEF a
      <4>3. q \in Busy /\ q.at \in Times
        BY <2>1, <4>1 DEF Busy
      <4> HIDE DEF q
      <4> QED
        BY <4>2, <4>3, SlotStep
    <3>2. CASE CountStreak(s)
      <4> DEFINE a == Answer(HasWeeklyPickupStreak(slot[s].b, slot[s].at))
                 q == [slot[s] EXCEPT !.streak = a]
      <4>1. a \in Answers
        BY DEF Answer, Answers
      <4>2. slot' = [slot EXCEPT ![s] = q]
        BY <3>2 DEF CountStreak
      <4> HIDE DEF a
      <4>3. q \in Busy /\ q.at \in Times
        BY <2>1, <4>1 DEF Busy
      <4> HIDE DEF q
      <4> QED
        BY <4>2, <4>3, SlotStep
    <3> QED
      BY <1>8, <3>1, <3>2
  <2>4. UNCHANGED <<now, status, createdAt, confirmedAt, ledger>>
    BY <1>8 DEF CountFirst, CountStreak
  <2> QED
    BY <1>0, <2>3, <2>4 DEF TypeOK
<1>9. ASSUME NEW s \in Slots, Insert(s) PROVE IInv'
  <2> DEFINE q == slot[s]
             a == Award(q.b, Reason(q.first, q.streak), q.at)
  <2>1. q \in Busy /\ q.at \in Times
    BY <1>9, BusySlot DEF Insert, CountsHaveTime
  <2>2. q.b \in Bookings
    BY <2>1 DEF Busy
  <2>3. a \in Awards
    BY <2>1, <2>2, ReasonType, AwardType
  <2>4. slot' \in [Slots -> {Idle} \cup Busy] /\ CountsHaveTime'
    BY <1>0, <1>9, SlotStep DEF Insert
  <2>5. ledger' \in [Bookings -> Awards \cup {NoAward}]
    <3>1. ledger' = [ledger EXCEPT ![q.b] = a] \/ ledger' = ledger
      BY <1>9 DEF Insert
    <3> HIDE DEF a
    <3> QED
      BY <2>3, <3>1 DEF TypeOK
  <2>6. confirmedAt' \in [Bookings -> Times \cup {NoTime}]
    BY <1>9, <2>1, <2>2 DEF Insert, TypeOK
  <2> QED
    BY <1>0, <1>9, <2>4, <2>5, <2>6 DEF Insert, TypeOK
<1>10. ASSUME NEW s \in Slots, Fail(s) \/ RowGone(s) PROVE IInv'
  <2>1. slot' \in [Slots -> {Idle} \cup Busy] /\ CountsHaveTime'
    BY <1>0, <1>10, SlotStep DEF Fail, RowGone
  <2> QED
    BY <1>0, <1>10, <2>1 DEF Fail, RowGone, TypeOK
<1>11. CASE UNCHANGED vars
  BY <1>11 DEF vars, TypeOK, CountsHaveTime
<1> QED
  BY <1>1, <1>2, <1>3, <1>4, <1>5, <1>6, <1>7, <1>8, <1>9, <1>10, <1>11, <1>12
  DEF Next

LEMMA Invariance == Spec => []IInv
BY InitInv, StepInv, PTL DEF Spec

(* Every variable keeps its type: in particular an award always has whole  *)
(* points, a reason and a time, whatever the counts it waited for said.    *)
THEOREM TypeCorrect == Spec => []TypeOK
<1>1. IInv => TypeOK
  BY DEF IInv
<1> QED
  BY <1>1, Invariance, PTL

(* The points rows of a customer implement the ledger: however completions,*)
(* edits, backfills, cancellations, deletions and failures overlap, a      *)
(* booking is awarded at most once, the award is never changed, and only a *)
(* deletion of its booking takes it back, for good.                        *)
THEOREM AwardsAreFinal == Spec => LedgerIsFinal
<1>1. Init => Promise!Init
  <2> SUFFICES ASSUME Init PROVE Kept = [b \in Bookings |-> NoAward]
    BY DEF Promise!Init
  <2>1. \A b \in Bookings : status[b] # "DELETED" /\ ledger[b] = NoAward
    BY DEF Init
  <2> QED
    BY <2>1 DEF Kept
<1>2. IInv /\ [Next]_vars => [Promise!Next]_Kept
  <2> SUFFICES ASSUME IInv, [Next]_vars PROVE [Promise!Next]_Kept
    OBVIOUS
  <2>1. ASSUME ledger' = ledger,
               \A b \in Bookings : (status[b] = "DELETED") <=> (status'[b] = "DELETED")
        PROVE  Kept' = Kept
    BY <2>1 DEF Kept
  <2>2. ASSUME NEW b \in Bookings, Delete(b) PROVE Promise!Next
    <3>1. \A c \in Bookings :
            /\ (status[c] = "DELETED" \/ c = b) <=> (status'[c] = "DELETED")
            /\ c # b => ledger'[c] = ledger[c]
      BY <2>2 DEF Delete, IInv, TypeOK
    <3>2. Kept' = [Kept EXCEPT ![b] = Gone]
      BY <3>1 DEF Kept
    <3> QED
      BY <3>2 DEF Promise!Next, Promise!Close
  <2>3. ASSUME NEW s \in Slots, Insert(s) PROVE [Promise!Next]_Kept
    <3> DEFINE q == slot[s]
               a == Award(q.b, Reason(q.first, q.streak), q.at)
    <3>1. q \in Busy /\ q.at \in Times
      BY <2>3, BusySlot DEF IInv, Insert, CountsHaveTime
    <3>2. q.b \in Bookings
      BY <3>1 DEF Busy
    <3>3. a \in Awards
      BY <3>1, <3>2, ReasonType, AwardType
    <3>4. status[q.b] # "DELETED" /\ status' = status
      BY <2>3 DEF Insert
    <3>5. CASE ledger[q.b] # NoAward
      BY <2>1, <2>3, <3>4, <3>5 DEF Insert
    <3>6. CASE ledger[q.b] = NoAward
      <4>1. ledger' = [ledger EXCEPT ![q.b] = a]
        BY <2>3, <3>6 DEF Insert
      <4> HIDE DEF a
      <4>2. ledger'[q.b] = a /\ \A c \in Bookings : c # q.b => ledger'[c] = ledger[c]
        BY <3>2, <4>1 DEF IInv, TypeOK
      <4>3. Kept' = [Kept EXCEPT ![q.b] = a] /\ Kept[q.b] = NoAward /\ Kept'[q.b] = a
        BY <3>2, <3>4, <3>6, <4>2 DEF Kept
      <4>4. Promise!Grant(q.b)
        BY <3>3, <4>3 DEF Promise!Grant
      <4> QED
        BY <3>2, <4>4 DEF Promise!Next
    <3> QED
      BY <3>5, <3>6
  <2>4. ASSUME NEW b \in Bookings, Create(b) \/ Cancel(b) PROVE Kept' = Kept
    BY <2>1, <2>4 DEF Create, Cancel, IInv, TypeOK
  <2>5. ASSUME NEW s \in Slots, Confirm(s) PROVE Kept' = Kept
    <3>1. slot[s].b \in Bookings
      BY <2>5, BusySlot DEF IInv, Confirm, Busy
    <3> QED
      BY <2>1, <2>5, <3>1 DEF Confirm, IInv, TypeOK
  <2>6. ASSUME NEW s \in Slots,
               \/ \E b \in Bookings : Complete(s, b) \/ Backfill(s, b)
               \/ Read(s) \/ CountFirst(s) \/ CountStreak(s) \/ RowGone(s) \/ Fail(s)
        PROVE  Kept' = Kept
    BY <2>1, <2>6 DEF Complete, Backfill, Read, CountFirst, CountStreak, RowGone, Fail
  <2>7. CASE Tick \/ UNCHANGED vars
    BY <2>1, <2>7 DEF Tick, vars
  <2> QED
    BY <2>2, <2>3, <2>4, <2>5, <2>6, <2>7 DEF Next
<1> QED
  BY <1>1, <1>2, Invariance, PTL DEF Spec, LedgerIsFinal, Promise!Spec

-----------------------------------------------------------------------------
(* Calls that come one at a time.                                          *)

(* No award is later than t.                                               *)
AfterAwards(t) == \A c \in Bookings : Awarded(c) => ledger[c].at <= t

(* Another booking that was created counts within the window before at.    *)
Earns(b, at) ==
  \E c \in Bookings \ {b} :
    /\ status[c] # "ABSENT"
    /\ \E t \in {createdAt[c], confirmedAt[c]} \ {NoTime} :
         t < at /\ t + Window >= at

(* Nothing is dated later than now.                                        *)
Dated ==
  /\ \A b \in Bookings :
       /\ createdAt[b] <= now
       /\ confirmedAt[b] # NoTime => confirmedAt[b] <= now
       /\ Awarded(b) => ledger[b].at <= now
  /\ \A s \in Slots :
       slot[s].pc \in {"confirm", "count"} /\ slot[s].at # NoTime
         => slot[s].at <= now

(* The award of a booking, if there is one, is dated and was earned.       *)
RowEarned(b) ==
  /\ status[b] \in {"ABSENT", "OPEN"} => confirmedAt[b] = NoTime
  /\ Awarded(b) =>
       /\ status[b] \in {"COMPLETED", "CANCELLED"}
       /\ ledger[b].at = confirmedAt[b]
       /\ ledger[b].reason = "weekly_streak" => Earns(b, ledger[b].at)
       /\ ledger[b].reason = "first_booking"
            => IsFirstConfirmedBooking(b, ledger[b].at)

(* The update under way will date a booking that has no date, later than   *)
(* every award, unless the booking is gone.                                *)
ConfirmEarns(q) ==
  /\ status[q.b] # "ABSENT"
  /\ status[q.b] # "DELETED" =>
       /\ IF q.fresh THEN q.at # NoTime ELSE status[q.b] \in {"COMPLETED", "CANCELLED"}
       /\ q.at # NoTime => confirmedAt[q.b] = NoTime /\ AfterAwards(q.at)

(* The award under way bears the booking's date, or one later than every   *)
(* award that it will also write, and its answers still hold.              *)
CountEarns(q) ==
  /\ status[q.b] \in {"COMPLETED", "CANCELLED", "DELETED"}
  /\ status[q.b] # "DELETED" =>
       IF q.fresh THEN confirmedAt[q.b] = NoTime /\ AfterAwards(q.at)
       ELSE confirmedAt[q.b] = q.at
  /\ q.streak = "yes" => Earns(q.b, q.at)
  /\ q.first = "yes" => IsFirstConfirmedBooking(q.b, q.at)

CallsEarn ==
  \A s \in Slots :
    /\ slot[s].pc = "confirm" => ConfirmEarns(slot[s])
    /\ slot[s].pc = "count" => CountEarns(slot[s])

EInv ==
  /\ OneCall
  /\ Dated
  /\ \A b \in Bookings : RowEarned(b)
  /\ CallsEarn

SInv == IInv /\ (alone => EInv)

(* A date that is not null is a time.                                      *)
LEMMA DatesAreTimes ==
  ASSUME IInv
  PROVE  /\ NoTime \notin Times /\ Times \subseteq Nat
         /\ now \in Times
         /\ \A b \in Bookings :
              /\ createdAt[b] \in Times
              /\ confirmedAt[b] # NoTime => confirmedAt[b] \in Times
              /\ Awarded(b) => ledger[b].at \in Times
BY RewardsAssumption DEF IInv, TypeOK, Times, Awarded, Awards

(* A call under way is not a free slot.                                    *)
LEMMA BusyIsNotIdle ==
  ASSUME NEW q \in Busy
  PROVE  q # Idle /\ q.pc \in {"confirm", "read", "count"} /\ q.b \in Bookings
<1>1. q.pc \in {"confirm", "read", "count"} /\ q.b \in Bookings
  BY DEF Busy
<1>2. Idle.pc = "idle"
  BY DEF Idle
<1> QED
  BY <1>1, <1>2

(* When calls come one at a time, a slot that takes a step is the only one *)
(* with a call.                                                            *)
LEMMA OnlyCall ==
  ASSUME IInv, OneCall, OneCall', NEW s \in Slots, NEW q \in {Idle} \cup Busy,
         slot' = [slot EXCEPT ![s] = q],
         slot[s] # Idle \/ q # Idle
  PROVE  slot'[s] = q /\ \A t \in Slots \ {s} : slot'[t] = Idle /\ slot[t] = Idle
<1>1. slot \in [Slots -> {Idle} \cup Busy]
  BY DEF IInv, TypeOK, Busy
<1>2. \A x \in Slots : slot'[x] = IF x = s THEN q ELSE slot[x]
  BY <1>1
<1> QED
  BY <1>2 DEF OneCall

(* What the only call's slot says of the calls.                            *)
LEMMA OnlyCallEarns ==
  ASSUME NEW s \in Slots,
         (\A t \in Slots \ {s} : slot[t] = Idle)',
         (slot[s].pc = "confirm" => ConfirmEarns(slot[s]))',
         (slot[s].pc = "count" => CountEarns(slot[s]))'
  PROVE  CallsEarn'
BY DEF CallsEarn, Idle

(* A booking that earned an award keeps having earned it: it is not        *)
(* created again, and its dates do not change.                             *)
LEMMA EarnsKept ==
  ASSUME \A c \in Bookings :
           status[c] # "ABSENT" =>
             /\ status'[c] # "ABSENT"
             /\ createdAt'[c] = createdAt[c]
             /\ confirmedAt[c] # NoTime => confirmedAt'[c] = confirmedAt[c],
         NEW b, NEW at, Earns(b, at)
  PROVE  Earns(b, at)'
BY DEF Earns

(* A booking stays the earliest when every booking completed since counts  *)
(* from then on.                                                           *)
LEMMA FirstKept ==
  ASSUME NEW at,
         \A c \in Bookings :
           status'[c] = "COMPLETED" =>
             \/ status[c] = "COMPLETED" /\ CountedAt(c)' = CountedAt(c)
             \/ CountedAt(c)' >= at,
         NEW b, IsFirstConfirmedBooking(b, at)
  PROVE  IsFirstConfirmedBooking(b, at)'
BY DEF IsFirstConfirmedBooking, OthersCompleted

LEMMA EarnInit == IInv /\ Init => EInv
<1> SUFFICES ASSUME IInv, Init PROVE EInv
  OBVIOUS
<1>1. \A b \in Bookings : ~Awarded(b) /\ confirmedAt[b] = NoTime /\ createdAt[b] = 0
  BY DEF Init, Awarded
<1>2. \A s \in Slots : slot[s] = Idle /\ slot[s].pc = "idle"
  BY DEF Init, Idle
<1> QED
  BY <1>1, <1>2 DEF Init, EInv, OneCall, Dated, RowEarned, CallsEarn

(* The steps that belong to no call keep what every award earned: a clock  *)
(* that advances, a booking that is created, cancelled or deleted.         *)
LEMMA QuietEarns ==
  ASSUME IInv, IInv', EInv,
         confirmedAt' = confirmedAt, slot' = slot,
         now' >= now,
         \A b \in Bookings :
           /\ createdAt'[b] = createdAt[b] \/ (status[b] = "ABSENT" /\ createdAt'[b] <= now')
           /\ \/ status'[b] = status[b]
              \/ status[b] = "ABSENT" /\ status'[b] = "OPEN"
              \/ status[b] \notin {"ABSENT", "DELETED"} /\ status'[b] = "CANCELLED"
              \/ status[b] # "ABSENT" /\ status'[b] = "DELETED" /\ ~Awarded(b)'
           /\ ledger'[b] = ledger[b] \/ ~Awarded(b)'
  PROVE  EInv'
<1>1. \A b \in Bookings : Awarded(b)' => Awarded(b) /\ ledger'[b] = ledger[b]
  BY DEF Awarded
<1>2. \A b, at : Earns(b, at) => Earns(b, at)'
  BY EarnsKept
<1>3. \A b, at : IsFirstConfirmedBooking(b, at) => IsFirstConfirmedBooking(b, at)'
  <2>1. \A c \in Bookings :
           status'[c] = "COMPLETED" =>
             status[c] = "COMPLETED" /\ CountedAt(c)' = CountedAt(c)
    BY DEF CountedAt
  <2> QED
    BY <2>1, FirstKept
<1>4. OneCall'
  BY DEF EInv, OneCall
<1>5. Dated'
  <2>1. \A b \in Bookings :
          /\ (createdAt[b] <= now)'
          /\ (confirmedAt[b] # NoTime => confirmedAt[b] <= now)'
          /\ (Awarded(b) => ledger[b].at <= now)'
    BY <1>1, DatesAreTimes DEF EInv, Dated, IInv, TypeOK, Times
  <2>2. \A s \in Slots :
          slot[s].pc \in {"confirm", "count"} /\ slot[s].at # NoTime
            => slot[s].at \in Times
    BY BusySlot DEF Busy, IInv
  <2>3. now \in Nat /\ now' \in Nat /\ Times \subseteq Nat
    BY DatesAreTimes DEF IInv, TypeOK, Times
  <2>4. ASSUME NEW s \in Slots, slot[s].pc \in {"confirm", "count"}, slot[s].at # NoTime
        PROVE  slot[s].at <= now'
    <3>1. slot[s].at <= now /\ slot[s].at \in Nat
      BY <2>2, <2>3, <2>4 DEF EInv, Dated
    <3> QED
      BY <2>3, <3>1
  <2> QED
    BY <2>1, <2>4 DEF Dated
<1>6. ASSUME NEW b \in Bookings PROVE RowEarned(b)'
  <2>1. RowEarned(b)
    BY DEF EInv
  <2> QED
    BY <1>1, <1>2, <1>3, <2>1 DEF RowEarned
<1>7. CallsEarn'
  <2>1. ASSUME NEW s \in Slots, slot[s].pc = "confirm" PROVE ConfirmEarns(slot[s])'
    <3>1. ConfirmEarns(slot[s]) /\ slot[s].b \in Bookings
      BY <2>1, BusySlot, BusyIsNotIdle DEF EInv, CallsEarn, IInv
    <3> QED
      BY <1>1, <3>1 DEF ConfirmEarns, AfterAwards
  <2>2. ASSUME NEW s \in Slots, slot[s].pc = "count" PROVE CountEarns(slot[s])'
    <3>1. CountEarns(slot[s]) /\ slot[s].b \in Bookings
      BY <2>2, BusySlot, BusyIsNotIdle DEF EInv, CallsEarn, IInv
    <3> QED
      BY <1>1, <1>2, <1>3, <3>1 DEF CountEarns, AfterAwards
  <2> QED
    BY <2>1, <2>2 DEF CallsEarn
<1> QED
  BY <1>4, <1>5, <1>6, <1>7 DEF EInv

(* A step of a call that only moves the call: the awards keep what they    *)
(* earned, and what is to be shown is about the call alone.                *)
LEMMA CallEarns ==
  ASSUME IInv, EInv, OneCall', NEW s \in Slots, NEW q \in {Idle} \cup Busy,
         slot' = [slot EXCEPT ![s] = q],
         slot[s] # Idle \/ q # Idle,
         UNCHANGED <<now, status, createdAt, confirmedAt, ledger>>,
         q.pc \in {"confirm", "count"} /\ q.at # NoTime => q.at <= now,
         q.pc = "confirm" => ConfirmEarns(q),
         q.pc = "count" => CountEarns(q)
  PROVE  EInv'
<1>1. slot'[s] = q /\ \A t \in Slots \ {s} : slot'[t] = Idle
  BY OnlyCall DEF EInv
<1>2. \A b, at : /\ Earns(b, at)' <=> Earns(b, at)
                 /\ IsFirstConfirmedBooking(b, at)' <=> IsFirstConfirmedBooking(b, at)
  BY DEF Earns, IsFirstConfirmedBooking, OthersCompleted, CountedAt
<1>3. \A b : Awarded(b)' <=> Awarded(b)
  BY DEF Awarded
<1>4. Dated'
  <2>1. \A t \in Slots \ {s} : slot'[t].pc = "idle"
    BY <1>1 DEF Idle
  <2> QED
    BY <1>1, <1>3, <2>1 DEF EInv, Dated
<1>5. ASSUME NEW b \in Bookings PROVE RowEarned(b)'
  BY <1>2, <1>3 DEF EInv, RowEarned
<1>6. \A t : AfterAwards(t)' <=> AfterAwards(t)
  BY <1>3 DEF AfterAwards
<1>7. /\ ConfirmEarns(slot[s])' <=> ConfirmEarns(q)
      /\ CountEarns(slot[s])' <=> CountEarns(q)
  BY <1>1, <1>2, <1>6 DEF ConfirmEarns, CountEarns
<1>8. CallsEarn'
  BY <1>1, <1>7, OnlyCallEarns
<1> QED
  BY <1>4, <1>5, <1>8 DEF EInv

(* Everything awarded so far is dated by now.                              *)
LEMMA NowIsAfterAwards ==
  ASSUME IInv, EInv
  PROVE  AfterAwards(now)
BY DEF EInv, Dated, AfterAwards

LEMMA CompleteEarns ==
  ASSUME IInv, EInv, OneCall', NEW s \in Slots, NEW b \in Bookings, Complete(s, b)
  PROVE  EInv'
<1> DEFINE at == IF confirmedAt[b] = NoTime THEN now ELSE NoTime
           fresh == status[b] = "OPEN"
           q == Call("confirm", b, at, fresh)
<1>1. at \in Times \cup {NoTime} /\ fresh \in BOOLEAN
  BY DatesAreTimes
<1>2. now \in Nat /\ NoTime \notin Times /\ now \in Times
  BY DatesAreTimes
<1>3. RowEarned(b) /\ status[b] \in {"OPEN", "COMPLETED"}
  BY DEF EInv, Complete
<1>4. slot' = [slot EXCEPT ![s] = q]
  BY DEF Complete
<1>5. q \in Busy /\ q.pc = "confirm" /\ q.at = at /\ q.b = b /\ q.fresh = fresh
  <2> HIDE DEF at, fresh
  <2> QED
    BY <1>1, CallType DEF Call
<1>6. ConfirmEarns(q)
  <2> HIDE DEF q
  <2> QED
    BY <1>2, <1>3, <1>5, NowIsAfterAwards DEF ConfirmEarns, RowEarned
<1>7. q # Idle
  <2> HIDE DEF q
  <2> QED
    BY <1>5, BusyIsNotIdle
<1>8. q.at # NoTime => q.at <= now
  <2> HIDE DEF q
  <2> QED
    BY <1>2, <1>5
<1>9. UNCHANGED <<now, status, createdAt, confirmedAt, ledger>>
  BY DEF Complete
<1> HIDE DEF q
<1> QED
  BY <1>4, <1>5, <1>6, <1>7, <1>8, <1>9, CallEarns

LEMMA BackfillEarns ==
  ASSUME IInv, EInv, OneCall', NEW s \in Slots, NEW b \in Bookings, Backfill(s, b)
  PROVE  EInv'
<1>1. AwardCall(b) \in Busy /\ AwardCall(b).pc = "read"
  BY AwardCallType
<1>2. AwardCall(b) # Idle
  BY <1>1, BusyIsNotIdle
<1>3. /\ slot' = [slot EXCEPT ![s] = AwardCall(b)]
      /\ UNCHANGED <<now, status, createdAt, confirmedAt, ledger>>
  BY DEF Backfill
<1> QED
  BY <1>1, <1>2, <1>3, CallEarns

(* The update dates a booking that had no date, later than every award, so *)
(* what the others earned stands.                                          *)
LEMMA ConfirmKeepsEarned ==
  ASSUME IInv, IInv', EInv, OneCall', NEW s \in Slots, Confirm(s)
  PROVE  EInv'
<1> DEFINE b == slot[s].b
           at == slot[s].at
<1>1. /\ slot[s] \in Busy /\ slot[s] # Idle /\ slot[s].pc = "confirm"
      /\ b \in Bookings /\ at \in Times \cup {NoTime} /\ status[b] # "DELETED"
  BY BusySlot, BusyIsNotIdle DEF Confirm, Busy, IInv
<1>2. ConfirmEarns(slot[s])
  BY <1>1 DEF EInv, CallsEarn
<1>3. /\ \A c \in Bookings \ {b} : status'[c] = status[c] /\ confirmedAt'[c] = confirmedAt[c]
      /\ status'[b] = IF slot[s].fresh THEN "COMPLETED" ELSE status[b]
      /\ confirmedAt'[b] = IF at = NoTime THEN confirmedAt[b] ELSE at
      /\ UNCHANGED <<now, createdAt, ledger>>
  BY <1>1 DEF Confirm, IInv, TypeOK
<1>4. PICK q \in {Idle} \cup Busy :
        slot' = [slot EXCEPT ![s] = q] /\ q.pc \in {"idle", "read"}
  <2>1. AwardCall(b) \in Busy /\ AwardCall(b).pc = "read"
    BY <1>1, AwardCallType
  <2>2. Idle.pc = "idle"
    BY DEF Idle
  <2> QED
    BY <2>1, <2>2 DEF Confirm
<1>5. slot'[s] = q /\ \A t \in Slots \ {s} : slot'[t] = Idle
  BY <1>1, <1>4, OnlyCall DEF EInv
<1>6. CallsEarn'
  BY <1>4, <1>5, OnlyCallEarns
<1>7. /\ NoTime \notin Times /\ Times \subseteq Nat /\ now \in Times
      /\ \A c \in Bookings : Awarded(c) => ledger[c].at \in Times
      /\ \A c : Awarded(c)' <=> Awarded(c)
  BY <1>3, DatesAreTimes DEF Awarded
<1>8. at # NoTime => at <= now /\ at \in Times
  BY <1>1 DEF EInv, Dated
<1>9. Dated'
  <2>1. \A t \in Slots : slot'[t].pc \in {"idle", "read"}
    BY <1>4, <1>5 DEF Idle
  <2>2. \A c \in Bookings : confirmedAt'[c] # NoTime => confirmedAt'[c] <= now'
    BY <1>3, <1>8 DEF EInv, Dated
  <2> QED
    BY <1>3, <1>7, <2>1, <2>2 DEF EInv, Dated
<1>10. \A c, t : Earns(c, t) => Earns(c, t)'
  <2>1. \A c \in Bookings :
           status[c] # "ABSENT" =>
             /\ status'[c] # "ABSENT"
             /\ createdAt'[c] = createdAt[c]
             /\ confirmedAt[c] # NoTime => confirmedAt'[c] = confirmedAt[c]
    BY <1>1, <1>2, <1>3 DEF ConfirmEarns
  <2> QED
    BY <2>1, EarnsKept
<1>11. ASSUME NEW c \in Bookings, Awarded(c), IsFirstConfirmedBooking(c, ledger[c].at)
       PROVE  IsFirstConfirmedBooking(c, ledger[c].at)'
  <2>1. ASSUME NEW d \in Bookings, status'[d] = "COMPLETED"
        PROVE  \/ status[d] = "COMPLETED" /\ CountedAt(d)' = CountedAt(d)
               \/ CountedAt(d)' >= ledger[c].at
    <3>1. CASE d # b
      BY <1>3, <2>1, <3>1 DEF CountedAt
    <3>2. CASE d = b /\ at # NoTime
      <4>1. CountedAt(d)' = at
        BY <1>3, <3>2 DEF CountedAt
      <4>2. ledger[c].at <= at
        BY <1>1, <1>2, <1>11, <3>2 DEF ConfirmEarns, AfterAwards
      <4> QED
        BY <1>7, <1>8, <1>11, <3>2, <4>1, <4>2
    <3>3. CASE d = b /\ at = NoTime
      <4>1. ~slot[s].fresh
        BY <1>1, <1>2, <3>3 DEF ConfirmEarns
      <4> QED
        BY <1>3, <2>1, <3>3, <4>1 DEF CountedAt
    <3> QED
      BY <3>1, <3>2, <3>3
  <2>2. IsFirstConfirmedBooking(c, ledger[c].at)'
        <=> (\A d \in Bookings \ {c} : status'[d] = "COMPLETED" => CountedAt(d)' >= ledger[c].at)
    BY <1>3 DEF IsFirstConfirmedBooking, OthersCompleted
  <2> QED
    BY <1>11, <2>1, <2>2 DEF IsFirstConfirmedBooking, OthersCompleted
<1>12. ASSUME NEW c \in Bookings PROVE RowEarned(c)'
  <2>1. RowEarned(c)
    BY DEF EInv
  <2>2. status'[c] \in {"ABSENT", "OPEN"} => confirmedAt'[c] = NoTime
    BY <1>2, <1>3, <2>1 DEF RowEarned, ConfirmEarns
  <2>3. ASSUME Awarded(c)
        PROVE  /\ status'[c] \in {"COMPLETED", "CANCELLED"}
               /\ ledger[c].at = confirmedAt'[c]
    BY <1>2, <1>3, <1>7, <2>1, <2>3 DEF RowEarned, ConfirmEarns
  <2> QED
    BY <1>3, <1>7, <1>10, <1>11, <2>1, <2>2, <2>3 DEF RowEarned
<1> QED
  BY <1>6, <1>9, <1>12 DEF EInv

LEMMA ReadEarns ==
  ASSUME IInv, EInv, OneCall', NEW s \in Slots, Read(s)
  PROVE  EInv'
<1> DEFINE b == slot[s].b
           at == AwardTime(b)
           fresh == confirmedAt[b] = NoTime
           q == Call("count", b, at, fresh)
<1>1. slot[s] \in Busy /\ slot[s] # Idle /\ b \in Bookings
  BY BusySlot, BusyIsNotIdle DEF Read, IInv
<1>2. UNCHANGED <<now, status, createdAt, confirmedAt, ledger>>
  BY DEF Read
<1>3. CASE status[b] # "COMPLETED"
  <2>1. slot' = [slot EXCEPT ![s] = Idle]
    BY <1>3 DEF Read
  <2>2. Idle.pc = "idle"
    BY DEF Idle
  <2> QED
    BY <1>1, <1>2, <2>1, <2>2, CallEarns
<1>4. CASE status[b] = "COMPLETED"
  <2>1. slot' = [slot EXCEPT ![s] = q]
    BY <1>4 DEF Read
  <2>2. at \in Times /\ fresh \in BOOLEAN /\ at <= now
    BY <1>1, DatesAreTimes DEF AwardTime, EInv, Dated
  <2>3. /\ q \in Busy /\ q.pc = "count" /\ q.at = at /\ q.b = b /\ q.fresh = fresh
        /\ q.first = "unasked" /\ q.streak = "unasked"
    <3> HIDE DEF at, fresh
    <3> QED
      BY <1>1, <2>2, CallType DEF Call
  <2>4. CountEarns(q)
    <3>1. IF fresh THEN at = now ELSE confirmedAt[b] = at
      BY DEF AwardTime
    <3> HIDE DEF q, at
    <3> QED
      BY <1>4, <2>3, <3>1, NowIsAfterAwards DEF CountEarns
  <2> HIDE DEF q, at
  <2> QED
    BY <1>1, <1>2, <2>1, <2>2, <2>3, <2>4, CallEarns
<1> QED
  BY <1>3, <1>4

(* The answer of a count is true of the bookings when it is given.         *)
LEMMA AnswerEarns ==
  ASSUME IInv, EInv, OneCall', NEW s \in Slots, CountFirst(s) \/ CountStreak(s)
  PROVE  EInv'
<1> DEFINE b == slot[s].b
           at == slot[s].at
<1>1. /\ slot[s] \in Busy /\ slot[s] # Idle /\ slot[s].pc = "count"
      /\ b \in Bookings /\ at \in Times
  BY BusySlot, BusyIsNotIdle DEF CountFirst, CountStreak, IInv, CountsHaveTime
<1>2. CountEarns(slot[s]) /\ at <= now
  BY <1>1, DatesAreTimes DEF EInv, CallsEarn, Dated
<1>3. UNCHANGED <<now, status, createdAt, confirmedAt, ledger>>
  BY DEF CountFirst, CountStreak
<1>4. CASE CountFirst(s)
  <2> DEFINE a == Answer(IsFirstConfirmedBooking(b, at))
             q == [slot[s] EXCEPT !.first = a]
  <2>1. slot' = [slot EXCEPT ![s] = q]
    BY <1>4 DEF CountFirst
  <2>2. a \in Answers /\ (a = "yes" => IsFirstConfirmedBooking(b, at))
    BY DEF Answer, Answers
  <2> HIDE DEF a
  <2>3. /\ q \in Busy /\ q.pc = "count" /\ q.at = at /\ q.b = b
        /\ q.fresh = slot[s].fresh /\ q.first = a /\ q.streak = slot[s].streak
    BY <1>1, <2>2 DEF Busy
  <2> HIDE DEF q
  <2>4. CountEarns(q)
    BY <1>2, <2>2, <2>3 DEF CountEarns
  <2> QED
    BY <1>1, <1>2, <1>3, <2>1, <2>3, <2>4, CallEarns
<1>5. CASE CountStreak(s)
  <2> DEFINE a == Answer(HasWeeklyPickupStreak(b, at))
             q == [slot[s] EXCEPT !.streak = a]
  <2>1. slot' = [slot EXCEPT ![s] = q]
    BY <1>5 DEF CountStreak
  <2>2. a \in Answers /\ (a = "yes" => Earns(b, at))
    <3>1. HasWeeklyPickupStreak(b, at) => Earns(b, at)
      <4> SUFFICES ASSUME HasWeeklyPickupStreak(b, at) PROVE Earns(b, at)
        OBVIOUS
      <4>1. PICK c \in Bookings \ {b} :
              status[c] = "COMPLETED" /\ CountedAt(c) < at /\ CountedAt(c) + Window >= at
        BY DEF HasWeeklyPickupStreak, OthersCompleted
      <4>2. CountedAt(c) \in {createdAt[c], confirmedAt[c]} \ {NoTime}
        BY <4>1, DatesAreTimes DEF CountedAt
      <4> QED
        BY <4>1, <4>2 DEF Earns
    <3> QED
      BY <3>1 DEF Answer, Answers
  <2> HIDE DEF a
  <2>3. /\ q \in Busy /\ q.pc = "count" /\ q.at = at /\ q.b = b
        /\ q.fresh = slot[s].fresh /\ q.first = slot[s].first /\ q.streak = a
    BY <1>1, <2>2 DEF Busy
  <2> HIDE DEF q
  <2>4. CountEarns(q)
    BY <1>2, <2>2, <2>3 DEF CountEarns
  <2> QED
    BY <1>1, <1>2, <1>3, <2>1, <2>3, <2>4, CallEarns
<1> QED
  BY <1>4, <1>5

(* The row that is inserted was earned, and its date is the booking's.     *)
LEMMA InsertEarns ==
  ASSUME IInv, IInv', EInv, OneCall', NEW s \in Slots, Insert(s)
  PROVE  EInv'
<1> DEFINE b == slot[s].b
           at == slot[s].at
           a == Award(b, Reason(slot[s].first, slot[s].streak), at)
<1>1. /\ slot[s] \in Busy /\ slot[s] # Idle /\ slot[s].pc = "count"
      /\ b \in Bookings /\ at \in Times /\ slot[s].fresh \in BOOLEAN
      /\ status[b] # "DELETED"
  BY BusySlot, BusyIsNotIdle DEF Insert, IInv, CountsHaveTime, Busy
<1>2. CountEarns(slot[s]) /\ at <= now
  BY <1>1, DatesAreTimes DEF EInv, CallsEarn, Dated
<1>3. /\ slot' = [slot EXCEPT ![s] = Idle] /\ Idle.pc = "idle"
      /\ UNCHANGED <<now, status, createdAt>>
  BY DEF Insert, Idle
<1>4. CASE ledger[b] # NoAward
  <2>1. UNCHANGED <<ledger, confirmedAt>>
    BY <1>4 DEF Insert
  <2> QED
    BY <1>1, <1>3, <2>1, CallEarns
<1>5. CASE ledger[b] = NoAward
  <2>1. /\ ledger' = [ledger EXCEPT ![b] = a]
        /\ confirmedAt' = [confirmedAt EXCEPT ![b] = IF slot[s].fresh THEN at ELSE @]
    BY <1>5 DEF Insert
  <2>2. /\ a.at = at
        /\ a.reason = "weekly_streak" => slot[s].streak = "yes"
        /\ a.reason = "first_booking" => slot[s].first = "yes"
    BY DEF Award, Reason
  <2> HIDE DEF a
  <2>3. /\ ledger'[b] = a /\ confirmedAt'[b] = at
        /\ \A c \in Bookings \ {b} :
             ledger'[c] = ledger[c] /\ confirmedAt'[c] = confirmedAt[c]
    BY <1>1, <1>2, <2>1 DEF IInv, TypeOK, CountEarns
  <2>4. slot'[s] = Idle /\ \A t \in Slots \ {s} : slot'[t] = Idle
    BY <1>1, <1>3, OnlyCall DEF EInv
  <2>5. CallsEarn'
    BY <1>3, <2>4, OnlyCallEarns
  <2>6. /\ NoTime \notin Times /\ Times \subseteq Nat /\ now \in Times
        /\ \A c \in Bookings : Awarded(c) => ledger[c].at \in Times
    BY DatesAreTimes
  <2>7. \A c \in Bookings \ {b} : Awarded(c)' <=> Awarded(c)
    BY <2>3 DEF Awarded
  <2>8. Dated'
    <3>1. \A t \in Slots : slot'[t].pc = "idle"
      BY <1>3, <2>4
    <3>2. ASSUME NEW c \in Bookings
          PROVE  /\ createdAt'[c] <= now'
                 /\ confirmedAt'[c] # NoTime => confirmedAt'[c] <= now'
                 /\ Awarded(c)' => ledger'[c].at <= now'
      BY <1>2, <1>3, <2>2, <2>3, <2>7 DEF EInv, Dated
    <3> QED
      BY <3>1, <3>2 DEF Dated
  <2>9. \A c, t : Earns(c, t) => Earns(c, t)'
    <3>1. \A c \in Bookings :
             status[c] # "ABSENT" =>
               /\ status'[c] # "ABSENT"
               /\ createdAt'[c] = createdAt[c]
               /\ confirmedAt[c] # NoTime => confirmedAt'[c] = confirmedAt[c]
      BY <1>1, <1>2, <1>3, <2>3 DEF CountEarns
    <3> QED
      BY <3>1, EarnsKept
  <2>10. ASSUME NEW c \in Bookings, NEW t \in Times, IsFirstConfirmedBooking(c, t),
                c = b \/ slot[s].fresh => t <= at
         PROVE  IsFirstConfirmedBooking(c, t)'
    <3>1. ASSUME NEW d \in Bookings \ {c}, status[d] = "COMPLETED"
          PROVE  CountedAt(d)' >= t
      <4>1. CountedAt(d) >= t
        BY <2>10, <3>1 DEF IsFirstConfirmedBooking, OthersCompleted
      <4>2. CASE d # b \/ ~slot[s].fresh
        <5>1. CountedAt(d)' = CountedAt(d)
          BY <1>1, <1>2, <1>3, <2>3, <4>2 DEF CountedAt, CountEarns
        <5> QED
          BY <4>1, <5>1
      <4>3. CASE d = b /\ slot[s].fresh
        <5>1. CountedAt(d)' = at
          BY <1>1, <2>3, <2>6, <4>3 DEF CountedAt
        <5> QED
          BY <1>1, <2>6, <2>10, <4>3, <5>1
      <4> QED
        BY <4>2, <4>3
    <3> QED
      BY <1>3, <3>1 DEF IsFirstConfirmedBooking, OthersCompleted
  <2>11. ASSUME NEW c \in Bookings PROVE RowEarned(c)'
    <3>1. CASE c = b
      <4>1. PICK t \in Times : t = at
        BY <1>1
      <4>2. ledger'[c] = a /\ confirmedAt'[c] = t /\ a.at = t
        BY <2>2, <2>3, <3>1, <4>1
      <4>3. a.reason = "first_booking" => IsFirstConfirmedBooking(c, t)'
        <5>1. a.reason = "first_booking" => IsFirstConfirmedBooking(c, t)
          BY <1>2, <2>2, <3>1, <4>1 DEF CountEarns
        <5>2. t <= at
          BY <2>6, <4>1
        <5> QED
          BY <2>10, <5>1, <5>2
      <4>4. a.reason = "weekly_streak" => Earns(c, t)'
        BY <1>2, <2>2, <2>9, <3>1, <4>1 DEF CountEarns
      <4>5. status'[c] \in {"COMPLETED", "CANCELLED"}
        BY <1>1, <1>2, <1>3, <3>1 DEF CountEarns
      <4> QED
        BY <4>2, <4>3, <4>4, <4>5 DEF RowEarned
    <3>2. CASE c # b
      <4>1. RowEarned(c)
        BY DEF EInv
      <4>2. ASSUME Awarded(c), IsFirstConfirmedBooking(c, ledger[c].at)
            PROVE  IsFirstConfirmedBooking(c, ledger[c].at)'
        <5>1. PICK t \in Times : t = ledger[c].at
          BY <2>6, <4>2
        <5>2. slot[s].fresh => t <= at
          BY <1>1, <1>2, <4>2, <5>1 DEF CountEarns, AfterAwards
        <5>3. IsFirstConfirmedBooking(c, t)'
          BY <2>10, <3>2, <4>2, <5>1, <5>2
        <5> QED
          BY <2>3, <3>2, <5>1, <5>3
      <4> QED
        BY <1>3, <2>3, <2>7, <2>9, <3>2, <4>1, <4>2 DEF RowEarned
    <3> QED
      BY <3>1, <3>2
  <2> QED
    BY <2>5, <2>8, <2>11 DEF EInv
<1> QED
  BY <1>4, <1>5

LEMMA FailEarns ==
  ASSUME IInv, EInv, OneCall', NEW s \in Slots, Fail(s) \/ RowGone(s)
  PROVE  EInv'
<1>1. Idle.pc = "idle"
  BY DEF Idle
<1>2. slot[s] # Idle
  BY <1>1 DEF Fail, RowGone
<1>3. /\ slot' = [slot EXCEPT ![s] = Idle]
      /\ UNCHANGED <<now, status, createdAt, confirmedAt, ledger>>
  BY DEF Fail, RowGone
<1> QED
  BY <1>1, <1>2, <1>3, CallEarns

(* Every step of calls that do not overlap keeps what the awards earned.   *)
LEMMA StepEarns ==
  ASSUME IInv, IInv', EInv, OneCall', [Next]_vars
  PROVE  EInv'
<1>0. now' >= now /\ now' \in Nat
  BY DatesAreTimes DEF Next, vars, Tick, Create, Cancel, Delete, Complete, Backfill, Confirm,
                       Read, CountFirst, CountStreak, Insert, RowGone, Fail
<1>1. CASE Tick
  <2>1. \A b \in Bookings : createdAt'[b] = createdAt[b] /\ status'[b] = status[b]
    BY <1>1 DEF Tick
  <2> QED
    BY <1>0, <1>1, <2>1, QuietEarns DEF Tick
<1>2. ASSUME NEW b \in Bookings, Create(b) PROVE EInv'
  <2>1. /\ \A c \in Bookings \ {b} :
             createdAt'[c] = createdAt[c] /\ status'[c] = status[c]
        /\ createdAt'[b] = now /\ status'[b] = "OPEN" /\ status[b] = "ABSENT"
        /\ now' = now
    BY <1>2 DEF Create, IInv, TypeOK
  <2>2. now <= now'
    BY <1>0, <2>1
  <2> QED
    BY <1>0, <1>2, <2>1, <2>2, QuietEarns DEF Create
<1>3. ASSUME NEW b \in Bookings, Cancel(b) PROVE EInv'
  <2>1. /\ \A c \in Bookings : createdAt'[c] = createdAt[c]
        /\ \A c \in Bookings \ {b} : status'[c] = status[c]
        /\ status'[b] = "CANCELLED" /\ status[b] \notin {"ABSENT", "DELETED"}
    BY <1>3 DEF Cancel, IInv, TypeOK
  <2> QED
    BY <1>0, <1>3, <2>1, QuietEarns DEF Cancel
<1>7. ASSUME NEW b \in Bookings, Delete(b) PROVE EInv'
  <2>1. /\ \A c \in Bookings : createdAt'[c] = createdAt[c]
        /\ \A c \in Bookings \ {b} : status'[c] = status[c] /\ ledger'[c] = ledger[c]
        /\ status'[b] = "DELETED" /\ status[b] # "ABSENT" /\ ledger'[b] = NoAward
    BY <1>7 DEF Delete, IInv, TypeOK
  <2>2. ~Awarded(b)'
    BY <2>1 DEF Awarded
  <2> QED
    BY <1>0, <1>7, <2>1, <2>2, QuietEarns DEF Delete
<1>4. ASSUME NEW s \in Slots, NEW b \in Bookings, Complete(s, b) \/ Backfill(s, b)
      PROVE  EInv'
  BY <1>4, CompleteEarns, BackfillEarns
<1>5. ASSUME NEW s \in Slots,
             Confirm(s) \/ Read(s) \/ CountFirst(s) \/ CountStreak(s) \/ Insert(s)
               \/ RowGone(s) \/ Fail(s)
      PROVE  EInv'
  BY <1>5, ConfirmKeepsEarned, ReadEarns, AnswerEarns, InsertEarns, FailEarns
<1>6. CASE UNCHANGED vars
  <2>1. \A b \in Bookings : createdAt'[b] = createdAt[b] /\ status'[b] = status[b]
    BY <1>6 DEF vars
  <2> QED
    BY <1>0, <1>6, <2>1, QuietEarns DEF vars
<1> QED
  BY <1>1, <1>2, <1>3, <1>4, <1>5, <1>6, <1>7 DEF Next

LEMMA ServedInvariance == ServedSpec => []SInv
<1>1. ServedInit => SInv
  BY InitInv, EarnInit DEF ServedInit, SInv
<1>2. SInv /\ [ServedNext]_servedVars => SInv'
  <2> SUFFICES ASSUME SInv, [ServedNext]_servedVars PROVE SInv'
    OBVIOUS
  <2>1. [Next]_vars /\ alone' = alone
    BY DEF ServedNext, servedVars
  <2>2. IInv'
    BY <2>1, StepInv DEF SInv
  <2>3. ASSUME alone PROVE EInv'
    <3>1. OneCall'
      BY <2>3 DEF ServedNext, servedVars, vars, SInv, EInv, OneCall
    <3> QED
      BY <2>1, <2>2, <2>3, <3>1, StepEarns DEF SInv
  <2> QED
    BY <2>1, <2>2, <2>3 DEF SInv
<1> QED
  BY <1>1, <1>2, PTL DEF ServedSpec

(* When the calls of a customer's bookings do not overlap, each multiplier *)
(* went to a booking that earned it and each award bears the time of the   *)
(* confirmation, whatever is created, cancelled, deleted, edited, failed   *)
(* or made up for between the steps of a call.                             *)
THEOREM ServedEarned == ServedSpec => []MultipliersEarned
<1>1. SInv => MultipliersEarned
  <2> SUFFICES ASSUME IInv, EInv
               PROVE  StreakIsEarned /\ FirstIsEarliest /\ AwardedAtConfirmation
    BY DEF SInv, MultipliersEarned
  <2>1. StreakIsEarned
    BY DEF EInv, RowEarned, Earns, StreakIsEarned
  <2>2. AwardedAtConfirmation
    BY DEF EInv, RowEarned, AwardedAtConfirmation
  <2>3. ASSUME NEW b \in Bookings, NEW c \in Bookings,
               Awarded(b), ledger[b].reason = "first_booking",
               Awarded(c), status[c] # "CANCELLED"
        PROVE  ledger[c].at >= ledger[b].at
    <3>1. CASE c = b
      BY <2>3, <3>1, DatesAreTimes
    <3>2. CASE c # b
      <4>1. /\ IsFirstConfirmedBooking(b, ledger[b].at)
            /\ status[c] = "COMPLETED" /\ ledger[c].at = confirmedAt[c]
        BY <2>3 DEF EInv, RowEarned
      <4>2. CountedAt(c) = ledger[c].at
        BY <2>3, <4>1, DatesAreTimes DEF CountedAt
      <4> QED
        BY <3>2, <4>1, <4>2 DEF IsFirstConfirmedBooking, OthersCompleted
    <3> QED
      BY <3>1, <3>2
  <2> QED
    BY <2>1, <2>2, <2>3 DEF FirstIsEarliest
<1> QED
  BY <1>1, ServedInvariance, PTL
===============================================================================
