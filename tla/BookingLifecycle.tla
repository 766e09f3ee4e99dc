--------------------------- MODULE BookingLifecycle ---------------------------
(***************************************************************************)
(* The life of a booking: the Booking, BookingStatusHistory,               *)
(* PointsTransaction and Driver rows, and the HTTP requests of customers,  *)
(* drivers and admins that change them.                                    *)
(*                                                                         *)
(* Every handler reads the booking, checks what it read, and then issues   *)
(* its writes one by one, each of them an await on its own: none of these  *)
(* handlers opens a transaction around the check and the writes.  A        *)
(* request is therefore a process with a program counter, and another      *)
(* request, a driver deletion or a failure may come between two of its     *)
(* steps.                                                                  *)
(***************************************************************************)
EXTENDS BookingStatus, Naturals

CONSTANTS
  Bookings,    \* booking ids (UUIDs, never reused)
  Drivers,     \* ids of registered drivers
  Requests,    \* slots for the requests being served at one time
  Ops,         \* the operations that an instance lets happen
  Bodies,      \* the bodies of admin updates that an instance tries
  MaxPickups,  \* bound: a driver with this many pickups collects no more
  NoDriver,    \* null in the column Booking.driverId
  Unset        \* a field that a request body or an update leaves out

AllOps ==
  {"create", "start", "collect", "driverCancel", "cancel", "delete",
   "admin", "backfill", "approve", "deleteDriver", "duty", "editDriver",
   "fail"}

(* What an update does to a nullable column.                               *)
Edits == {"keep", "null", "value"}

(* AdminUpdateBookingDto.  Its validators are @IsOptional, which lets null *)
(* through for every field.                                                *)
AdminBody ==
  [status: CanonicalStatuses \cup {Unset},
   driver: Drivers \cup {NoDriver, Unset},
   weight: Edits, amount: Edits]

ASSUME ConstantsAssumption ==
  /\ NoDriver \notin Drivers
  /\ Unset \notin Drivers \cup {NoDriver}
  /\ Unset \notin CanonicalStatuses
  /\ Ops \subseteq AllOps
  /\ Bodies \subseteq AdminBody
  /\ MaxPickups \in Nat

VARIABLES
  (*************************************************************************)
  (* The database                                                          *)
  (*************************************************************************)
  status,      \* Booking.status, "ABSENT" before and "DELETED" after the row
  driverOf,    \* Booking.driverId
  weighed,     \* Booking.actualWeightKg is not null
  priced,      \* Booking.finalAmountLkr is not null
  confirmed,   \* Booking.confirmedAt is not null
  history,     \* the toStatus of the booking's BookingStatusHistory rows
  points,      \* bookings with a PointsTransaction row (bookingId is unique)
  profile,     \* Driver.approved, and whether the Driver row exists
  duty,        \* Driver.status
  pickupCount, \* Driver.pickupCount
  (*************************************************************************)
  (* The server process                                                    *)
  (*************************************************************************)
  req,         \* the requests being served
  (*************************************************************************)
  (* History variable                                                      *)
  (*************************************************************************)
  lost         \* bookings one of whose requests failed after its row write

bookingRow == <<status, driverOf, weighed, priced, confirmed>>
driverRow  == <<profile, duty, pickupCount>>
vars == <<status, driverOf, weighed, priced, confirmed, history, points,
          profile, duty, pickupCount, req, lost>>

RowStatuses == CanonicalStatuses \cup {"ABSENT", "DELETED"}
Profiles    == {"PENDING", "APPROVED", "GONE"}
Duties      == {"ONLINE", "OFFLINE", "ON_PICKUP"}
DriverOps   == {"start", "collect", "driverCancel"}
PCs == {"idle", "write", "remove", "history", "driver", "awardRead", "award"}
RequestOps == DriverOps \cup {"none", "cancel", "delete", "admin", "backfill"}

ClosedBookingStatuses == {"COMPLETED", "CANCELLED", "REFUNDED"}

DriverRequiredBookingStatuses ==
  {"ASSIGNED", "IN_PROGRESS", "COLLECTED", "COMPLETED"}

Exists(b) == status[b] \in CanonicalStatuses

(***************************************************************************)
(* A request: its operation, the next step, the booking, the driver who    *)
(* sent it, the status it read and the one it wants, and the data of the   *)
(* booking update it will write.                                           *)
(***************************************************************************)
UpdateData ==
  [driver: Drivers \cup {Unset}, weight: Edits, amount: Edits,
   confirm: BOOLEAN]

Request ==
  [op: RequestOps, pc: PCs, b: Bookings \cup {Unset},
   by: Drivers \cup {NoDriver},
   from: CanonicalStatuses \cup {Unset}, to: CanonicalStatuses \cup {Unset},
   data: UpdateData]

Data(driver, weight, amount, confirm) ==
  [driver |-> driver, weight |-> weight, amount |-> amount,
   confirm |-> confirm]

NoData == Data(Unset, "keep", "keep", FALSE)

Req(op, pc, b, by, from, to, data) ==
  [op |-> op, pc |-> pc, b |-> b, by |-> by, from |-> from, to |-> to,
   data |-> data]

Idle == Req("none", "idle", Unset, NoDriver, Unset, Unset, NoData)

(* A request that has read booking b and will write status `to`.           *)
Writing(op, b, by, to, data) == Req(op, "write", b, by, status[b], to, data)

(* An admin edit that keeps the status writes no status column.            *)
WritesStatus(q) == q.op # "admin" \/ q.from # q.to

Applied(edit, old) ==
  CASE edit = "keep" -> old
    [] edit = "null" -> FALSE
    [] edit = "value" -> TRUE

TypeOK ==
  /\ status \in [Bookings -> RowStatuses]
  /\ driverOf \in [Bookings -> Drivers \cup {NoDriver}]
  /\ weighed \in [Bookings -> BOOLEAN]
  /\ priced \in [Bookings -> BOOLEAN]
  /\ confirmed \in [Bookings -> BOOLEAN]
  /\ history \in [Bookings -> SUBSET CanonicalStatuses]
  /\ points \subseteq Bookings
  /\ profile \in [Drivers -> Profiles]
  /\ duty \in [Drivers -> Duties]
  /\ pickupCount \in [Drivers -> Nat]
  /\ req \in [Requests -> Request]
  /\ lost \subseteq Bookings

Init ==
  /\ status = [b \in Bookings |-> "ABSENT"]
  /\ driverOf = [b \in Bookings |-> NoDriver]
  /\ weighed = [b \in Bookings |-> FALSE]
  /\ priced = [b \in Bookings |-> FALSE]
  /\ confirmed = [b \in Bookings |-> FALSE]
  /\ history = [b \in Bookings |-> {}]
  /\ points = {}
  /\ profile = [d \in Drivers |-> "PENDING"]
  /\ duty = [d \in Drivers |-> "OFFLINE"]
  /\ pickupCount = [d \in Drivers |-> 0]
  /\ req = [r \in Requests |-> Idle]
  /\ lost = {}

-----------------------------------------------------------------------------
(***************************************************************************)
(* First steps: a request arrives, reads the booking and passes the checks *)
(* on what it read.  A request that fails a check changes nothing, so it   *)
(* is no step here.                                                        *)
(***************************************************************************)

(* BookingsService.create inserts one row per item, all of them CREATED;   *)
(* the inserts run side by side and one may fail without the others.       *)
CreateBooking(b) ==
  /\ "create" \in Ops
  /\ status[b] = "ABSENT"
  /\ status' = [status EXCEPT ![b] = "CREATED"]
  /\ UNCHANGED <<driverOf, weighed, priced, confirmed, history, points,
                 profile, duty, pickupCount, req, lost>>

(* Mutant of AssignedTo: any driver may name the booking.                  *)
AssignedToAnyone(b, d) == Exists(b) /\ d \in Drivers

(* getAssignedBooking: the booking exists and is assigned to the caller.   *)
AssignedTo(b, d) == Exists(b) /\ driverOf[b] = d

Arrive(r, q) ==
  /\ req[r] = Idle
  /\ req' = [req EXCEPT ![r] = q]
  /\ UNCHANGED <<bookingRow, history, points, driverRow, lost>>

StartPickup(r, b, d) ==
  /\ "start" \in Ops
  /\ AssignedTo(b, d)
  /\ RoleCanTransition("DRIVER", status[b], "IN_PROGRESS")
  /\ Arrive(r, Writing("start", b, d, "IN_PROGRESS", NoData))

(* Also the path of updateBooking with a weight.  The category has a       *)
(* pricing row (the request is refused otherwise), so the amount is known. *)
CollectBooking(r, b, d) ==
  /\ "collect" \in Ops
  /\ AssignedTo(b, d)
  /\ pickupCount[d] < MaxPickups
  /\ RoleCanTransition("DRIVER", status[b], "COLLECTED")
  /\ Arrive(r, Writing("collect", b, d, "COLLECTED",
                       Data(Unset, "value", "value", FALSE)))

CancelByDriver(r, b, d) ==
  /\ "driverCancel" \in Ops
  /\ AssignedTo(b, d)
  /\ RoleCanTransition("DRIVER", status[b], "CANCELLED")
  /\ Arrive(r, Writing("driverCancel", b, d, "CANCELLED", NoData))

(* BookingsService.cancel checks that the caller owns the booking; it does *)
(* not look at the status.                                                 *)
CancelByCustomer(r, b) ==
  /\ "cancel" \in Ops
  /\ Exists(b)
  /\ Arrive(r, Writing("cancel", b, NoDriver, "CANCELLED", NoData))

DeleteBooking(r, b) ==
  /\ "delete" \in Ops
  /\ Exists(b)
  /\ Arrive(r, Req("delete", "remove", b, NoDriver, Unset, Unset, NoData))

(* AdminService.updateBooking, which assignDriver and updateBookingStatus  *)
(* call with part of the body.  auto: the enum of the database is known to *)
(* have ASSIGNED (while it is still being looked up the answer is no);     *)
(* tariff: the booking's category has a pricing row.                       *)
DriverChanged(b, body) == body.driver \in Drivers \ {driverOf[b]}

NextStatus(b, body, auto) ==
  IF body.status # Unset THEN body.status
  ELSE IF DriverChanged(b, body) /\ status[b] = "CREATED" /\ auto
       THEN "ASSIGNED"
       ELSE status[b]

(* Mutant of HasDriver: only a driver of null in the body is refused.      *)
DriverNotCleared(b, body) == body.driver # NoDriver

HasDriver(b, body) ==
  IF body.driver = Unset THEN driverOf[b] # NoDriver
                         ELSE body.driver \in Drivers

(* weightForAmount is not null: the body's weight, when it names one.      *)
WeightForCompletion(b, body) == Applied(body.weight, weighed[b])

AmountEdit(b, body, tariff) ==
  IF body.amount = "keep" /\ WeightForCompletion(b, body) /\ tariff
  THEN "value" ELSE body.amount

(* data.finalAmountLkr ?? existing.finalAmountLkr is not null: a null in   *)
(* the body falls back to the stored amount here, though null is written.  *)
AmountForCompletion(b, body, tariff) ==
  AmountEdit(b, body, tariff) = "value" \/ priced[b]

(* The update writes confirmedAt.                                          *)
Confirms(b, next) == next = "COMPLETED" /\ ~confirmed[b]

DriverMayBeAssigned(b, d) ==
  /\ status[b] \notin ClosedBookingStatuses
  /\ profile[d] = "APPROVED"
  /\ status[b] \in {"CREATED", "ASSIGNED"}

AdminUpdate(r, b, body, auto, tariff) ==
  LET next == NextStatus(b, body, auto)
  IN  /\ "admin" \in Ops
      /\ Exists(b)
      /\ DriverChanged(b, body) => DriverMayBeAssigned(b, body.driver)
      /\ RoleCanTransition("ADMIN", status[b], next)
      /\ next \in DriverRequiredBookingStatuses => HasDriver(b, body)
      /\ next = "COMPLETED" =>
           /\ WeightForCompletion(b, body)
           /\ AmountForCompletion(b, body, tariff)
      /\ Arrive(r, Writing("admin", b, NoDriver, next,
                   Data(IF body.driver \in Drivers THEN body.driver ELSE Unset,
                        body.weight,
                        AmountEdit(b, body, tariff),
                        Confirms(b, next))))

(* backfillMissingPoints picks a COMPLETED booking without points.         *)
Backfill(r, b) ==
  /\ "backfill" \in Ops
  /\ status[b] = "COMPLETED" /\ b \notin points
  /\ Arrive(r, Req("backfill", "awardRead", b, NoDriver, Unset, Unset, NoData))

-----------------------------------------------------------------------------
(***************************************************************************)
(* Later steps: the writes of a request, one per await.                    *)
(***************************************************************************)

Goto(r, pc) ==
  LET q == req[r]
  IN  req' = [req EXCEPT ![r] =
                IF pc = "idle" THEN Idle
                ELSE Req(q.op, pc, q.b, q.by, Unset, q.to, NoData)]

(* Mutants of AfterWrite: the effects of a collection although the status  *)
(* did not change; no history for admins; the award before the history.    *)
AfterEveryWrite(q) ==
  CASE q.op \in {"start", "driverCancel", "collect"} -> "history"
    [] q.op = "admin" /\ q.from # q.to -> "history"
    [] OTHER -> "idle"

AfterDriverWrite(q) ==
  CASE q.op \in {"start", "driverCancel"} -> "history"
    [] q.op = "collect" /\ q.from # q.to -> "history"
    [] OTHER -> "idle"

AwardAfterWrite(q) ==
  CASE q.op = "admin" /\ q.from # q.to /\ q.to = "COMPLETED" -> "awardRead"
    [] q.op \in {"collect", "admin"} /\ q.from # q.to -> "history"
    [] q.op \in {"start", "driverCancel"} -> "history"
    [] OTHER -> "idle"

(* The step after the booking update.                                      *)
AfterWrite(q) ==
  CASE q.op \in {"start", "driverCancel"} -> "history"
    [] q.op \in {"collect", "admin"} /\ q.from # q.to -> "history"
    [] OTHER -> "idle"

(* Mutant of AfterHistory: a completion awards nothing.                    *)
DriverAfterHistory(q) == IF q.op \in DriverOps THEN "driver" ELSE "idle"

AfterHistory(q) ==
  CASE q.op \in DriverOps -> "driver"
    [] q.op = "admin" /\ q.to = "COMPLETED" -> "awardRead"
    [] OTHER -> "idle"

UpdateRow(r) ==
  LET q == req[r]
      b == q.b
  IN  /\ q.pc = "write"
      /\ Exists(b)
      /\ q.data.driver \in Drivers => profile[q.data.driver] # "GONE"
      /\ status' = [status EXCEPT ![b] = IF WritesStatus(q) THEN q.to ELSE @]
      /\ driverOf' = [driverOf EXCEPT ![b] =
                        IF q.data.driver \in Drivers THEN q.data.driver ELSE @]
      /\ weighed' = [weighed EXCEPT ![b] = Applied(q.data.weight, @)]
      /\ priced' = [priced EXCEPT ![b] = Applied(q.data.amount, @)]
      /\ confirmed' = [confirmed EXCEPT ![b] = @ \/ q.data.confirm]
      /\ Goto(r, AfterWrite(q))
      /\ UNCHANGED <<history, points, driverRow, lost>>

(* The delete cascades to the history and points rows of the booking.      *)
DeleteRow(r) ==
  LET b == req[r].b
  IN  /\ req[r].pc = "remove"
      /\ Exists(b)
      /\ status' = [status EXCEPT ![b] = "DELETED"]
      /\ driverOf' = [driverOf EXCEPT ![b] = NoDriver]
      /\ weighed' = [weighed EXCEPT ![b] = FALSE]
      /\ priced' = [priced EXCEPT ![b] = FALSE]
      /\ confirmed' = [confirmed EXCEPT ![b] = FALSE]
      /\ history' = [history EXCEPT ![b] = {}]
      /\ points' = points \ {b}
      /\ Goto(r, "idle")
      /\ UNCHANGED <<driverRow, lost>>

(* Mutant of RecordStatusHistory: the status read before the write is      *)
(* recorded, which the request no longer has.                              *)
RecordOldStatus(r) ==
  LET q == req[r]
  IN  /\ q.pc = "history"
      /\ Exists(q.b)
      /\ history' = [history EXCEPT ![q.b] = @ \cup {q.from}]
      /\ Goto(r, AfterHistory(q))
      /\ UNCHANGED <<bookingRow, points, driverRow, lost>>

RecordStatusHistory(r) ==
  LET q == req[r]
  IN  /\ q.pc = "history"
      /\ Exists(q.b)
      /\ history' = [history EXCEPT ![q.b] = @ \cup {q.to}]
      /\ Goto(r, AfterHistory(q))
      /\ UNCHANGED <<bookingRow, points, driverRow, lost>>

(* The last write of the driver handlers: ON_PICKUP after a start, ONLINE  *)
(* after a collection, which also counts the pickup, or a cancellation.    *)
UpdateDriver(r) ==
  LET q == req[r]
  IN  /\ q.pc = "driver"
      /\ profile[q.by] # "GONE"
      /\ duty' = [duty EXCEPT ![q.by] =
                    IF q.op = "start" THEN "ON_PICKUP" ELSE "ONLINE"]
      /\ pickupCount' = [pickupCount EXCEPT ![q.by] =
                           IF q.op = "collect" THEN @ + 1 ELSE @]
      /\ Goto(r, "idle")
      /\ UNCHANGED <<bookingRow, history, points, profile, lost>>

(* awardPointsForBooking reads the booking again; it goes on only when it  *)
(* still is COMPLETED, and remembers whether confirmedAt was null.         *)
AwardRead(r) ==
  LET q == req[r]
  IN  /\ q.pc = "awardRead"
      /\ Exists(q.b)
      /\ req' = [req EXCEPT ![r] =
                   IF status[q.b] = "COMPLETED"
                   THEN Req(q.op, "award", q.b, q.by, Unset, q.to,
                            Data(Unset, "keep", "keep", ~confirmed[q.b]))
                   ELSE Idle]
      /\ UNCHANGED <<bookingRow, history, points, driverRow, lost>>

(* Mutant of AwardPoints: points only with a missing confirmedAt.          *)
AwardUnconfirmed(r) ==
  LET b == req[r].b
  IN  /\ req[r].pc = "award"
      /\ Exists(b)
      /\ points' = IF req[r].data.confirm THEN points \cup {b} ELSE points
      /\ confirmed' = [confirmed EXCEPT ![b] = @ \/ req[r].data.confirm]
      /\ Goto(r, "idle")
      /\ UNCHANGED <<status, driverOf, weighed, priced, history, driverRow,
                     lost>>

(* The award transaction: createMany with skipDuplicates on the unique     *)
(* bookingId, and the missing confirmedAt only when a row was inserted.    *)
AwardPoints(r) ==
  LET b == req[r].b
  IN  /\ req[r].pc = "award"
      /\ Exists(b)
      /\ points' = points \cup {b}
      /\ confirmed' = [confirmed EXCEPT ![b] =
                         @ \/ (b \notin points /\ req[r].data.confirm)]
      /\ Goto(r, "idle")
      /\ UNCHANGED <<status, driverOf, weighed, priced, history, driverRow,
                     lost>>

(* A write on a row that another request removed throws (P2025, or P2003   *)
(* for a foreign key) and ends the request.                                *)
RowMissing(r) ==
  LET q == req[r]
  IN  /\ q.pc # "idle"
      /\ \/ q.pc # "driver" /\ ~Exists(q.b)
         \/ q.pc = "write" /\ q.data.driver \in Drivers
            /\ profile[q.data.driver] = "GONE"
         \/ q.pc = "driver" /\ profile[q.by] = "GONE"
      /\ Goto(r, "idle")
      /\ UNCHANGED <<bookingRow, history, points, driverRow, lost>>

(* The process dies, or a database call of the request fails, between two  *)
(* steps: what is written stays, what is not written never will be.        *)
Fail(r) ==
  /\ "fail" \in Ops
  /\ req[r].pc # "idle"
  /\ Goto(r, "idle")
  /\ lost' = IF req[r].pc \in {"history", "driver", "awardRead", "award"}
                /\ Exists(req[r].b)
             THEN lost \cup {req[r].b} ELSE lost
  /\ UNCHANGED <<bookingRow, history, points, driverRow>>

-----------------------------------------------------------------------------
(***************************************************************************)
(* Operations on drivers, each a single statement.                         *)
(***************************************************************************)

ApproveDriver(d) ==
  /\ "approve" \in Ops
  /\ profile[d] = "PENDING"
  /\ profile' = [profile EXCEPT ![d] = "APPROVED"]
  /\ UNCHANGED <<bookingRow, history, points, duty, pickupCount, req, lost>>

(* deleteDriver, rejectUser and deleteUser remove the Driver row; the      *)
(* foreign key Booking.driverId is ON DELETE SET NULL.                     *)
DeleteDriver(d) ==
  /\ "deleteDriver" \in Ops
  /\ profile[d] # "GONE"
  /\ profile' = [profile EXCEPT ![d] = "GONE"]
  /\ duty' = [duty EXCEPT ![d] = "OFFLINE"]
  /\ pickupCount' = [pickupCount EXCEPT ![d] = 0]
  /\ driverOf' = [b \in Bookings |-> IF driverOf[b] = d THEN NoDriver
                                                       ELSE driverOf[b]]
  /\ UNCHANGED <<status, weighed, priced, confirmed, history, points, req,
                 lost>>

(* DriverService.updateStatus: the driver sets ONLINE or OFFLINE.          *)
SetDuty(d, s) ==
  /\ "duty" \in Ops
  /\ profile[d] # "GONE"
  /\ s \in {"ONLINE", "OFFLINE"}
  /\ duty' = [duty EXCEPT ![d] = s]
  /\ UNCHANGED <<bookingRow, history, points, profile, pickupCount, req, lost>>

(* AdminService.updateDriver may overwrite the status and the count.       *)
EditDriver(d, s, n) ==
  /\ "editDriver" \in Ops
  /\ profile[d] # "GONE"
  /\ duty' = [duty EXCEPT ![d] = s]
  /\ pickupCount' = [pickupCount EXCEPT ![d] = n]
  /\ UNCHANGED <<bookingRow, history, points, profile, req, lost>>

-----------------------------------------------------------------------------
RequestStep(r) ==
  \/ UpdateRow(r) \/ DeleteRow(r) \/ RecordStatusHistory(r)
  \/ UpdateDriver(r) \/ AwardRead(r) \/ AwardPoints(r) \/ RowMissing(r)

DriverStep(d) ==
  \/ ApproveDriver(d)
  \/ DeleteDriver(d)
  \/ \E s \in Duties : SetDuty(d, s)
  \/ \E s \in Duties, n \in 0..MaxPickups : EditDriver(d, s, n)

Arrival(r, b) ==
  \/ \E d \in Drivers :
       \/ StartPickup(r, b, d)
       \/ CollectBooking(r, b, d)
       \/ CancelByDriver(r, b, d)
  \/ CancelByCustomer(r, b)
  \/ DeleteBooking(r, b)
  \/ \E body \in Bodies, auto \in BOOLEAN, tariff \in BOOLEAN :
       AdminUpdate(r, b, body, auto, tariff)
  \/ Backfill(r, b)

Next ==
  \/ \E b \in Bookings : CreateBooking(b)
  \/ \E r \in Requests, b \in Bookings : Arrival(r, b)
  \/ \E r \in Requests : RequestStep(r) \/ Fail(r)
  \/ \E d \in Drivers : DriverStep(d)

Spec == Init /\ [][Next]_vars

(* Node's event loop resumes a handler whose awaited call has answered.    *)
FairSpec == Spec /\ \A r \in Requests : WF_vars(RequestStep(r))

-----------------------------------------------------------------------------
(***************************************************************************)
(* Properties that hold whatever the interleaving of requests, failures    *)
(* and driver deletions.                                                   *)
(***************************************************************************)

(* A request that has completed booking b and has yet to award its points. *)
Awarding(r, b) ==
  /\ req[r].op = "admin" /\ req[r].b = b /\ req[r].to = "COMPLETED"
  /\ req[r].pc \in {"history", "awardRead", "award"}

(* A booking that is COMPLETED and has no points is still being awarded by *)
(* the request that completed it, unless a request on it failed half-way   *)
(* (then backfillMissingPoints is what repairs it): admins, drivers and    *)
(* customers racing on the booking never make updateBooking skip an award. *)
AwardIsOwed ==
  \A b \in Bookings :
    status[b] = "COMPLETED" /\ b \notin points =>
      b \in lost \/ \E r \in Requests : Awarding(r, b)

(* Status s of booking b is in the status history, or about to be written. *)
Recorded(b, s) ==
  \/ s \in history[b]
  \/ b \in lost
  \/ \E r \in Requests : /\ req[r].pc = "history"
                         /\ req[r].b = b /\ req[r].to = s

(* Every status that drivers and admins give a booking is recorded in the  *)
(* BookingStatusHistory, stale reads notwithstanding; only the customer's  *)
(* cancel changes the status without a history row.                        *)
HistoryCoversStatus ==
  \A b \in Bookings :
    Exists(b) /\ status[b] \notin {"CREATED", "CANCELLED"} =>
      Recorded(b, status[b])

(* Points are only ever given for a booking whose completion is on record: *)
(* an award that starts on a stale read, or a backfill racing with a       *)
(* cancellation, never rewards a booking that was not completed.           *)
PointsFollowCompletion ==
  \A b \in points : Recorded(b, "COMPLETED")

(* A COMPLETED booking has a confirmation time, though updateBooking       *)
(* decides from a stale read whether to write one.                         *)
CompletedIsConfirmed ==
  \A b \in Bookings : status[b] = "COMPLETED" => confirmed[b]

(* A booking in a status that requires a driver has one, as long as no     *)
(* driver was deleted: no race of assignments, edits and cancellations     *)
(* advances a booking that nobody is assigned to.                          *)
DriverBehindStatus ==
  \A b \in Bookings :
    status[b] \in DriverRequiredBookingStatuses /\ driverOf[b] = NoDriver =>
      \E d \in Drivers : profile[d] = "GONE"

(* The row of a booking has what its status calls for.                     *)
RowsAreComplete == CompletedIsConfirmed /\ DriverBehindStatus

(* The points of a completed booking arrive, or the booking is cancelled   *)
(* or removed, or the request that owes them failed.                       *)
PointsArrive ==
  \A b \in Bookings :
    status[b] = "COMPLETED" ~>
      (b \in points \/ b \in lost \/ status[b] # "COMPLETED")

(***************************************************************************)
(* Properties that hold when bookings are served one request at a time.    *)
(***************************************************************************)

(* Statuses change along BOOKING_STATUS_TRANSITIONS; the customer's cancel *)
(* is the only writer that does not consult the table.                     *)
FollowsTable ==
  \A b \in Bookings :
    Exists(b) /\ Exists(b)' /\ status'[b] # status[b] =>
      \/ <<status[b], status'[b]>> \in Transitions
      \/ /\ status'[b] = "CANCELLED"
         /\ \E r \in Requests : req[r].op = "cancel" /\ req[r].b = b

TransitionsFollowTable == [][FollowsTable]_vars

(* A COMPLETED booking has a weight, whatever edits came before or after   *)
(* its completion.                                                         *)
CompletedIsWeighed ==
  \A b \in Bookings : status[b] = "COMPLETED" => weighed[b]

(* A booking counts at most once towards the pickupCount of drivers, also  *)
(* when it is collected again, and when the handler fails in between: each *)
(* pickup counted can be put down to a booking of its own.                 *)
PickupOf(b, d) == d # NoDriver => status[b] = "DELETED" \/ "COLLECTED" \in history[b]

PickupsCountedOnce ==
  \E whose \in [Bookings -> Drivers \cup {NoDriver}] :
    /\ \A b \in Bookings : PickupOf(b, whose[b])
    /\ \A d \in Drivers : pickupCount[d] <= Cardinality({b \in Bookings : whose[b] = d})

(* A driver's request moves a booking only while the booking is that       *)
(* driver's (or has just lost its driver row).                             *)
DriverMovesOwnBooking ==
  \A b \in Bookings, r \in Requests :
    /\ req[r].pc = "write" /\ req[r].op \in DriverOps /\ req[r].b = b
    /\ Exists(b) /\ req'[r] # req[r] /\ bookingRow' # bookingRow
    => driverOf[b] \in {req[r].by, NoDriver}

(***************************************************************************)
(* What the repository says of bookings and the code does not keep.        *)
(***************************************************************************)

(* ai/knowledge/booking_lifecycle.md: a booking must have a final amount   *)
(* before completion.                                                      *)
CompletedHasAmount ==
  \A b \in Bookings : status[b] = "COMPLETED" => priced[b]
=============================================================================
