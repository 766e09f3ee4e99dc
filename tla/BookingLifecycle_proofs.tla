----------------------- MODULE BookingLifecycle_proofs -----------------------
(***************************************************************************)
(* Proofs about BookingLifecycle, for every set of bookings, drivers and   *)
(* request slots, every choice of operations and every bound.              *)
(***************************************************************************)
EXTENDS BookingServed, FiniteSetTheorems, TLAPS

(* What the program counter of a request says of its other fields.         *)
RequestOK(q) ==
  /\ q \in Request
  /\ q.pc # "idle" => q.b \in Bookings
  /\ q.pc = "write" =>
       /\ q.op \in DriverOps \cup {"cancel", "admin"}
       /\ q.from \in CanonicalStatuses
  /\ q.pc \in {"write", "history"} =>
       /\ q.to \in CanonicalStatuses
       /\ q.to = "COMPLETED" => q.op = "admin"
       /\ q.op \in DriverOps => q.by \in Drivers
       /\ q.op = "cancel" => q.to = "CANCELLED"
  /\ q.pc = "history" => q.op \in DriverOps \cup {"admin"}
  /\ q.pc = "driver" => q.op \in DriverOps /\ q.by \in Drivers

RequestsOK == \A r \in Requests : RequestOK(req[r])

TypeInv == TypeOK /\ RequestsOK

-----------------------------------------------------------------------------
(* The data of an update is well typed when its fields are.                *)
LEMMA DataOK ==
  ASSUME NEW d \in Drivers \cup {Unset}, NEW w \in Edits, NEW a \in Edits,
         NEW c \in BOOLEAN
  PROVE  Data(d, w, a, c) \in UpdateData
BY DEF Data, UpdateData

(* So is the empty update.                                                 *)
LEMMA NoDataOK == NoData \in UpdateData
BY DataOK DEF NoData, Edits

(* The idle request is well formed.                                        *)
LEMMA IdleOK == RequestOK(Idle) /\ Idle.pc = "idle"
BY NoDataOK DEF RequestOK, Request, Idle, Req, RequestOps, PCs

(* A request with well typed fields is a request.                          *)
LEMMA ReqType ==
  ASSUME NEW op \in RequestOps, NEW pc \in PCs, NEW b \in Bookings,
         NEW by \in Drivers \cup {NoDriver},
         NEW from \in CanonicalStatuses \cup {Unset},
         NEW to \in CanonicalStatuses \cup {Unset},
         NEW data \in UpdateData
  PROVE  Req(op, pc, b, by, from, to, data) \in Request
BY DEF Req, Request

(* The request that a handler leaves behind after its checks.              *)
LEMMA WritingOK ==
  ASSUME NEW b \in Bookings, Exists(b),
         NEW op \in DriverOps \cup {"cancel", "admin"},
         NEW d \in Drivers \cup {NoDriver}, op \in DriverOps => d \in Drivers,
         NEW to \in CanonicalStatuses, to = "COMPLETED" => op = "admin",
         op = "cancel" => to = "CANCELLED",
         NEW data \in UpdateData
  PROVE  RequestOK(Writing(op, b, d, to, data))
<1>1. op \in RequestOps /\ "write" \in PCs /\ status[b] \in CanonicalStatuses
  BY DEF RequestOps, DriverOps, PCs, Exists
<1>2. Writing(op, b, d, to, data) \in Request
  BY <1>1, ReqType DEF Writing
<1>. QED BY <1>1, <1>2 DEF RequestOK, Writing, Req

(* One request changes to a well formed one.                               *)
LEMMA OneRequest ==
  ASSUME TypeInv, NEW r \in Requests, NEW q, RequestOK(q),
         req' = [req EXCEPT ![r] = q]
  PROVE  RequestsOK' /\ req' \in [Requests -> Request]
<1>1. \A s \in Requests : req'[s] = IF s = r THEN q ELSE req[s]
  BY DEF TypeOK, TypeInv
<1>2. \A s \in Requests : RequestOK(req'[s])
  BY <1>1 DEF RequestsOK, TypeInv
<1>3. RequestsOK'
  BY <1>2 DEF RequestsOK, RequestOK, Request
<1>4. req' \in [Requests -> Request]
  BY <1>2 DEF RequestOK, TypeOK, TypeInv
<1>. QED BY <1>3, <1>4

(* The steps after the first leave a well formed request.                  *)
LEMMA GotoOK ==
  ASSUME TypeInv, NEW r \in Requests,
         NEW pc \in {"idle", "history", "driver", "awardRead"},
         req[r].pc # "idle",
         pc = "history" => req[r].pc = "write" /\ req[r].op # "cancel",
         pc = "driver" => req[r].pc = "history" /\ req[r].op \in DriverOps,
         Goto(r, pc)
  PROVE  RequestsOK' /\ req' \in [Requests -> Request]
<1> DEFINE q == Req(req[r].op, pc, req[r].b, req[r].by, Unset, req[r].to,
                    NoData)
<1>1. RequestOK(req[r])
  BY DEF TypeInv, RequestsOK
<1>2. CASE pc = "idle"
  BY <1>2, OneRequest, IdleOK DEF Goto
<1>3. CASE pc # "idle"
  <2>. /\ req[r].op \in RequestOps /\ req[r].by \in Drivers \cup {NoDriver}
       /\ req[r].to \in CanonicalStatuses \cup {Unset}
       /\ req[r].b \in Bookings /\ pc \in PCs
    BY <1>1 DEF RequestOK, Request, PCs
  <2>1. q \in Request
    BY NoDataOK, ReqType
  <2>2. /\ q.op = req[r].op /\ q.pc = pc /\ q.b = req[r].b
        /\ q.by = req[r].by /\ q.to = req[r].to
    BY DEF Req
  <2>3. RequestOK(q)
    BY <1>1, <1>3, <2>1, <2>2 DEF RequestOK
  <2>. QED BY <1>3, <2>3, OneRequest DEF Goto
<1>. QED BY <1>2, <1>3

(* Editing a nullable column leaves it null or not null.                   *)
LEMMA AppliedType ==
  ASSUME NEW e \in Edits, NEW old \in BOOLEAN
  PROVE  Applied(e, old) \in BOOLEAN
BY DEF Edits, Applied

(* A request arrives: it changes its slot and nothing else.                *)
LEMMA ArriveType ==
  ASSUME TypeInv, NEW r \in Requests, NEW q, RequestOK(q), Arrive(r, q)
  PROVE  TypeInv'
<1>1. RequestsOK' /\ req' \in [Requests -> Request]
  BY OneRequest DEF Arrive
<1>. QED BY <1>1 DEF Arrive, TypeInv, TypeOK, bookingRow, driverRow

(* The first steps of the requests keep the type invariant.                *)
LEMMA ArrivalType ==
  ASSUME TypeInv, NEW r \in Requests, NEW b \in Bookings, Arrival(r, b)
  PROVE  TypeInv'
<1>1. ASSUME NEW d \in Drivers, StartPickup(r, b, d) PROVE TypeInv'
  BY <1>1, WritingOK, NoDataOK, ArriveType
     DEF StartPickup, AssignedTo, DriverOps, CanonicalStatuses
<1>2. ASSUME NEW d \in Drivers, CollectBooking(r, b, d) PROVE TypeInv'
  <2>1. Data(Unset, "value", "value", FALSE) \in UpdateData
    BY DataOK DEF Edits
  <2>. QED
    BY <1>2, <2>1, WritingOK, ArriveType
       DEF CollectBooking, AssignedTo, DriverOps, CanonicalStatuses
<1>3. ASSUME NEW d \in Drivers, CancelByDriver(r, b, d) PROVE TypeInv'
  BY <1>3, WritingOK, NoDataOK, ArriveType
     DEF CancelByDriver, AssignedTo, DriverOps, CanonicalStatuses
<1>4. CASE CancelByCustomer(r, b)
  BY <1>4, WritingOK, NoDataOK, ArriveType
     DEF CancelByCustomer, DriverOps, CanonicalStatuses
<1>5. CASE DeleteBooking(r, b)
  <2>1. RequestOK(Req("delete", "remove", b, NoDriver, Unset, Unset, NoData))
    BY ReqType, NoDataOK DEF RequestOK, Req, RequestOps, PCs
  <2>. QED BY <1>5, <2>1, ArriveType DEF DeleteBooking
<1>6. ASSUME NEW body \in Bodies, NEW auto \in BOOLEAN,
             NEW tariff \in BOOLEAN, AdminUpdate(r, b, body, auto, tariff)
      PROVE  TypeInv'
  <2> DEFINE next == NextStatus(b, body, auto)
             driver == IF body.driver \in Drivers THEN body.driver ELSE Unset
             amount == AmountEdit(b, body, tariff)
             confirm == Confirms(b, next)
  <2>1. body \in AdminBody
    BY ConstantsAssumption
  <2>2. Exists(b)
    BY <1>6 DEF AdminUpdate
  <2>3. next \in CanonicalStatuses
    BY <2>1, <2>2 DEF NextStatus, AdminBody, Exists, CanonicalStatuses
  <2>4. driver \in Drivers \cup {Unset} /\ confirm \in BOOLEAN
    BY DEF Confirms
  <2>5. body.weight \in Edits /\ amount \in Edits
    BY <2>1 DEF AdminBody, AmountEdit, Edits
  <2>6. Data(driver, body.weight, amount, confirm) \in UpdateData
    BY <2>4, <2>5, DataOK
  <2>7. RequestOK(Writing("admin", b, NoDriver, next,
                          Data(driver, body.weight, amount, confirm)))
    BY <2>2, <2>3, <2>6, WritingOK DEF DriverOps
  <2>. QED BY <1>6, <2>7, ArriveType DEF AdminUpdate
<1>7. CASE Backfill(r, b)
  <2>1. RequestOK(Req("backfill", "awardRead", b, NoDriver, Unset, Unset,
                      NoData))
    BY ReqType, NoDataOK DEF RequestOK, Req, RequestOps, PCs
  <2>. QED BY <1>7, <2>1, ArriveType DEF Backfill
<1>. QED BY <1>1, <1>2, <1>3, <1>4, <1>5, <1>6, <1>7 DEF Arrival

(* What AfterWrite and AfterHistory can answer.                            *)
LEMMA NextStep ==
  ASSUME NEW q, RequestOK(q)
  PROVE  /\ q.pc = "write" =>
              /\ AfterWrite(q) \in {"idle", "history"}
              /\ AfterWrite(q) = "history" => q.op # "cancel"
         /\ q.pc = "history" =>
              /\ AfterHistory(q) \in {"idle", "driver", "awardRead"}
              /\ AfterHistory(q) = "driver" => q.op \in DriverOps
BY DEF RequestOK, AfterWrite, AfterHistory, DriverOps

(* The later steps of a request keep the type invariant.                   *)
LEMMA RequestStepType ==
  ASSUME TypeInv, NEW r \in Requests, RequestStep(r) \/ Fail(r)
  PROVE  TypeInv'
<1> DEFINE q == req[r]
<1>1. RequestOK(q) /\ q \in Request
  BY DEF TypeInv, RequestsOK, RequestOK
<1>2. CASE UpdateRow(r)
  <2>1. q.pc = "write" /\ q.b \in Bookings /\ q.to \in CanonicalStatuses
    BY <1>1, <1>2 DEF UpdateRow, RequestOK
  <2>2. q.data.weight \in Edits /\ q.data.amount \in Edits
        /\ q.data.confirm \in BOOLEAN
    BY <1>1 DEF Request, UpdateData
  <2>3. RequestsOK' /\ req' \in [Requests -> Request]
    BY <1>1, <1>2, <2>1, NextStep, GotoOK DEF UpdateRow
  <2>4. status' \in [Bookings -> RowStatuses]
    BY <1>2, <2>1 DEF UpdateRow, TypeInv, TypeOK, RowStatuses
  <2>5. driverOf' \in [Bookings -> Drivers \cup {NoDriver}]
    BY <1>2 DEF UpdateRow, TypeInv, TypeOK
  <2>6. weighed' \in [Bookings -> BOOLEAN]
    BY <1>2, <2>1, <2>2, AppliedType DEF UpdateRow, TypeInv, TypeOK
  <2>7. priced' \in [Bookings -> BOOLEAN]
    BY <1>2, <2>1, <2>2, AppliedType DEF UpdateRow, TypeInv, TypeOK
  <2>8. confirmed' \in [Bookings -> BOOLEAN]
    BY <1>2, <2>1, <2>2 DEF UpdateRow, TypeInv, TypeOK
  <2>. QED
    BY <1>2, <2>3, <2>4, <2>5, <2>6, <2>7, <2>8
       DEF UpdateRow, TypeInv, TypeOK, driverRow
<1>3. CASE DeleteRow(r)
  <2>1. RequestsOK' /\ req' \in [Requests -> Request]
    BY <1>3, GotoOK DEF DeleteRow
  <2>. QED
    BY <1>3, <2>1 DEF DeleteRow, TypeInv, TypeOK, driverRow, RowStatuses
<1>4. CASE RecordStatusHistory(r)
  <2>1. q.pc = "history" /\ q.b \in Bookings /\ q.to \in CanonicalStatuses
    BY <1>1, <1>4 DEF RecordStatusHistory, RequestOK
  <2>2. RequestsOK' /\ req' \in [Requests -> Request]
    BY <1>1, <1>4, <2>1, NextStep, GotoOK DEF RecordStatusHistory
  <2>3. history' \in [Bookings -> SUBSET CanonicalStatuses]
    BY <1>4, <2>1 DEF RecordStatusHistory, TypeInv, TypeOK
  <2>. QED
    BY <1>4, <2>2, <2>3
       DEF RecordStatusHistory, TypeInv, TypeOK, driverRow, bookingRow
<1>5. CASE UpdateDriver(r)
  <2>1. RequestsOK' /\ req' \in [Requests -> Request]
    BY <1>5, GotoOK DEF UpdateDriver
  <2>2. (IF q.op = "start" THEN "ON_PICKUP" ELSE "ONLINE") \in Duties
    BY DEF Duties
  <2>3. duty' \in [Drivers -> Duties]
    BY <1>5, <2>2 DEF UpdateDriver, TypeInv, TypeOK
  <2>4. pickupCount' \in [Drivers -> Nat]
    <3>1. pickupCount \in [Drivers -> Nat]
      BY DEF TypeInv, TypeOK
    <3>2. \A n \in Nat : (IF q.op = "collect" THEN n + 1 ELSE n) \in Nat
      OBVIOUS
    <3>. QED BY <1>5, <3>1, <3>2 DEF UpdateDriver
  <2>. QED
    BY <1>5, <2>1, <2>3, <2>4 DEF UpdateDriver, TypeInv, TypeOK, bookingRow
<1>6. CASE AwardRead(r)
  <2> DEFINE p == Req(q.op, "award", q.b, q.by, Unset, q.to,
                      Data(Unset, "keep", "keep", ~confirmed[q.b]))
  <2>1. /\ q.op \in RequestOps /\ q.by \in Drivers \cup {NoDriver}
        /\ q.to \in CanonicalStatuses \cup {Unset}
        /\ q.b \in Bookings /\ "award" \in PCs
    BY <1>1, <1>6 DEF RequestOK, Request, PCs, AwardRead
  <2>2. Data(Unset, "keep", "keep", ~confirmed[q.b]) \in UpdateData
    BY DataOK DEF Edits
  <2>3. p \in Request
    BY <2>1, <2>2, ReqType
  <2>4. RequestOK(p)
    BY <2>1, <2>3 DEF RequestOK, Req
  <2>5. RequestsOK' /\ req' \in [Requests -> Request]
    BY <1>6, <2>4, OneRequest, IdleOK DEF AwardRead
  <2>. QED
    BY <1>6, <2>5 DEF AwardRead, TypeInv, TypeOK, bookingRow, driverRow
<1>7. CASE AwardPoints(r)
  <2>1. RequestsOK' /\ req' \in [Requests -> Request]
    BY <1>7, GotoOK DEF AwardPoints
  <2>2. q.b \in Bookings /\ q.data.confirm \in BOOLEAN
    BY <1>1, <1>7 DEF RequestOK, AwardPoints, Request, UpdateData
  <2>3. confirmed' \in [Bookings -> BOOLEAN] /\ points' \subseteq Bookings
    BY <1>7, <2>2 DEF AwardPoints, TypeInv, TypeOK
  <2>. QED
    BY <1>7, <2>1, <2>3 DEF AwardPoints, TypeInv, TypeOK, driverRow
<1>8. CASE RowMissing(r)
  <2>1. RequestsOK' /\ req' \in [Requests -> Request]
    BY <1>8, GotoOK DEF RowMissing
  <2>. QED
    BY <1>8, <2>1 DEF RowMissing, TypeInv, TypeOK, bookingRow, driverRow
<1>9. CASE Fail(r)
  <2>1. RequestsOK' /\ req' \in [Requests -> Request]
    BY <1>9, GotoOK DEF Fail
  <2>2. lost' \subseteq Bookings
    BY <1>1, <1>9 DEF Fail, RequestOK, TypeInv, TypeOK
  <2>. QED
    BY <1>9, <2>1, <2>2 DEF Fail, TypeInv, TypeOK, bookingRow, driverRow
<1>. QED
  BY <1>2, <1>3, <1>4, <1>5, <1>6, <1>7, <1>8, <1>9 DEF RequestStep

(* Creations and the operations on drivers leave every request alone.      *)
LEMMA SingleStepType ==
  ASSUME TypeInv,
         \/ \E b \in Bookings : CreateBooking(b)
         \/ \E d \in Drivers : DriverStep(d)
  PROVE  TypeInv'
<1>1. ASSUME NEW b \in Bookings, CreateBooking(b) PROVE TypeInv'
  BY <1>1 DEF CreateBooking, TypeInv, TypeOK, RequestsOK, RequestOK, Request,
              RowStatuses, CanonicalStatuses
<1>2. ASSUME NEW d \in Drivers, DriverStep(d) PROVE TypeInv'
  <2>1. RequestsOK' /\ req' \in [Requests -> Request]
    BY <1>2 DEF DriverStep, ApproveDriver, DeleteDriver, SetDuty, EditDriver,
                TypeInv, TypeOK, RequestsOK, RequestOK, Request
  <2>2. CASE ApproveDriver(d)
    BY <2>1, <2>2 DEF ApproveDriver, TypeInv, TypeOK, bookingRow, Profiles
  <2>3. CASE DeleteDriver(d)
    BY <2>1, <2>3 DEF DeleteDriver, TypeInv, TypeOK, Profiles, Duties
  <2>4. CASE \E s \in Duties : SetDuty(d, s)
    BY <2>1, <2>4 DEF SetDuty, TypeInv, TypeOK, bookingRow
  <2>5. CASE \E s \in Duties, n \in 0..MaxPickups : EditDriver(d, s, n)
    BY <2>1, <2>5, ConstantsAssumption
       DEF EditDriver, TypeInv, TypeOK, bookingRow
  <2>. QED BY <1>2, <2>2, <2>3, <2>4, <2>5 DEF DriverStep
<1>. QED BY <1>1, <1>2

(* Type correctness, strengthened with what each program counter implies.  *)
LEMMA TypeInvariant == Spec => []TypeInv
<1>1. Init => TypeInv
  <2> SUFFICES ASSUME Init PROVE TypeInv
    OBVIOUS
  <2>1. RequestsOK
    BY IdleOK DEF Init, RequestsOK
  <2>2. req \in [Requests -> Request]
    BY IdleOK DEF Init, RequestOK
  <2>. QED
    BY <2>1, <2>2 DEF Init, TypeInv, TypeOK, RowStatuses, Profiles, Duties
<1>2. TypeInv /\ [Next]_vars => TypeInv'
  <2> SUFFICES ASSUME TypeInv, [Next]_vars PROVE TypeInv'
    OBVIOUS
  <2>1. CASE Next
    BY <2>1, ArrivalType, RequestStepType, SingleStepType DEF Next
  <2>2. CASE UNCHANGED vars
    BY <2>2 DEF vars, TypeInv, TypeOK, RequestsOK, RequestOK, Request
  <2>. QED BY <2>1, <2>2
<1>. QED BY <1>1, <1>2, PTL DEF Spec

(* Every reachable state of the rows and requests is well typed, so no     *)
(* handler ever writes a status, driver or edit of another kind.           *)
THEOREM TypeCorrect == Spec => []TypeOK
BY TypeInvariant, PTL DEF TypeInv
-----------------------------------------------------------------------------
(***************************************************************************)
(* AwardIsOwed is inductive: a request leaves the steps of Awarding only   *)
(* by awarding, by failing, or because the booking is no longer COMPLETED. *)
(***************************************************************************)

(* A step of one request leaves the other requests alone.                  *)
LEMMA OthersKeep ==
  ASSUME TypeInv, NEW r \in Requests,
         \/ \E b \in Bookings : Arrival(r, b)
         \/ RequestStep(r)
         \/ Fail(r)
  PROVE  \A s \in Requests \ {r} : req'[s] = req[s]
<1>1. ASSUME NEW b \in Bookings, Arrival(r, b)
      PROVE  \A s \in Requests \ {r} : req'[s] = req[s]
  BY <1>1 DEF Arrival, Arrive, StartPickup, CollectBooking, CancelByDriver,
              CancelByCustomer, DeleteBooking, AdminUpdate, Backfill,
              TypeInv, TypeOK
<1>2. CASE RequestStep(r) \/ Fail(r)
  BY <1>2 DEF RequestStep, UpdateRow, DeleteRow, RecordStatusHistory,
              UpdateDriver, AwardRead, AwardPoints, RowMissing, Fail, Goto,
              TypeInv, TypeOK
<1>. QED BY <1>1, <1>2

(* An arriving request takes a free slot and changes no row.               *)
LEMMA ArrivalFrame ==
  ASSUME TypeInv, NEW r \in Requests, NEW b \in Bookings, Arrival(r, b)
  PROVE  /\ req[r].pc = "idle"
         /\ UNCHANGED <<bookingRow, history, points, driverRow, lost>>
BY IdleOK DEF Arrival, Arrive, StartPickup, CollectBooking, CancelByDriver,
              CancelByCustomer, DeleteBooking, AdminUpdate, Backfill

(* What Goto leaves in the slot.                                           *)
LEMMA GotoSlot ==
  ASSUME TypeInv, NEW r \in Requests, NEW pc, pc # "idle", Goto(r, pc)
  PROVE  /\ req'[r].pc = pc /\ req'[r].op = req[r].op
         /\ req'[r].b = req[r].b /\ req'[r].to = req[r].to
BY DEF Goto, Req, TypeInv, TypeOK

(* Every step keeps the award owed.                                        *)
LEMMA AwardStep ==
  ASSUME TypeInv, AwardIsOwed, [Next]_vars
  PROVE  AwardIsOwed'
<1> SUFFICES ASSUME NEW b \in Bookings, status'[b] = "COMPLETED",
                    b \notin points', b \notin lost'
             PROVE  \E s \in Requests : Awarding(s, b)'
  BY DEF AwardIsOwed
<1>1. ASSUME NEW r \in Requests, NEW c \in Bookings, Arrival(r, c)
      PROVE  \E s \in Requests : Awarding(s, b)'
  BY <1>1, ArrivalFrame, OthersKeep DEF AwardIsOwed, Awarding, bookingRow
<1>2. ASSUME NEW r \in Requests, UpdateRow(r)
      PROVE  \E s \in Requests : Awarding(s, b)'
  <2>1. RequestOK(req[r]) /\ req[r].pc = "write"
    BY <1>2 DEF UpdateRow, TypeInv, RequestsOK
  <2>2. CASE b = req[r].b /\ WritesStatus(req[r])
    <3>1. req[r].to = "COMPLETED" /\ req[r].op = "admin"
      BY <1>2, <2>1, <2>2 DEF UpdateRow, TypeInv, TypeOK, RequestOK
    <3>2. AfterWrite(req[r]) = "history"
      BY <3>1, <2>2 DEF AfterWrite, WritesStatus
    <3>3. Awarding(r, b)'
      BY <1>2, <2>2, <3>1, <3>2, GotoSlot DEF UpdateRow, Awarding
    <3>. QED BY <3>3
  <2>3. CASE ~(b = req[r].b /\ WritesStatus(req[r]))
    <3>1. status[b] = "COMPLETED"
      BY <1>2, <2>3 DEF UpdateRow, TypeInv, TypeOK
    <3>2. PICK s \in Requests : Awarding(s, b)
      BY <1>2, <3>1 DEF AwardIsOwed, UpdateRow
    <3>3. s # r
      BY <2>1, <3>2 DEF Awarding
    <3>. QED BY <1>2, <3>2, <3>3, OthersKeep DEF Awarding, RequestStep
  <2>. QED BY <2>2, <2>3
<1>3. ASSUME NEW r \in Requests, DeleteRow(r)
      PROVE  \E s \in Requests : Awarding(s, b)'
  <2>1. status[b] = "COMPLETED" /\ b # req[r].b /\ b \notin points
    BY <1>3 DEF DeleteRow, TypeInv, TypeOK
  <2>2. PICK s \in Requests : Awarding(s, b)
    BY <1>3, <2>1 DEF AwardIsOwed, DeleteRow
  <2>. QED
    BY <1>3, <2>1, <2>2, OthersKeep DEF Awarding, RequestStep, DeleteRow
<1>4. ASSUME NEW r \in Requests, RecordStatusHistory(r)
      PROVE  \E s \in Requests : Awarding(s, b)'
  <2>1. PICK s \in Requests : Awarding(s, b)
    BY <1>4 DEF AwardIsOwed, RecordStatusHistory, bookingRow
  <2>2. CASE s = r
    <3>1. AfterHistory(req[r]) = "awardRead"
      BY <2>1, <2>2 DEF AfterHistory, Awarding, DriverOps
    <3>. QED
      BY <1>4, <2>1, <2>2, <3>1, GotoSlot DEF Awarding, RecordStatusHistory
  <2>3. CASE s # r
    BY <1>4, <2>1, <2>3, OthersKeep DEF Awarding, RequestStep
  <2>. QED BY <2>2, <2>3
<1>5. ASSUME NEW r \in Requests, UpdateDriver(r)
      PROVE  \E s \in Requests : Awarding(s, b)'
  <2>1. PICK s \in Requests : Awarding(s, b)
    BY <1>5 DEF AwardIsOwed, UpdateDriver, bookingRow
  <2>. QED
    BY <1>5, <2>1, OthersKeep DEF Awarding, RequestStep, UpdateDriver
<1>6. ASSUME NEW r \in Requests, AwardRead(r)
      PROVE  \E s \in Requests : Awarding(s, b)'
  <2>1. PICK s \in Requests : Awarding(s, b)
    BY <1>6 DEF AwardIsOwed, AwardRead, bookingRow
  <2>2. CASE s = r
    <3>1. status[b] = "COMPLETED" /\ req[r].b = b
      BY <1>6, <2>1, <2>2 DEF AwardRead, bookingRow, Awarding
    <3>2. Awarding(r, b)'
      BY <1>6, <2>1, <2>2, <3>1
         DEF AwardRead, Awarding, Req, TypeInv, TypeOK
    <3>. QED BY <3>2
  <2>3. CASE s # r
    BY <1>6, <2>1, <2>3, OthersKeep DEF Awarding, RequestStep
  <2>. QED BY <2>2, <2>3
<1>7. ASSUME NEW r \in Requests, AwardPoints(r)
      PROVE  \E s \in Requests : Awarding(s, b)'
  <2>1. b # req[r].b /\ b \notin points
    BY <1>7 DEF AwardPoints
  <2>2. PICK s \in Requests : Awarding(s, b)
    BY <1>7, <2>1 DEF AwardIsOwed, AwardPoints
  <2>. QED BY <1>7, <2>1, <2>2, OthersKeep DEF Awarding, RequestStep
<1>8. ASSUME NEW r \in Requests, RowMissing(r)
      PROVE  \E s \in Requests : Awarding(s, b)'
  <2>1. PICK s \in Requests : Awarding(s, b)
    BY <1>8 DEF AwardIsOwed, RowMissing, bookingRow
  <2>2. Exists(b)
    BY <1>8 DEF RowMissing, bookingRow, Exists, CanonicalStatuses
  <2>3. s # r
    BY <1>8, <2>1, <2>2 DEF RowMissing, Awarding
  <2>. QED BY <1>8, <2>1, <2>3, OthersKeep DEF Awarding, RequestStep
<1>9. ASSUME NEW r \in Requests, Fail(r)
      PROVE  \E s \in Requests : Awarding(s, b)'
  <2>1. PICK s \in Requests : Awarding(s, b)
    BY <1>9 DEF AwardIsOwed, Fail, bookingRow
  <2>2. Exists(b)
    BY <1>9 DEF Fail, bookingRow, Exists, CanonicalStatuses
  <2>3. s # r
    BY <1>9, <2>1, <2>2 DEF Fail, Awarding
  <2>. QED BY <1>9, <2>1, <2>3, OthersKeep DEF Awarding
<1>10. ASSUME NEW c \in Bookings, CreateBooking(c)
       PROVE  \E s \in Requests : Awarding(s, b)'
  BY <1>10 DEF CreateBooking, AwardIsOwed, Awarding, TypeInv, TypeOK
<1>11. ASSUME NEW d \in Drivers, DriverStep(d)
       PROVE  \E s \in Requests : Awarding(s, b)'
  BY <1>11 DEF DriverStep, ApproveDriver, DeleteDriver, SetDuty, EditDriver,
               AwardIsOwed, Awarding, bookingRow
<1>12. CASE UNCHANGED vars
  BY <1>12 DEF vars, AwardIsOwed, Awarding
<1>. QED
  BY <1>1, <1>2, <1>3, <1>4, <1>5, <1>6, <1>7, <1>8, <1>9, <1>10, <1>11,
     <1>12 DEF Next, RequestStep

(* No interleaving of admins, drivers, customers, failures and removals    *)
(* makes updateBooking skip the award of a booking it completed: either    *)
(* the points are there, or the request that owes them is still running,   *)
(* or one has failed on the booking.                                       *)
THEOREM AwardNeverSkipped == Spec => []AwardIsOwed
<1>1. Init => AwardIsOwed
  BY DEF Init, AwardIsOwed
<1>2. TypeInv /\ AwardIsOwed /\ [Next]_vars => AwardIsOwed'
  BY AwardStep
<1>. QED BY <1>1, <1>2, TypeInvariant, PTL DEF Spec
-----------------------------------------------------------------------------
(***************************************************************************)
(* The status history.  HistoryCoversStatus is not inductive: a driver who *)
(* collects a booking again writes COLLECTED and no history row, so what   *)
(* that request read must be recorded already.  And points need the award  *)
(* in progress to have seen a recorded completion.                         *)
(***************************************************************************)
RecollectRecorded ==
  \A r \in Requests :
    LET q == req[r]
    IN  q.pc = "write" /\ q.op = "collect" /\ q.from = q.to /\ Exists(q.b)
        => Recorded(q.b, q.to)

AwardRecorded ==
  \A r \in Requests :
    req[r].pc = "award" /\ Exists(req[r].b) => Recorded(req[r].b, "COMPLETED")

PointsExist == \A b \in points : Exists(b)

RequestsSawBooking ==
  \A r \in Requests : req[r].pc # "idle" => status[req[r].b] # "ABSENT"

HistoryInv ==
  /\ HistoryCoversStatus
  /\ RequestsSawBooking
  /\ RecollectRecorded
  /\ AwardRecorded
  /\ PointsExist
  /\ PointsFollowCompletion

(* A slot changes by an arrival, a step or a failure of its own request.   *)
LEMMA SlotChange ==
  ASSUME TypeInv, [Next]_vars, NEW t \in Requests, req'[t] # req[t]
  PROVE  \/ \E b \in Bookings : Arrival(t, b)
         \/ RequestStep(t)
         \/ Fail(t)
<1>1. ASSUME NEW r \in Requests, NEW c \in Bookings, Arrival(r, c)
      PROVE  r = t
  BY <1>1, OthersKeep
<1>2. ASSUME NEW r \in Requests, RequestStep(r) \/ Fail(r)
      PROVE  r = t
  BY <1>2, OthersKeep
<1>3. ASSUME NEW c \in Bookings, CreateBooking(c)
      PROVE  FALSE
  BY <1>3 DEF CreateBooking
<1>4. ASSUME NEW d \in Drivers, DriverStep(d)
      PROVE  FALSE
  BY <1>4 DEF DriverStep, ApproveDriver, DeleteDriver, SetDuty, EditDriver
<1>5. CASE UNCHANGED vars
  BY <1>5 DEF vars
<1>. QED BY <1>1, <1>2, <1>3, <1>4, <1>5 DEF Next

(* What is recorded of a booking stays recorded while its row exists.      *)
LEMMA RecordedStable ==
  ASSUME TypeInv, [Next]_vars, NEW b \in Bookings, Exists(b), Exists(b)',
         NEW s, Recorded(b, s)
  PROVE  Recorded(b, s)'
<1>1. CASE s \in history[b] \/ b \in lost
  <2>1. history[b] \subseteq history'[b] /\ lost \subseteq lost'
    <3>1. ASSUME NEW r \in Requests, NEW c \in Bookings, Arrival(r, c)
          PROVE  history' = history /\ lost' = lost
      BY <3>1, ArrivalFrame
    <3>2. ASSUME NEW r \in Requests, RequestStep(r) \/ Fail(r)
          PROVE  history[b] \subseteq history'[b] /\ lost \subseteq lost'
      BY <3>2 DEF RequestStep, UpdateRow, DeleteRow, RecordStatusHistory,
                  UpdateDriver, AwardRead, AwardPoints, RowMissing, Fail,
                  TypeInv, TypeOK, Exists, CanonicalStatuses
    <3>3. ASSUME NEW c \in Bookings, CreateBooking(c)
          PROVE  history' = history /\ lost' = lost
      BY <3>3 DEF CreateBooking
    <3>4. ASSUME NEW d \in Drivers, DriverStep(d)
          PROVE  history' = history /\ lost' = lost
      BY <3>4 DEF DriverStep, ApproveDriver, DeleteDriver, SetDuty, EditDriver
    <3>5. CASE UNCHANGED vars
      BY <3>5 DEF vars
    <3>. QED BY <3>1, <3>2, <3>3, <3>4, <3>5 DEF Next
  <2>. QED BY <1>1, <2>1 DEF Recorded
<1>2. CASE \E t \in Requests : /\ req[t].pc = "history"
                              /\ req[t].b = b /\ req[t].to = s
  <2>1. PICK t \in Requests : /\ req[t].pc = "history"
                              /\ req[t].b = b /\ req[t].to = s
    BY <1>2
  <2>2. CASE req'[t] = req[t]
    BY <2>1, <2>2 DEF Recorded
  <2>3. CASE req'[t] # req[t]
    <3>1. RequestStep(t) \/ Fail(t)
      BY <2>1, <2>3, SlotChange, ArrivalFrame
    <3>2. RecordStatusHistory(t) \/ Fail(t)
      BY <3>1, <2>1 DEF RequestStep, UpdateRow, DeleteRow, UpdateDriver,
                        AwardRead, AwardPoints, RowMissing
    <3>. QED
      BY <3>2, <2>1 DEF RecordStatusHistory, Fail, Recorded, TypeInv, TypeOK
  <2>. QED BY <2>2, <2>3
<1>. QED BY <1>1, <1>2 DEF Recorded

(* How the row of a booking can change in a step.                          *)
LEMMA StatusChange ==
  ASSUME TypeInv, [Next]_vars, NEW b \in Bookings, status'[b] # status[b]
  PROVE  \/ status'[b] = "CREATED" /\ status[b] = "ABSENT"
         \/ status'[b] = "DELETED"
         \/ \E r \in Requests : /\ UpdateRow(r) /\ req[r].b = b
                                /\ WritesStatus(req[r])
                                /\ status'[b] = req[r].to
<1>1. ASSUME NEW r \in Requests, NEW c \in Bookings, Arrival(r, c)
      PROVE  FALSE
  BY <1>1, ArrivalFrame DEF bookingRow
<1>2. ASSUME NEW r \in Requests, UpdateRow(r)
      PROVE  /\ req[r].b = b /\ WritesStatus(req[r])
             /\ status'[b] = req[r].to
  BY <1>2 DEF UpdateRow, TypeInv, TypeOK
<1>3. ASSUME NEW r \in Requests, DeleteRow(r)
      PROVE  status'[b] = "DELETED"
  BY <1>3 DEF DeleteRow, TypeInv, TypeOK
<1>4. ASSUME NEW r \in Requests,
             \/ RecordStatusHistory(r) \/ UpdateDriver(r) \/ AwardRead(r)
             \/ AwardPoints(r) \/ RowMissing(r) \/ Fail(r)
      PROVE  FALSE
  BY <1>4 DEF RecordStatusHistory, UpdateDriver, AwardRead, AwardPoints,
              RowMissing, Fail, bookingRow
<1>5. ASSUME NEW c \in Bookings, CreateBooking(c)
      PROVE  status'[b] = "CREATED" /\ status[b] = "ABSENT"
  BY <1>5 DEF CreateBooking, TypeInv, TypeOK
<1>6. ASSUME NEW d \in Drivers, DriverStep(d)
      PROVE  FALSE
  BY <1>6 DEF DriverStep, ApproveDriver, DeleteDriver, SetDuty, EditDriver,
              bookingRow
<1>7. CASE UNCHANGED vars
  BY <1>7 DEF vars
<1>. QED
  BY <1>1, <1>2, <1>3, <1>4, <1>5, <1>6, <1>7 DEF Next, RequestStep

(* Only DeleteRow removes a booking's row.                                 *)
LEMMA DeletedBy ==
  ASSUME TypeInv, [Next]_vars, NEW b \in Bookings, status'[b] # status[b],
         status'[b] = "DELETED"
  PROVE  \E r \in Requests : DeleteRow(r) /\ req[r].b = b
<1>1. \A u \in Requests : UpdateRow(u) => req[u].to # "DELETED"
  BY DEF UpdateRow, TypeInv, RequestsOK, RequestOK, CanonicalStatuses
<1>2. ASSUME NEW r \in Requests, NEW c \in Bookings, Arrival(r, c)
      PROVE  FALSE
  BY <1>2, ArrivalFrame DEF bookingRow
<1>3. ASSUME NEW r \in Requests, RequestStep(r) \/ Fail(r)
      PROVE  DeleteRow(r) /\ req[r].b = b
  BY <1>1, <1>3 DEF RequestStep, UpdateRow, DeleteRow, RecordStatusHistory,
     UpdateDriver, AwardRead, AwardPoints, RowMissing, Fail, bookingRow,
     TypeInv, TypeOK
<1>4. ASSUME NEW c \in Bookings, CreateBooking(c)
      PROVE  FALSE
  BY <1>4 DEF CreateBooking, TypeInv, TypeOK
<1>5. ASSUME NEW d \in Drivers, DriverStep(d)
      PROVE  FALSE
  BY <1>5 DEF DriverStep, ApproveDriver, DeleteDriver, SetDuty, EditDriver,
              bookingRow
<1>6. CASE UNCHANGED vars
  BY <1>6 DEF vars
<1>. QED BY <1>2, <1>3, <1>4, <1>5, <1>6 DEF Next

(* A booking that exists and is not just being created existed before.     *)
LEMMA ExistedBefore ==
  ASSUME TypeInv, [Next]_vars, NEW b \in Bookings, Exists(b)',
         status[b] # "ABSENT"
  PROVE  Exists(b)
<1>1. CASE status'[b] = status[b]
  BY <1>1 DEF Exists
<1>2. CASE status'[b] # status[b]
  <2>1. \E r \in Requests : UpdateRow(r) /\ req[r].b = b
    BY <1>2, StatusChange DEF Exists, CanonicalStatuses
  <2>. QED BY <2>1 DEF UpdateRow
<1>. QED BY <1>1, <1>2

(* An arriving request found its booking, and remembers its status.        *)
LEMMA ArrivalSlot ==
  ASSUME TypeInv, NEW r \in Requests, NEW b \in Bookings, Arrival(r, b)
  PROVE  /\ req'[r].b = b /\ Exists(b)
         /\ req'[r].pc \in {"write", "remove", "awardRead"}
         /\ req'[r].pc = "write" => req'[r].from = status[b]
         /\ req'[r].op = "collect" => req'[r].to = "COLLECTED"
<1>1. ASSUME NEW q, Arrive(r, q)
      PROVE  req'[r] = q
  BY <1>1 DEF Arrive, TypeInv, TypeOK
<1>2. ASSUME NEW d \in Drivers, StartPickup(r, b, d)
      PROVE  /\ req'[r] = Writing("start", b, d, "IN_PROGRESS", NoData)
             /\ Exists(b)
  BY <1>1, <1>2 DEF StartPickup, AssignedTo
<1>3. ASSUME NEW d \in Drivers, CollectBooking(r, b, d)
      PROVE  /\ req'[r] = Writing("collect", b, d, "COLLECTED",
                                  Data(Unset, "value", "value", FALSE))
             /\ Exists(b)
  BY <1>1, <1>3 DEF CollectBooking, AssignedTo
<1>4. ASSUME NEW d \in Drivers, CancelByDriver(r, b, d)
      PROVE  /\ req'[r] = Writing("driverCancel", b, d, "CANCELLED", NoData)
             /\ Exists(b)
  BY <1>1, <1>4 DEF CancelByDriver, AssignedTo
<1>5. CASE CancelByCustomer(r, b)
  BY <1>1, <1>5 DEF CancelByCustomer, Writing, Req
<1>6. CASE DeleteBooking(r, b)
  BY <1>1, <1>6 DEF DeleteBooking, Req
<1>7. ASSUME NEW body, NEW auto, NEW tariff,
             AdminUpdate(r, b, body, auto, tariff)
      PROVE  /\ Exists(b)
             /\ \E to, data :
                  req'[r] = Writing("admin", b, NoDriver, to, data)
  BY <1>1, <1>7 DEF AdminUpdate
<1>8. CASE Backfill(r, b)
  BY <1>1, <1>8 DEF Backfill, Exists, CanonicalStatuses, Req
<1>9. \A op, by, to, data :
        LET q == Writing(op, b, by, to, data)
        IN  /\ q.op = op /\ q.b = b /\ q.pc = "write"
            /\ q.from = status[b] /\ q.to = to
  BY DEF Writing, Req
<1>10. ASSUME NEW d \in Drivers,
              \/ StartPickup(r, b, d) \/ CollectBooking(r, b, d)
              \/ CancelByDriver(r, b, d)
       PROVE  /\ req'[r].b = b /\ Exists(b) /\ req'[r].pc = "write"
              /\ req'[r].from = status[b]
              /\ req'[r].op = "collect" => req'[r].to = "COLLECTED"
  <2>1. CASE StartPickup(r, b, d)
    BY <1>2, <1>9, <2>1
  <2>2. CASE CollectBooking(r, b, d)
    <3>1. PICK data : req'[r] = Writing("collect", b, d, "COLLECTED", data)
      BY <1>3, <2>2
    <3>2. Exists(b)
      BY <1>3, <2>2
    <3>. QED BY <3>1, <3>2 DEF Writing, Req
  <2>3. CASE CancelByDriver(r, b, d)
    BY <1>4, <1>9, <2>3
  <2>. QED BY <1>10, <2>1, <2>2, <2>3
<1>11. ASSUME NEW body, NEW auto, NEW tariff,
              AdminUpdate(r, b, body, auto, tariff)
       PROVE  /\ req'[r].b = b /\ Exists(b) /\ req'[r].pc = "write"
              /\ req'[r].from = status[b] /\ req'[r].op = "admin"
  BY <1>7, <1>9, <1>11
<1>. QED BY <1>5, <1>6, <1>8, <1>10, <1>11 DEF Arrival

(* Every step keeps the history invariant, conjunct by conjunct.           *)
LEMMA HistoryStep ==
  ASSUME TypeInv, HistoryInv, [Next]_vars
  PROVE  HistoryInv'
<1>. USE DEF HistoryInv
<1>1. HistoryCoversStatus'
  <2> SUFFICES ASSUME NEW b \in Bookings, Exists(b)',
                      status'[b] \notin {"CREATED", "CANCELLED"}
               PROVE  Recorded(b, status[b])'
    BY DEF HistoryCoversStatus
  <2>1. CASE status'[b] = status[b]
    <3>1. Exists(b) /\ Recorded(b, status[b])
      BY <2>1 DEF Exists, HistoryCoversStatus
    <3>2. Recorded(b, status'[b])
      BY <3>1, <2>1
    <3>3. \A x : Recorded(b, x) => Recorded(b, x)'
      BY <3>1, RecordedStable
    <3>. QED BY <3>2, <3>3 DEF Recorded
  <2>2. CASE status'[b] # status[b]
    <3>1. PICK r \in Requests : /\ UpdateRow(r) /\ req[r].b = b
                               /\ WritesStatus(req[r])
                               /\ status'[b] = req[r].to
      BY <2>2, StatusChange DEF Exists, CanonicalStatuses
    <3>2. RequestOK(req[r]) /\ req[r].pc = "write" /\ Exists(b)
      BY <3>1 DEF TypeInv, RequestsOK, UpdateRow
    <3>3. req[r].op \in {"start", "collect", "driverCancel", "admin"}
      BY <3>1, <3>2 DEF RequestOK, DriverOps
    <3>4. CASE req[r].op = "collect" /\ req[r].from = req[r].to
      <4>1. Recorded(b, req[r].to)
        BY <3>1, <3>2, <3>4 DEF RecollectRecorded
      <4>2. \A x : Recorded(b, x) => Recorded(b, x)'
        BY <3>2, RecordedStable
      <4>. QED BY <4>1, <4>2, <3>1 DEF Recorded
    <3>5. CASE ~(req[r].op = "collect" /\ req[r].from = req[r].to)
      <4>1. AfterWrite(req[r]) = "history"
        BY <3>1, <3>3, <3>5 DEF AfterWrite, WritesStatus
      <4>2. /\ req'[r].pc = "history" /\ req'[r].b = b
            /\ req'[r].to = status'[b]
        BY <3>1, <4>1, GotoSlot DEF UpdateRow
      <4>. QED BY <4>2 DEF Recorded
    <3>. QED BY <3>4, <3>5
  <2>. QED BY <2>1, <2>2
<1>2. RequestsSawBooking'
  <2> SUFFICES ASSUME NEW r \in Requests, req'[r].pc # "idle"
               PROVE  status'[req'[r].b] # "ABSENT"
    BY DEF RequestsSawBooking
  <2>1. req'[r].b \in Bookings /\ status[req'[r].b] # "ABSENT"
    <3>1. CASE req'[r] = req[r]
      BY <3>1 DEF RequestsSawBooking, TypeInv, RequestsOK, RequestOK
    <3>2. ASSUME NEW b \in Bookings, Arrival(r, b)
          PROVE  req'[r].b = b /\ status[b] # "ABSENT"
      BY <3>2, ArrivalSlot DEF Exists, CanonicalStatuses
    <3>3. CASE RequestStep(r) \/ Fail(r)
      <4>1. req[r].pc # "idle"
        BY <3>3 DEF RequestStep, UpdateRow, DeleteRow, RecordStatusHistory,
                    UpdateDriver, AwardRead, AwardPoints, RowMissing, Fail
      <4>2. req'[r].b = req[r].b
        BY <3>3, IdleOK
           DEF RequestStep, UpdateRow, DeleteRow, RecordStatusHistory,
               UpdateDriver, AwardRead, AwardPoints, RowMissing, Fail, Goto,
               Req, TypeInv, TypeOK
      <4>. QED
        BY <4>1, <4>2 DEF RequestsSawBooking, TypeInv, RequestsOK, RequestOK
    <3>. QED BY <3>1, <3>2, <3>3, SlotChange
  <2>2. CASE status'[req'[r].b] = status[req'[r].b]
    BY <2>1, <2>2
  <2>3. CASE status'[req'[r].b] # status[req'[r].b]
    <3>1. \/ status'[req'[r].b] \in {"CREATED", "DELETED"}
          \/ \E u \in Requests : /\ UpdateRow(u)
                                 /\ status'[req'[r].b] = req[u].to
      BY <2>1, <2>3, StatusChange
    <3>2. \A u \in Requests : UpdateRow(u) => req[u].to # "ABSENT"
      BY DEF UpdateRow, TypeInv, RequestsOK, RequestOK, CanonicalStatuses
    <3>. QED BY <3>1, <3>2
  <2>. QED BY <2>2, <2>3
<1>3. RecollectRecorded'
  <2> SUFFICES ASSUME NEW r \in Requests, NEW b, b = req'[r].b,
                      req'[r].pc = "write", req'[r].op = "collect",
                      req'[r].from = req'[r].to, Exists(b)'
               PROVE  Recorded(b, req[r].to)'
    BY DEF RecollectRecorded, Exists, Recorded
  <2>1. CASE req'[r] = req[r]
    <3>1. b \in Bookings /\ status[b] # "ABSENT"
      BY <2>1 DEF RequestsSawBooking, TypeInv, RequestsOK, RequestOK
    <3>2. Exists(b)
      BY <3>1, ExistedBefore
    <3>3. Recorded(b, req[r].to)
      BY <2>1, <3>2 DEF RecollectRecorded
    <3>4. \A x : Recorded(b, x) => Recorded(b, x)'
      BY <3>1, <3>2, RecordedStable
    <3>. QED BY <2>1, <3>3, <3>4 DEF Recorded
  <2>2. CASE req'[r] # req[r]
    <3>1. PICK c \in Bookings : Arrival(r, c)
      <4>1. ~(RequestStep(r) \/ Fail(r))
        BY <2>2, IdleOK
           DEF RequestStep, UpdateRow, DeleteRow, RecordStatusHistory,
               UpdateDriver, AwardRead, AwardPoints, RowMissing, Fail, Goto,
               Req, TypeInv, TypeOK, AfterWrite, AfterHistory
      <4>. QED BY <2>2, <4>1, SlotChange
    <3>2. c = b /\ Exists(b) /\ req'[r].from = status[b]
      BY <3>1, ArrivalSlot
    <3>3. req'[r].to = "COLLECTED"
      BY <3>1, ArrivalSlot
    <3>4. Recorded(b, "COLLECTED")
      BY <3>2, <3>3 DEF HistoryCoversStatus
    <3>5. \A x : Recorded(b, x) => Recorded(b, x)'
      BY <3>2, RecordedStable
    <3>. QED BY <3>3, <3>4, <3>5 DEF Recorded
  <2>. QED BY <2>1, <2>2
<1>4. AwardRecorded'
  <2> SUFFICES ASSUME NEW r \in Requests, NEW b, b = req'[r].b,
                      req'[r].pc = "award", Exists(b)'
               PROVE  Recorded(b, "COMPLETED")'
    BY DEF AwardRecorded, Exists, Recorded
  <2>1. b \in Bookings /\ Exists(b) /\ Recorded(b, "COMPLETED")
    <3>1. CASE req'[r] = req[r]
      <4>1. b \in Bookings /\ status[b] # "ABSENT"
        BY <3>1 DEF RequestsSawBooking, TypeInv, RequestsOK, RequestOK
      <4>2. Exists(b)
        BY <4>1, ExistedBefore
      <4>. QED BY <3>1, <4>1, <4>2 DEF AwardRecorded
    <3>2. CASE AwardRead(r)
      <4>1. b = req[r].b /\ status[b] = "COMPLETED" /\ b \in Bookings
        BY <3>2, IdleOK DEF AwardRead, Req, TypeInv, TypeOK, RequestsOK,
                            RequestOK
      <4>. QED BY <4>1 DEF HistoryCoversStatus, Exists, CanonicalStatuses
    <3>3. CASE req'[r] # req[r] /\ ~AwardRead(r)
      <4>1. ~(RequestStep(r) \/ Fail(r))
        BY <3>3, IdleOK
           DEF RequestStep, UpdateRow, DeleteRow, RecordStatusHistory,
               UpdateDriver, AwardPoints, RowMissing, Fail, Goto,
               Req, TypeInv, TypeOK, AfterWrite, AfterHistory
      <4>2. \A c \in Bookings : ~Arrival(r, c)
        BY ArrivalSlot
      <4>. QED BY <3>3, <4>1, <4>2, SlotChange
    <3>. QED BY <3>1, <3>2, <3>3
  <2>2. \A x : Recorded(b, x) => Recorded(b, x)'
    BY <2>1, RecordedStable
  <2>. QED BY <2>1, <2>2
<1>5. PointsExist' /\ PointsFollowCompletion'
  <2> SUFFICES ASSUME NEW b \in points'
               PROVE  Exists(b)' /\ Recorded(b, "COMPLETED")'
    BY DEF PointsExist, PointsFollowCompletion
  <2>1. \/ b \in points
        \/ \E r \in Requests : AwardPoints(r) /\ req[r].b = b
    <3>1. ASSUME NEW r \in Requests, NEW c \in Bookings, Arrival(r, c)
          PROVE  points' = points
      BY <3>1, ArrivalFrame
    <3>2. ASSUME NEW r \in Requests, RequestStep(r) \/ Fail(r)
          PROVE  points' \subseteq points \/ AwardPoints(r)
      BY <3>2 DEF RequestStep, UpdateRow, DeleteRow, RecordStatusHistory,
                  UpdateDriver, AwardRead, RowMissing, Fail
    <3>3. ASSUME NEW c \in Bookings, CreateBooking(c)
          PROVE  points' = points
      BY <3>3 DEF CreateBooking
    <3>4. ASSUME NEW d \in Drivers, DriverStep(d)
          PROVE  points' = points
      BY <3>4 DEF DriverStep, ApproveDriver, DeleteDriver, SetDuty, EditDriver
    <3>5. CASE UNCHANGED vars
      BY <3>5 DEF vars
    <3>6. \A r \in Requests : AwardPoints(r) => points' = points \cup {req[r].b}
      BY DEF AwardPoints
    <3>. QED BY <3>1, <3>2, <3>3, <3>4, <3>5, <3>6 DEF Next
  <2>2. b \in Bookings /\ Exists(b) /\ Recorded(b, "COMPLETED")
    <3>1. CASE b \in points
      BY <3>1 DEF PointsExist, PointsFollowCompletion, TypeInv, TypeOK
    <3>2. ASSUME NEW r \in Requests, AwardPoints(r), req[r].b = b
          PROVE  b \in Bookings /\ Exists(b) /\ Recorded(b, "COMPLETED")
      BY <3>2 DEF AwardPoints, AwardRecorded, TypeInv, RequestsOK, RequestOK
    <3>. QED BY <2>1, <3>1, <3>2
  <2>3. Exists(b)'
    <3>1. CASE status'[b] = status[b]
      BY <2>2, <3>1 DEF Exists
    <3>2. CASE status'[b] # status[b]
      <4>1. status'[b] # "DELETED"
        <5>1. \A r \in Requests : DeleteRow(r) => req[r].b # b
          BY DEF DeleteRow
        <5>2. ASSUME status'[b] = "DELETED"
              PROVE  \E r \in Requests : DeleteRow(r) /\ req[r].b = b
          BY <3>2, <5>2, <2>2, DeletedBy DEF Exists
        <5>. QED BY <5>1, <5>2
      <4>2. \A u \in Requests : UpdateRow(u) => req[u].to \in CanonicalStatuses
        BY DEF UpdateRow, TypeInv, RequestsOK, RequestOK
      <4>3. "CREATED" \in CanonicalStatuses
        BY DEF CanonicalStatuses
      <4>. QED BY <2>2, <3>2, <4>1, <4>2, <4>3, StatusChange DEF Exists
    <3>. QED BY <3>1, <3>2
  <2>4. \A x : Recorded(b, x) => Recorded(b, x)'
    BY <2>2, <2>3, RecordedStable
  <2>. QED BY <2>2, <2>3, <2>4
<1>. QED BY <1>1, <1>2, <1>3, <1>4, <1>5

(* The history invariant holds in every reachable state.                   *)
LEMMA HistoryInvariant == Spec => []HistoryInv
<1>1. Init => HistoryInv
  BY IdleOK DEF Init, HistoryInv, HistoryCoversStatus, RequestsSawBooking,
     RecollectRecorded, AwardRecorded, PointsExist, PointsFollowCompletion,
     Exists, CanonicalStatuses
<1>2. TypeInv /\ HistoryInv /\ [Next]_vars => HistoryInv'
  BY HistoryStep
<1>. QED BY <1>1, <1>2, TypeInvariant, PTL DEF Spec

(* Whatever drivers and admins make of a booking is in its history, or is  *)
(* about to be, or a request on the booking failed.                        *)
THEOREM HistoryComplete == Spec => []HistoryCoversStatus
BY HistoryInvariant, PTL DEF HistoryInv

(* No booking is rewarded whose completion was never recorded.             *)
THEOREM RewardedWasCompleted == Spec => []PointsFollowCompletion
BY HistoryInvariant, PTL DEF HistoryInv
-----------------------------------------------------------------------------
(***************************************************************************)
(* The rows of bookings.  RowsAreComplete is not inductive: a request      *)
(* writes what it decided from the row it read, so what it is about to     *)
(* write, or the row meanwhile, must have what its status calls for.       *)
(***************************************************************************)
SomeDriverGone == \E d \in Drivers : profile[d] = "GONE"

CompletionsConfirm ==
  \A r \in Requests :
    req[r].pc = "write" /\ req[r].to = "COMPLETED" =>
      \/ req[r].data.confirm
      \/ confirmed[req[r].b]
      \/ status[req[r].b] = "DELETED"

AdvancesHaveDriver ==
  \A r \in Requests :
    req[r].pc = "write" /\ req[r].to \in DriverRequiredBookingStatuses =>
      \/ req[r].data.driver \in Drivers
      \/ driverOf[req[r].b] # NoDriver
      \/ status[req[r].b] = "DELETED"
      \/ SomeDriverGone

RowsInv == RowsAreComplete /\ CompletionsConfirm /\ AdvancesHaveDriver

(* A request's steps after its first leave a request that is not writing.  *)
LEMMA NoWriteAgain ==
  ASSUME TypeInv, NEW r \in Requests, RequestStep(r) \/ Fail(r)
  PROVE  req'[r].pc # "write"
<1>1. RequestOK(req[r])
  BY DEF TypeInv, RequestsOK
<1>2. ASSUME NEW pc, pc # "write", Goto(r, pc)
      PROVE  req'[r].pc # "write"
  BY <1>2, IdleOK DEF Goto, Req, TypeInv, TypeOK
<1>3. CASE UpdateRow(r)
  <2>1. AfterWrite(req[r]) # "write"
    BY <1>1, <1>3, NextStep DEF UpdateRow
  <2>. QED BY <1>2, <1>3, <2>1 DEF UpdateRow
<1>4. CASE RecordStatusHistory(r)
  <2>1. AfterHistory(req[r]) # "write"
    BY <1>1, <1>4, NextStep DEF RecordStatusHistory
  <2>. QED BY <1>2, <1>4, <2>1 DEF RecordStatusHistory
<1>5. CASE AwardRead(r)
  BY <1>5, IdleOK DEF AwardRead, Req, TypeInv, TypeOK
<1>6. CASE DeleteRow(r) \/ UpdateDriver(r) \/ AwardPoints(r) \/ RowMissing(r) \/ Fail(r)
  BY <1>2, <1>6 DEF DeleteRow, UpdateDriver, AwardPoints, RowMissing, Fail
<1>. QED BY <1>3, <1>4, <1>5, <1>6 DEF RequestStep

(* A driver's row that is gone stays gone, and so does a booking's.        *)
LEMMA GoneStays ==
  ASSUME TypeInv, [Next]_vars
  PROVE  /\ SomeDriverGone => SomeDriverGone'
         /\ \A b \in Bookings : status[b] = "DELETED" => status'[b] = "DELETED"
<1>1. SomeDriverGone => SomeDriverGone'
  <2>1. ASSUME NEW r \in Requests, NEW c \in Bookings, Arrival(r, c)
        PROVE  profile' = profile
    BY <2>1, ArrivalFrame DEF driverRow
  <2>2. ASSUME NEW r \in Requests, RequestStep(r) \/ Fail(r)
        PROVE  profile' = profile
    BY <2>2 DEF RequestStep, UpdateRow, DeleteRow, RecordStatusHistory,
                UpdateDriver, AwardRead, AwardPoints, RowMissing, Fail, driverRow
  <2>3. ASSUME NEW c \in Bookings, CreateBooking(c)
        PROVE  profile' = profile
    BY <2>3 DEF CreateBooking
  <2>4. ASSUME NEW d \in Drivers, DriverStep(d)
        PROVE  \A e \in Drivers : profile[e] = "GONE" => profile'[e] = "GONE"
    BY <2>4 DEF DriverStep, ApproveDriver, DeleteDriver, SetDuty, EditDriver, TypeInv, TypeOK
  <2>5. CASE UNCHANGED vars
    BY <2>5 DEF vars, SomeDriverGone
  <2>. QED BY <2>1, <2>2, <2>3, <2>4, <2>5 DEF Next, SomeDriverGone
<1>2. ASSUME NEW b \in Bookings, status[b] = "DELETED", status'[b] # "DELETED"
      PROVE  FALSE
  <2>1. \E r \in Requests : UpdateRow(r) /\ req[r].b = b
    BY <1>2, StatusChange
  <2>. QED BY <1>2, <2>1 DEF UpdateRow, Exists, CanonicalStatuses
<1>. QED BY <1>1, <1>2

(* Nothing takes back a confirmation but the removal of the row.           *)
LEMMA ConfirmedStays ==
  ASSUME TypeInv, [Next]_vars, NEW b \in Bookings, confirmed[b]
  PROVE  confirmed'[b] \/ status'[b] = "DELETED"
<1>1. ASSUME NEW r \in Requests, NEW c \in Bookings, Arrival(r, c)
      PROVE  confirmed' = confirmed
  BY <1>1, ArrivalFrame DEF bookingRow
<1>2. ASSUME NEW r \in Requests, DeleteRow(r)
      PROVE  confirmed'[b] \/ status'[b] = "DELETED"
  BY <1>2 DEF DeleteRow, TypeInv, TypeOK
<1>3. ASSUME NEW r \in Requests, UpdateRow(r) \/ AwardPoints(r)
      PROVE  confirmed'[b]
  BY <1>3 DEF UpdateRow, AwardPoints, TypeInv, TypeOK
<1>4. ASSUME NEW r \in Requests,
             \/ RecordStatusHistory(r) \/ UpdateDriver(r) \/ AwardRead(r)
             \/ RowMissing(r) \/ Fail(r)
      PROVE  confirmed' = confirmed
  BY <1>4 DEF RecordStatusHistory, UpdateDriver, AwardRead, RowMissing, Fail, bookingRow
<1>5. ASSUME NEW c \in Bookings, CreateBooking(c)
      PROVE  confirmed' = confirmed
  BY <1>5 DEF CreateBooking
<1>6. ASSUME NEW d \in Drivers, DriverStep(d)
      PROVE  confirmed' = confirmed
  BY <1>6 DEF DriverStep, ApproveDriver, DeleteDriver, SetDuty, EditDriver, bookingRow
<1>7. CASE UNCHANGED vars
  BY <1>7 DEF vars
<1>. QED BY <1>1, <1>2, <1>3, <1>4, <1>5, <1>6, <1>7 DEF Next, RequestStep

(* Nothing takes the driver from a booking but the removal of one of them. *)
LEMMA DriverStays ==
  ASSUME TypeInv, [Next]_vars, NEW b \in Bookings, driverOf[b] # NoDriver
  PROVE  driverOf'[b] # NoDriver \/ status'[b] = "DELETED" \/ SomeDriverGone'
<1>1. ASSUME NEW r \in Requests, NEW c \in Bookings, Arrival(r, c)
      PROVE  driverOf' = driverOf
  BY <1>1, ArrivalFrame DEF bookingRow
<1>2. ASSUME NEW r \in Requests, DeleteRow(r)
      PROVE  driverOf'[b] # NoDriver \/ status'[b] = "DELETED"
  BY <1>2 DEF DeleteRow, TypeInv, TypeOK
<1>3. ASSUME NEW r \in Requests, UpdateRow(r)
      PROVE  driverOf'[b] # NoDriver
  BY <1>3, ConstantsAssumption DEF UpdateRow, TypeInv, TypeOK
<1>4. ASSUME NEW r \in Requests,
             \/ RecordStatusHistory(r) \/ UpdateDriver(r) \/ AwardRead(r)
             \/ AwardPoints(r) \/ RowMissing(r) \/ Fail(r)
      PROVE  driverOf' = driverOf
  BY <1>4 DEF RecordStatusHistory, UpdateDriver, AwardRead, AwardPoints, RowMissing,
              Fail, bookingRow
<1>5. ASSUME NEW c \in Bookings, CreateBooking(c)
      PROVE  driverOf' = driverOf
  BY <1>5 DEF CreateBooking
<1>6. ASSUME NEW d \in Drivers, DriverStep(d)
      PROVE  driverOf' = driverOf \/ SomeDriverGone'
  BY <1>6 DEF DriverStep, ApproveDriver, DeleteDriver, SetDuty, EditDriver, bookingRow,
              SomeDriverGone, TypeInv, TypeOK
<1>7. CASE UNCHANGED vars
  BY <1>7 DEF vars
<1>. QED BY <1>1, <1>2, <1>3, <1>4, <1>5, <1>6, <1>7 DEF Next, RequestStep

(* A request that arrives to complete a booking confirms it, if it is not  *)
(* confirmed; one that arrives to advance it brings a driver, if none is   *)
(* there.                                                                  *)
LEMMA ArrivalDecides ==
  ASSUME TypeInv, NEW r \in Requests, NEW b \in Bookings, Arrival(r, b),
         req'[r].pc = "write"
  PROVE  /\ req'[r].b = b
         /\ req'[r].to = "COMPLETED" => req'[r].data.confirm \/ confirmed[b]
         /\ req'[r].to \in DriverRequiredBookingStatuses =>
              req'[r].data.driver \in Drivers \/ driverOf[b] # NoDriver
<1>1. ASSUME NEW q, Arrive(r, q)
      PROVE  req'[r] = q
  BY <1>1 DEF Arrive, TypeInv, TypeOK
<1>2. ASSUME NEW op, NEW d, NEW to, NEW data, Arrive(r, Writing(op, b, d, to, data))
      PROVE  req'[r].to = to /\ req'[r].data = data
  BY <1>1, <1>2 DEF Writing, Req
<1>3. req'[r].b = b
  BY ArrivalSlot
<1>4. ASSUME NEW d \in Drivers, StartPickup(r, b, d) \/ CollectBooking(r, b, d)
      PROVE  req'[r].to # "COMPLETED" /\ driverOf[b] # NoDriver
  <2>1. CASE StartPickup(r, b, d)
    BY <1>2, <2>1, ConstantsAssumption DEF StartPickup, AssignedTo
  <2>2. CASE CollectBooking(r, b, d)
    <3>1. \E data : Arrive(r, Writing("collect", b, d, "COLLECTED", data))
      BY <2>2 DEF CollectBooking
    <3>. QED BY <1>2, <2>2, <3>1, ConstantsAssumption DEF CollectBooking, AssignedTo
  <2>. QED BY <1>4, <2>1, <2>2
<1>5. ASSUME NEW d \in Drivers, CancelByDriver(r, b, d)
      PROVE  req'[r].to = "CANCELLED"
  BY <1>2, <1>5 DEF CancelByDriver
<1>6. CASE CancelByCustomer(r, b)
  BY <1>2, <1>3, <1>6 DEF CancelByCustomer, DriverRequiredBookingStatuses
<1>7. CASE DeleteBooking(r, b) \/ Backfill(r, b)
  BY <1>1, <1>7 DEF DeleteBooking, Backfill, Req
<1>8. ASSUME NEW body \in Bodies, NEW auto \in BOOLEAN, NEW tariff \in BOOLEAN,
             AdminUpdate(r, b, body, auto, tariff)
      PROVE  /\ req'[r].to = "COMPLETED" => req'[r].data.confirm \/ confirmed[b]
             /\ req'[r].to \in DriverRequiredBookingStatuses =>
                  req'[r].data.driver \in Drivers \/ driverOf[b] # NoDriver
  <2> DEFINE next == NextStatus(b, body, auto)
             driver == IF body.driver \in Drivers THEN body.driver ELSE Unset
             amount == AmountEdit(b, body, tariff)
             confirm == Confirms(b, next)
  <2>1. /\ next \in DriverRequiredBookingStatuses => HasDriver(b, body)
        /\ Arrive(r, Writing("admin", b, NoDriver, next,
                             Data(driver, body.weight, amount, confirm)))
    BY <1>8 DEF AdminUpdate
  <2>2. req'[r].to = next /\ req'[r].data = Data(driver, body.weight, amount, confirm)
    BY <1>2, <2>1
  <2>3. req'[r].data.driver = driver /\ req'[r].data.confirm = confirm
    BY <2>2 DEF Data
  <2>4. next = "COMPLETED" => confirm \/ confirmed[b]
    BY DEF Confirms
  <2>5. HasDriver(b, body) => driver \in Drivers \/ driverOf[b] # NoDriver
    BY ConstantsAssumption DEF HasDriver
  <2>. QED BY <2>1, <2>2, <2>3, <2>4, <2>5
<1>. QED
  BY <1>3, <1>4, <1>5, <1>6, <1>7, <1>8 DEF Arrival, DriverRequiredBookingStatuses

(* Every step keeps the invariant of the rows, conjunct by conjunct.       *)
LEMMA RowsStep ==
  ASSUME TypeInv, RowsInv, [Next]_vars
  PROVE  RowsInv'
<1>. USE DEF RowsInv
<1>1. CompletedIsConfirmed'
  <2> SUFFICES ASSUME NEW b \in Bookings, status'[b] = "COMPLETED"
               PROVE  confirmed'[b]
    BY DEF CompletedIsConfirmed
  <2>1. CASE status[b] = status'[b]
    BY <2>1, ConfirmedStays DEF RowsAreComplete, CompletedIsConfirmed
  <2>2. CASE status[b] # status'[b]
    <3>1. PICK r \in Requests : UpdateRow(r) /\ req[r].b = b /\ req[r].to = "COMPLETED"
      BY <2>2, StatusChange
    <3>2. req[r].pc = "write" /\ status[b] # "DELETED"
      BY <3>1 DEF UpdateRow, Exists, CanonicalStatuses
    <3>3. req[r].data.confirm \/ confirmed[b]
      BY <3>1, <3>2 DEF CompletionsConfirm
    <3>. QED BY <3>1, <3>3 DEF UpdateRow, TypeInv, TypeOK
  <2>. QED BY <2>1, <2>2
<1>2. DriverBehindStatus'
  <2> SUFFICES ASSUME NEW b \in Bookings, status'[b] \in DriverRequiredBookingStatuses,
                      driverOf'[b] = NoDriver, ~SomeDriverGone'
               PROVE  FALSE
    BY DEF DriverBehindStatus, SomeDriverGone
  <2>1. driverOf[b] = NoDriver /\ ~SomeDriverGone
    BY DriverStays, GoneStays DEF DriverRequiredBookingStatuses
  <2>2. CASE status[b] = status'[b]
    BY <2>1, <2>2 DEF RowsAreComplete, DriverBehindStatus, SomeDriverGone
  <2>3. CASE status[b] # status'[b]
    <3>1. PICK r \in Requests : UpdateRow(r) /\ req[r].b = b /\ req[r].to = status'[b]
      BY <2>3, StatusChange DEF DriverRequiredBookingStatuses
    <3>2. req[r].pc = "write" /\ status[b] # "DELETED"
      BY <3>1 DEF UpdateRow, Exists, CanonicalStatuses
    <3>3. req[r].data.driver \in Drivers
      BY <2>1, <3>1, <3>2 DEF AdvancesHaveDriver
    <3>. QED BY <3>1, <3>3, ConstantsAssumption DEF UpdateRow, TypeInv, TypeOK
  <2>. QED BY <2>2, <2>3
<1>3. CompletionsConfirm' /\ AdvancesHaveDriver'
  <2> SUFFICES ASSUME NEW r \in Requests, req'[r].pc = "write"
               PROVE  /\ req'[r].to = "COMPLETED" =>
                           \/ req'[r].data.confirm \/ confirmed'[req'[r].b]
                           \/ status'[req'[r].b] = "DELETED"
                      /\ req'[r].to \in DriverRequiredBookingStatuses =>
                           \/ req'[r].data.driver \in Drivers
                           \/ driverOf'[req'[r].b] # NoDriver
                           \/ status'[req'[r].b] = "DELETED" \/ SomeDriverGone'
    BY DEF CompletionsConfirm, AdvancesHaveDriver
  <2>1. CASE req'[r] = req[r]
    <3>1. req[r].b \in Bookings
      BY <2>1 DEF TypeInv, RequestsOK, RequestOK
    <3>2. /\ req[r].to = "COMPLETED" =>
               \/ req[r].data.confirm \/ confirmed[req[r].b]
               \/ status[req[r].b] = "DELETED"
          /\ req[r].to \in DriverRequiredBookingStatuses =>
               \/ req[r].data.driver \in Drivers \/ driverOf[req[r].b] # NoDriver
               \/ status[req[r].b] = "DELETED" \/ SomeDriverGone
      BY <2>1 DEF CompletionsConfirm, AdvancesHaveDriver
    <3>. QED BY <2>1, <3>1, <3>2, ConfirmedStays, DriverStays, GoneStays
  <2>2. CASE req'[r] # req[r]
    <3>1. PICK b \in Bookings : Arrival(r, b)
      BY <2>2, SlotChange, NoWriteAgain
    <3>2. confirmed' = confirmed /\ driverOf' = driverOf
      BY <3>1, ArrivalFrame DEF bookingRow
    <3>. QED BY <3>1, <3>2, ArrivalDecides
  <2>. QED BY <2>1, <2>2
<1>. QED BY <1>1, <1>2, <1>3 DEF RowsAreComplete

(* However admins, drivers and customers interleave, fail and delete, a    *)
(* COMPLETED booking has its confirmation time, and a booking advanced to  *)
(* a status that needs a driver has one unless a driver was deleted.       *)
THEOREM RowsComplete == Spec => []RowsAreComplete
<1>1. Init => RowsInv
  <2> SUFFICES ASSUME Init PROVE RowsInv
    OBVIOUS
  <2>1. \A b \in Bookings : status[b] = "ABSENT"
    BY DEF Init
  <2>2. \A r \in Requests : req[r].pc # "write"
    BY IdleOK DEF Init
  <2>. QED
    BY <2>1, <2>2 DEF RowsInv, RowsAreComplete, CompletedIsConfirmed, DriverBehindStatus,
                      DriverRequiredBookingStatuses, CompletionsConfirm, AdvancesHaveDriver
<1>2. TypeInv /\ RowsInv /\ [Next]_vars => RowsInv'
  BY RowsStep
<1>3. RowsInv => RowsAreComplete
  BY DEF RowsInv
<1>. QED BY <1>1, <1>2, <1>3, TypeInvariant, PTL DEF Spec
-----------------------------------------------------------------------------
(***************************************************************************)
(* Requests served one at a time.  What MovesAlone and RowsAlone need of a *)
(* request under way: the row still is as the request read it, so the      *)
(* checks made on what was read hold of the row that is written.           *)
(***************************************************************************)
SlotsAlone == \A r, s \in Requests : r # s => req[r] = Idle \/ req[s] = Idle

WriteSaw(q) ==
  q.pc = "write" =>
    /\ status[q.b] = q.from
    /\ \/ q.op = "cancel" /\ q.to = "CANCELLED"
       \/ q.from = q.to
       \/ <<q.from, q.to>> \in Transitions
    /\ q.op \in DriverOps => driverOf[q.b] \in {q.by, NoDriver}
    /\ q.to = "COMPLETED" => Applied(q.data.weight, weighed[q.b])
    /\ q.op = "collect" => q.to = "COLLECTED"

Early == {"ABSENT", "CREATED", "ASSIGNED", "IN_PROGRESS"}

HistoryFollows(q) ==
  /\ q.pc = "history" => status[q.b] = q.to
  /\ q.pc = "history" /\ q.op = "collect" =>
       q.to = "COLLECTED" /\ "COLLECTED" \notin history[q.b]
  /\ q.pc = "driver" /\ q.op = "collect" => "COLLECTED" \in history[q.b]

NotYetCollected ==
  \A b \in Bookings : status[b] \in Early => "COLLECTED" \notin history[b]

AloneInv ==
  /\ SlotsAlone
  /\ \A r \in Requests : WriteSaw(req[r]) /\ HistoryFollows(req[r])
  /\ NotYetCollected
  /\ CompletedIsWeighed

(* What a role may do is in the table of all transitions.                  *)
LEMMA RoleInTable ==
  ASSUME NEW role \in Actors, NEW from \in CanonicalStatuses, NEW to \in CanonicalStatuses,
         RoleCanTransition(role, from, to)
  PROVE  from = to \/ <<from, to>> \in Transitions
BY DEF RoleCanTransition, CanTransition, NormalizeBookingStatus, CanonicalStatuses

(* No transition of the table leads back before the collection.            *)
LEMMA TableGoesForward ==
  ASSUME NEW from \in CanonicalStatuses, from \notin Early, NEW to, <<from, to>> \in Transitions
  PROVE  to \notin Early
BY DEF Transitions, Early, CanonicalStatuses

(* A request's own step or failure changes its program counter.            *)
LEMMA StepMoves ==
  ASSUME TypeInv, NEW r \in Requests, RequestStep(r) \/ Fail(r)
  PROVE  req[r].pc # "idle" /\ req'[r].pc # req[r].pc
<1>1. RequestOK(req[r])
  BY DEF TypeInv, RequestsOK
<1>2. ASSUME NEW pc, Goto(r, pc)
      PROVE  req'[r].pc = pc
  BY <1>2, IdleOK DEF Goto, Req, TypeInv, TypeOK
<1>3. CASE UpdateRow(r)
  <2>1. AfterWrite(req[r]) # "write"
    BY <1>1, <1>3, NextStep DEF UpdateRow
  <2>. QED BY <1>2, <1>3, <2>1 DEF UpdateRow
<1>4. CASE RecordStatusHistory(r)
  <2>1. AfterHistory(req[r]) # "history"
    BY <1>1, <1>4, NextStep DEF RecordStatusHistory
  <2>. QED BY <1>2, <1>4, <2>1 DEF RecordStatusHistory
<1>5. CASE AwardRead(r)
  BY <1>5, IdleOK DEF AwardRead, Req, TypeInv, TypeOK
<1>6. CASE DeleteRow(r) \/ UpdateDriver(r) \/ AwardPoints(r) \/ RowMissing(r) \/ Fail(r)
  BY <1>2, <1>6 DEF DeleteRow, UpdateDriver, AwardPoints, RowMissing, Fail
<1>. QED BY <1>3, <1>4, <1>5, <1>6 DEF RequestStep

(* While a request is under way alone, its booking's row stays as it is,   *)
(* but for the driver, who may be removed.                                 *)
LEMMA RowStands ==
  ASSUME TypeInv, SlotsAlone, SlotsAlone', RequestsSawBooking, [Next]_vars,
         NEW t \in Requests, req[t].pc # "idle", req'[t] = req[t],
         NEW b \in Bookings, b = req[t].b
  PROVE  /\ status'[b] = status[b] /\ weighed'[b] = weighed[b] /\ history'[b] = history[b]
         /\ driverOf'[b] \in {driverOf[b], NoDriver}
<1>. DEFINE Stands == /\ status'[b] = status[b] /\ weighed'[b] = weighed[b]
                      /\ history'[b] = history[b]
                      /\ driverOf'[b] \in {driverOf[b], NoDriver}
<1>1. ASSUME NEW r \in Requests, NEW c \in Bookings, Arrival(r, c)
      PROVE  Stands
  BY <1>1, ArrivalFrame DEF bookingRow
<1>2. ASSUME NEW r \in Requests, RequestStep(r) \/ Fail(r)
      PROVE  FALSE
  <2>1. req[r].pc # "idle" /\ req'[r].pc # req[r].pc
    BY <1>2, StepMoves
  <2>. QED BY <2>1, IdleOK DEF SlotsAlone
<1>3. ASSUME NEW c \in Bookings, CreateBooking(c)
      PROVE  Stands
  <2>1. c # b
    BY <1>3 DEF CreateBooking, RequestsSawBooking
  <2>. QED BY <1>3, <2>1 DEF CreateBooking, TypeInv, TypeOK
<1>4. ASSUME NEW d \in Drivers, DriverStep(d)
      PROVE  Stands
  BY <1>4 DEF DriverStep, ApproveDriver, DeleteDriver, SetDuty, EditDriver, bookingRow,
              TypeInv, TypeOK
<1>5. CASE UNCHANGED vars
  BY <1>5 DEF vars
<1>. QED BY <1>1, <1>2, <1>3, <1>4, <1>5 DEF Next

(* What a request knows when it arrives and is about to write.             *)
LEMMA ArrivalSees ==
  ASSUME TypeInv, NEW r \in Requests, NEW b \in Bookings, Arrival(r, b)
  PROVE  WriteSaw(req[r])'
<1>. SUFFICES ASSUME req'[r].pc = "write" PROVE WriteSaw(req[r])'
  BY DEF WriteSaw
<1>1. ASSUME NEW q, Arrive(r, q)
      PROVE  req'[r] = q
  BY <1>1 DEF Arrive, TypeInv, TypeOK
<1>2. /\ req'[r].b = b /\ Exists(b) /\ req'[r].from = status[b]
      /\ status' = status /\ weighed' = weighed /\ driverOf' = driverOf
      /\ status[b] \in CanonicalStatuses
  BY ArrivalSlot, ArrivalFrame DEF bookingRow, Exists
<1>3. ASSUME NEW op, NEW d, NEW to, NEW data, Arrive(r, Writing(op, b, d, to, data))
      PROVE  /\ req'[r].op = op /\ req'[r].by = d /\ req'[r].to = to
             /\ req'[r].data = data
  BY <1>1, <1>3 DEF Writing, Req
<1>4. ASSUME NEW op \in DriverOps, NEW d \in Drivers, NEW to \in CanonicalStatuses, NEW data,
             AssignedTo(b, d), RoleCanTransition("DRIVER", status[b], to),
             to # "COMPLETED", op = "collect" => to = "COLLECTED",
             Arrive(r, Writing(op, b, d, to, data))
      PROVE  WriteSaw(req[r])'
  <2>1. status[b] = to \/ <<status[b], to>> \in Transitions
    BY <1>2, <1>4, RoleInTable DEF Actors
  <2>. QED BY <1>2, <1>3, <1>4, <2>1 DEF WriteSaw, AssignedTo
<1>5. ASSUME NEW d \in Drivers, StartPickup(r, b, d) PROVE WriteSaw(req[r])'
  BY <1>4, <1>5 DEF StartPickup, DriverOps, CanonicalStatuses
<1>6. ASSUME NEW d \in Drivers, CollectBooking(r, b, d) PROVE WriteSaw(req[r])'
  BY <1>4, <1>6 DEF CollectBooking, DriverOps, CanonicalStatuses
<1>7. ASSUME NEW d \in Drivers, CancelByDriver(r, b, d) PROVE WriteSaw(req[r])'
  BY <1>4, <1>7 DEF CancelByDriver, DriverOps, CanonicalStatuses
<1>8. CASE CancelByCustomer(r, b)
  BY <1>2, <1>3, <1>8 DEF CancelByCustomer, WriteSaw, DriverOps
<1>9. CASE DeleteBooking(r, b) \/ Backfill(r, b)
  BY <1>1, <1>9 DEF DeleteBooking, Backfill, Req
<1>10. ASSUME NEW body \in Bodies, NEW auto \in BOOLEAN, NEW tariff \in BOOLEAN,
              AdminUpdate(r, b, body, auto, tariff)
       PROVE  WriteSaw(req[r])'
  <2> DEFINE next == NextStatus(b, body, auto)
             driver == IF body.driver \in Drivers THEN body.driver ELSE Unset
             amount == AmountEdit(b, body, tariff)
             confirm == Confirms(b, next)
  <2>1. /\ RoleCanTransition("ADMIN", status[b], next)
        /\ next = "COMPLETED" => WeightForCompletion(b, body)
        /\ Arrive(r, Writing("admin", b, NoDriver, next,
                             Data(driver, body.weight, amount, confirm)))
    BY <1>10 DEF AdminUpdate
  <2>2. /\ req'[r].op = "admin" /\ req'[r].to = next
        /\ req'[r].data.weight = body.weight
    BY <1>3, <2>1 DEF Data
  <2>3. next \in CanonicalStatuses
    BY <1>2, ConstantsAssumption DEF NextStatus, AdminBody, CanonicalStatuses
  <2>4. status[b] = next \/ <<status[b], next>> \in Transitions
    BY <1>2, <2>1, <2>3, RoleInTable DEF Actors
  <2>. QED BY <1>2, <2>1, <2>2, <2>4 DEF WriteSaw, WeightForCompletion, DriverOps
<1>. QED BY <1>5, <1>6, <1>7, <1>8, <1>9, <1>10 DEF Arrival

(* A status enters a booking's history with the row that records it.       *)
LEMMA HistoryGrows ==
  ASSUME TypeInv, [Next]_vars, NEW b \in Bookings, NEW x, x \in history'[b], x \notin history[b]
  PROVE  \E r \in Requests : RecordStatusHistory(r) /\ req[r].b = b /\ req[r].to = x
<1>1. ASSUME NEW r \in Requests, NEW c \in Bookings, Arrival(r, c)
      PROVE  FALSE
  BY <1>1, ArrivalFrame
<1>2. ASSUME NEW r \in Requests, DeleteRow(r)
      PROVE  FALSE
  BY <1>2 DEF DeleteRow, TypeInv, TypeOK
<1>3. ASSUME NEW r \in Requests, RecordStatusHistory(r)
      PROVE  req[r].b = b /\ req[r].to = x
  BY <1>3 DEF RecordStatusHistory, TypeInv, TypeOK
<1>4. ASSUME NEW r \in Requests,
             \/ UpdateRow(r) \/ UpdateDriver(r) \/ AwardRead(r) \/ AwardPoints(r)
             \/ RowMissing(r) \/ Fail(r)
      PROVE  FALSE
  BY <1>4 DEF UpdateRow, UpdateDriver, AwardRead, AwardPoints, RowMissing, Fail
<1>5. ASSUME NEW c \in Bookings, CreateBooking(c)
      PROVE  FALSE
  BY <1>5 DEF CreateBooking
<1>6. ASSUME NEW d \in Drivers, DriverStep(d)
      PROVE  FALSE
  BY <1>6 DEF DriverStep, ApproveDriver, DeleteDriver, SetDuty, EditDriver
<1>7. CASE UNCHANGED vars
  BY <1>7 DEF vars
<1>. QED BY <1>1, <1>2, <1>3, <1>4, <1>5, <1>6, <1>7 DEF Next, RequestStep

(* A weight changes with the row's update or with its removal.             *)
LEMMA WeightChange ==
  ASSUME TypeInv, [Next]_vars, NEW b \in Bookings, weighed'[b] # weighed[b]
  PROVE  \/ status'[b] = "DELETED"
         \/ \E r \in Requests : UpdateRow(r) /\ req[r].b = b
<1>1. ASSUME NEW r \in Requests, NEW c \in Bookings, Arrival(r, c)
      PROVE  FALSE
  BY <1>1, ArrivalFrame DEF bookingRow
<1>2. ASSUME NEW r \in Requests, DeleteRow(r)
      PROVE  status'[b] = "DELETED"
  BY <1>2 DEF DeleteRow, TypeInv, TypeOK
<1>3. ASSUME NEW r \in Requests, UpdateRow(r)
      PROVE  req[r].b = b
  BY <1>3 DEF UpdateRow, TypeInv, TypeOK
<1>4. ASSUME NEW r \in Requests,
             \/ RecordStatusHistory(r) \/ UpdateDriver(r) \/ AwardRead(r) \/ AwardPoints(r)
             \/ RowMissing(r) \/ Fail(r)
      PROVE  FALSE
  BY <1>4 DEF RecordStatusHistory, UpdateDriver, AwardRead, AwardPoints, RowMissing, Fail,
              bookingRow
<1>5. ASSUME NEW c \in Bookings, CreateBooking(c)
      PROVE  FALSE
  BY <1>5 DEF CreateBooking
<1>6. ASSUME NEW d \in Drivers, DriverStep(d)
      PROVE  FALSE
  BY <1>6 DEF DriverStep, ApproveDriver, DeleteDriver, SetDuty, EditDriver, bookingRow
<1>7. CASE UNCHANGED vars
  BY <1>7 DEF vars
<1>. QED BY <1>1, <1>2, <1>3, <1>4, <1>5, <1>6, <1>7 DEF Next, RequestStep

(* What the update of a row by a lone request makes of the status.         *)
LEMMA LoneUpdate ==
  ASSUME TypeInv, AloneInv, NEW r \in Requests, UpdateRow(r), NEW b \in Bookings, b = req[r].b
  PROVE  /\ status'[b] = req[r].to /\ req[r].to \in CanonicalStatuses
         /\ status[b] \in CanonicalStatuses
         /\ \/ req[r].op = "cancel" /\ status'[b] = "CANCELLED"
            \/ status[b] = status'[b]
            \/ <<status[b], status'[b]>> \in Transitions
<1>1. RequestOK(req[r]) /\ req[r].pc = "write" /\ WriteSaw(req[r])
  BY DEF UpdateRow, TypeInv, RequestsOK, AloneInv
<1>2. status'[b] = IF WritesStatus(req[r]) THEN req[r].to ELSE status[b]
  BY DEF UpdateRow, TypeInv, TypeOK
<1>3. status'[b] = req[r].to
  BY <1>1, <1>2 DEF WritesStatus, WriteSaw
<1>. QED BY <1>1, <1>3 DEF WriteSaw, RequestOK, UpdateRow, Exists

(* Nothing but a collection makes a booking count as collected.            *)
LEMMA NotYetStep ==
  ASSUME TypeInv, AloneInv, [Next]_vars
  PROVE  NotYetCollected'
<1>. SUFFICES ASSUME NEW b \in Bookings, status'[b] \in Early, "COLLECTED" \in history'[b]
              PROVE  FALSE
  BY DEF NotYetCollected
<1>1. CASE "COLLECTED" \in history[b]
  <2>1. status[b] \notin Early
    BY <1>1 DEF AloneInv, NotYetCollected
  <2>2. PICK r \in Requests : UpdateRow(r) /\ req[r].b = b
    BY <2>1, StatusChange DEF Early
  <2>. QED BY <2>1, <2>2, LoneUpdate, TableGoesForward DEF Early
<1>2. CASE "COLLECTED" \notin history[b]
  <2>1. PICK r \in Requests : RecordStatusHistory(r) /\ req[r].b = b /\ req[r].to = "COLLECTED"
    BY <1>2, HistoryGrows
  <2>2. status[b] = "COLLECTED" /\ status' = status
    BY <2>1 DEF RecordStatusHistory, AloneInv, HistoryFollows, bookingRow
  <2>. QED BY <2>2 DEF Early
<1>. QED BY <1>1, <1>2

(* What is completed is weighed.                                           *)
LEMMA WeighedStep ==
  ASSUME TypeInv, AloneInv, [Next]_vars
  PROVE  CompletedIsWeighed'
<1>. SUFFICES ASSUME NEW b \in Bookings, status'[b] = "COMPLETED"
              PROVE  weighed'[b]
  BY DEF CompletedIsWeighed
<1>1. CASE \E r \in Requests : UpdateRow(r) /\ req[r].b = b
  <2>1. PICK r \in Requests : UpdateRow(r) /\ req[r].b = b
    BY <1>1
  <2>2. req[r].to = "COMPLETED"
    BY <2>1, LoneUpdate
  <2>3. Applied(req[r].data.weight, weighed[b])
    BY <2>1, <2>2 DEF UpdateRow, AloneInv, WriteSaw
  <2>. QED BY <2>1, <2>3 DEF UpdateRow, TypeInv, TypeOK
<1>2. CASE ~ \E r \in Requests : UpdateRow(r) /\ req[r].b = b
  BY <1>2, StatusChange, WeightChange DEF AloneInv, CompletedIsWeighed
<1>. QED BY <1>1, <1>2

(* What a lone request leaves for its next step.                           *)
LEMMA LoneStep ==
  ASSUME TypeInv, AloneInv, NEW t \in Requests, RequestStep(t) \/ Fail(t)
  PROVE  HistoryFollows(req[t])'
<1>. DEFINE q == req[t]
<1>0. RequestOK(q) /\ WriteSaw(q) /\ HistoryFollows(q)
  BY DEF TypeInv, RequestsOK, AloneInv
<1>1. ASSUME NEW pc, pc \notin {"history", "driver"}, Goto(t, pc)
      PROVE  HistoryFollows(req[t])'
  BY <1>1, IdleOK DEF Goto, Req, TypeInv, TypeOK, HistoryFollows
<1>2. CASE UpdateRow(t)
  <2>1. q.pc = "write" /\ q.b \in Bookings /\ history' = history
    BY <1>0, <1>2 DEF UpdateRow, RequestOK
  <2>2. CASE AfterWrite(q) = "history"
    <3>1. /\ req'[t].pc = "history" /\ req'[t].op = q.op
          /\ req'[t].b = q.b /\ req'[t].to = q.to
      BY <1>2, <2>2, GotoSlot DEF UpdateRow
    <3>2. status'[q.b] = q.to
      BY <1>2, <2>1, LoneUpdate
    <3>3. ASSUME q.op = "collect"
          PROVE  q.to = "COLLECTED" /\ "COLLECTED" \notin history[q.b]
      <4>1. q.to = "COLLECTED" /\ q.from # q.to /\ q.from = status[q.b]
        BY <1>0, <2>1, <2>2, <3>3 DEF AfterWrite, WriteSaw
      <4>2. <<status[q.b], "COLLECTED">> \in Transitions
        BY <1>0, <2>1, <3>3, <4>1 DEF WriteSaw
      <4>3. status[q.b] \in Early
        BY <4>2 DEF Transitions, Early
      <4>. QED BY <2>1, <4>1, <4>3 DEF AloneInv, NotYetCollected
    <3>. QED BY <2>1, <3>1, <3>2, <3>3 DEF HistoryFollows
  <2>3. CASE AfterWrite(q) # "history"
    <3>1. AfterWrite(q) = "idle"
      BY <1>0, <2>1, <2>3, NextStep
    <3>. QED BY <1>1, <1>2, <3>1 DEF UpdateRow
  <2>. QED BY <2>2, <2>3
<1>3. CASE RecordStatusHistory(t)
  <2>1. q.pc = "history" /\ q.b \in Bookings
    BY <1>0, <1>3 DEF RecordStatusHistory, RequestOK
  <2>2. CASE AfterHistory(q) = "driver"
    <3>1. /\ req'[t].pc = "driver" /\ req'[t].op = q.op /\ req'[t].b = q.b
      BY <1>3, <2>2, GotoSlot DEF RecordStatusHistory
    <3>2. q.op = "collect" => "COLLECTED" \in history'[q.b]
      BY <1>0, <1>3, <2>1 DEF RecordStatusHistory, HistoryFollows, TypeInv, TypeOK
    <3>. QED BY <3>1, <3>2 DEF HistoryFollows
  <2>3. CASE AfterHistory(q) # "driver"
    <3>1. AfterHistory(q) \in {"idle", "awardRead"}
      BY <1>0, <2>1, <2>3, NextStep
    <3>. QED BY <1>1, <1>3, <3>1 DEF RecordStatusHistory
  <2>. QED BY <2>2, <2>3
<1>4. CASE AwardRead(t)
  BY <1>4, IdleOK DEF AwardRead, Req, TypeInv, TypeOK, HistoryFollows
<1>5. CASE DeleteRow(t) \/ UpdateDriver(t) \/ AwardPoints(t) \/ RowMissing(t) \/ Fail(t)
  BY <1>1, <1>5 DEF DeleteRow, UpdateDriver, AwardPoints, RowMissing, Fail
<1>. QED BY <1>2, <1>3, <1>4, <1>5 DEF RequestStep

(* Every step of requests served alone keeps what they know.               *)
LEMMA AloneStep ==
  ASSUME TypeInv, RequestsSawBooking, AloneInv, SlotsAlone', [Next]_vars
  PROVE  AloneInv'
<1>1. ASSUME NEW t \in Requests
      PROVE  WriteSaw(req[t])' /\ HistoryFollows(req[t])'
  <2>0. RequestOK(req[t]) /\ WriteSaw(req[t]) /\ HistoryFollows(req[t])
    BY DEF TypeInv, RequestsOK, AloneInv
  <2>1. CASE req'[t] = req[t] /\ req[t].pc # "idle"
    <3>. DEFINE b == req[t].b
    <3>1. b \in Bookings
      BY <2>0, <2>1 DEF RequestOK
    <3>2. /\ status'[b] = status[b] /\ weighed'[b] = weighed[b] /\ history'[b] = history[b]
          /\ driverOf'[b] \in {driverOf[b], NoDriver}
      BY <2>1, <3>1, RowStands DEF AloneInv
    <3>. QED BY <2>0, <2>1, <3>2 DEF WriteSaw, HistoryFollows
  <2>2. CASE req'[t] = req[t] /\ req[t].pc = "idle"
    BY <2>2 DEF WriteSaw, HistoryFollows
  <2>3. CASE req'[t] # req[t]
    <3>1. CASE \E b \in Bookings : Arrival(t, b)
      <4>1. PICK b \in Bookings : Arrival(t, b)
        BY <3>1
      <4>2. req'[t].pc \notin {"history", "driver"}
        BY <4>1, ArrivalSlot
      <4>. QED BY <4>1, <4>2, ArrivalSees DEF HistoryFollows
    <3>2. CASE RequestStep(t) \/ Fail(t)
      BY <3>2, NoWriteAgain, LoneStep DEF WriteSaw
    <3>. QED BY <2>3, <3>1, <3>2, SlotChange
  <2>. QED BY <2>1, <2>2, <2>3
<1>. QED BY <1>1, NotYetStep, WeighedStep DEF AloneInv

(* A behaviour of requests served alone, or not, is one of the system's.   *)
LEMMA ServedIsSpec == ServedSpec => Spec
<1>1. ServedInit => Init
  BY DEF ServedInit
<1>2. [ServedNext]_<<vars, alone>> => [Next]_vars
  BY DEF ServedNext, vars
<1>. QED BY <1>1, <1>2, PTL DEF ServedSpec, Spec

(* What requests served alone know holds in every state they reach.        *)
LEMMA AloneInvariant == ServedSpec => [](alone => AloneInv)
<1>1. ServedSpec => Spec
  BY ServedIsSpec
<1>2. ServedInit => AloneInv
  <2>. SUFFICES ASSUME ServedInit PROVE AloneInv
    OBVIOUS
  <2>1. \A r \in Requests : req[r] = Idle
    BY DEF ServedInit, Init
  <2>2. \A b \in Bookings : status[b] = "ABSENT" /\ history[b] = {}
    BY DEF ServedInit, Init
  <2>. QED BY <2>1, <2>2, IdleOK
           DEF AloneInv, SlotsAlone, WriteSaw, HistoryFollows, NotYetCollected,
               CompletedIsWeighed
<1>3. TypeInv /\ HistoryInv /\ (alone => AloneInv) /\ [ServedNext]_<<vars, alone>>
        => (alone => AloneInv)'
  <2>. SUFFICES ASSUME TypeInv, HistoryInv, alone => AloneInv, [ServedNext]_<<vars, alone>>,
                       alone'
                PROVE  AloneInv'
    OBVIOUS
  <2>1. alone /\ [Next]_vars
    BY DEF ServedNext, vars
  <2>2. SlotsAlone'
    BY <2>1 DEF ServedNext, OneAtATime, SlotsAlone, AloneInv, vars
  <2>. QED BY <2>1, <2>2, AloneStep DEF HistoryInv
<1>. QED BY <1>1, <1>2, <1>3, TypeInvariant, HistoryInvariant, PTL DEF ServedSpec

(* Requests that are served one at a time follow the transition table, and *)
(* no driver moves a booking of another driver, although driver rows come  *)
(* and go while the request is under way.                                  *)
THEOREM LoneMoves == ServedSpec => MovesAlone
<1>1. ServedSpec => Spec
  BY ServedIsSpec
<1>2. TypeInv /\ (alone => AloneInv) /\ [ServedNext]_<<vars, alone>>
        => [alone => FollowsTable /\ DriverMovesOwnBooking]_<<vars, alone>>
  <2>. SUFFICES ASSUME TypeInv, alone, AloneInv, [Next]_vars
                PROVE  FollowsTable /\ DriverMovesOwnBooking
    BY DEF ServedNext, vars
  <2>1. FollowsTable
    <3>. SUFFICES ASSUME NEW b \in Bookings, Exists(b), Exists(b)', status'[b] # status[b],
                         <<status[b], status'[b]>> \notin Transitions
                  PROVE  /\ status'[b] = "CANCELLED"
                         /\ \E r \in Requests : req[r].op = "cancel" /\ req[r].b = b
      BY DEF FollowsTable
    <3>1. PICK r \in Requests : UpdateRow(r) /\ req[r].b = b
      BY StatusChange DEF Exists, CanonicalStatuses
    <3>. QED BY <3>1, LoneUpdate
  <2>2. DriverMovesOwnBooking
    BY DEF DriverMovesOwnBooking, AloneInv, WriteSaw
  <2>. QED BY <2>1, <2>2
<1>. QED BY <1>1, <1>2, TypeInvariant, AloneInvariant, PTL DEF ServedSpec, MovesAlone

-----------------------------------------------------------------------------
(***************************************************************************)
(* The pickups counted.  Each is put down to a booking of its own, and the *)
(* booking of a collection that has yet to be counted to no one.           *)
(***************************************************************************)
PutDownTo(whose) ==
  /\ \A b \in Bookings : PickupOf(b, whose[b])
  /\ \A d \in Drivers : pickupCount[d] <= Cardinality({b \in Bookings : whose[b] = d})
  /\ \A r \in Requests :
       req[r].pc = "driver" /\ req[r].op = "collect" => whose[req[r].b] = NoDriver

CountInv == \E whose \in [Bookings -> Drivers \cup {NoDriver}] : PutDownTo(whose)

(* A booking that a pickup was put down to goes on to bear it.             *)
LEMMA PickupStays ==
  ASSUME TypeInv, [Next]_vars, NEW b \in Bookings, NEW d, PickupOf(b, d)
  PROVE  PickupOf(b, d)'
<1>. SUFFICES ASSUME d # NoDriver PROVE status'[b] = "DELETED" \/ "COLLECTED" \in history'[b]
  BY DEF PickupOf
<1>1. CASE status[b] = "DELETED"
  BY <1>1, GoneStays
<1>2. CASE "COLLECTED" \in history[b]
  <2>1. ASSUME NEW r \in Requests, NEW c \in Bookings, Arrival(r, c)
        PROVE  history' = history
    BY <2>1, ArrivalFrame
  <2>2. ASSUME NEW r \in Requests, DeleteRow(r)
        PROVE  status'[b] = "DELETED" \/ history'[b] = history[b]
    BY <2>2 DEF DeleteRow, TypeInv, TypeOK
  <2>3. ASSUME NEW r \in Requests, RecordStatusHistory(r)
        PROVE  "COLLECTED" \in history'[b]
    BY <1>2, <2>3 DEF RecordStatusHistory, TypeInv, TypeOK
  <2>4. ASSUME NEW r \in Requests,
               \/ UpdateRow(r) \/ UpdateDriver(r) \/ AwardRead(r) \/ AwardPoints(r)
               \/ RowMissing(r) \/ Fail(r)
        PROVE  history' = history
    BY <2>4 DEF UpdateRow, UpdateDriver, AwardRead, AwardPoints, RowMissing, Fail
  <2>5. ASSUME NEW c \in Bookings, CreateBooking(c)
        PROVE  history' = history
    BY <2>5 DEF CreateBooking
  <2>6. ASSUME NEW e \in Drivers, DriverStep(e)
        PROVE  history' = history
    BY <2>6 DEF DriverStep, ApproveDriver, DeleteDriver, SetDuty, EditDriver
  <2>7. CASE UNCHANGED vars
    BY <1>2, <2>7 DEF vars
  <2>. QED BY <1>2, <2>1, <2>2, <2>3, <2>4, <2>5, <2>6, <2>7 DEF Next, RequestStep
<1>. QED BY <1>1, <1>2, d # NoDriver DEF PickupOf

(* Only the last step of a collection counts a pickup, unless an           *)
(* administrator overwrites the count.                                     *)
LEMMA CountGrows ==
  ASSUME TypeInv, [Next]_vars, "editDriver" \notin Ops,
         ~ \E r \in Requests : UpdateDriver(r) /\ req[r].op = "collect",
         NEW d \in Drivers
  PROVE  pickupCount'[d] <= pickupCount[d]
<1>0. pickupCount[d] \in Nat
  BY DEF TypeInv, TypeOK
<1>1. ASSUME NEW r \in Requests, NEW c \in Bookings, Arrival(r, c)
      PROVE  pickupCount'[d] = pickupCount[d]
  BY <1>1, ArrivalFrame DEF driverRow
<1>2. ASSUME NEW r \in Requests, UpdateDriver(r)
      PROVE  pickupCount'[d] = pickupCount[d]
  BY <1>2 DEF UpdateDriver, TypeInv, TypeOK
<1>3. ASSUME NEW r \in Requests,
             \/ UpdateRow(r) \/ DeleteRow(r) \/ RecordStatusHistory(r) \/ AwardRead(r)
             \/ AwardPoints(r) \/ RowMissing(r) \/ Fail(r)
      PROVE  pickupCount'[d] = pickupCount[d]
  BY <1>3 DEF UpdateRow, DeleteRow, RecordStatusHistory, AwardRead, AwardPoints, RowMissing,
              Fail, driverRow
<1>4. ASSUME NEW c \in Bookings, CreateBooking(c)
      PROVE  pickupCount'[d] = pickupCount[d]
  BY <1>4 DEF CreateBooking
<1>5. ASSUME NEW e \in Drivers, DriverStep(e)
      PROVE  pickupCount'[d] \in {pickupCount[d], 0}
  BY <1>5 DEF DriverStep, ApproveDriver, DeleteDriver, SetDuty, EditDriver, TypeInv, TypeOK
<1>6. ASSUME UNCHANGED vars
      PROVE  pickupCount'[d] = pickupCount[d]
  BY <1>6 DEF vars
<1>7. pickupCount'[d] \in {pickupCount[d], 0}
  BY <1>1, <1>2, <1>3, <1>4, <1>5, <1>6 DEF Next, RequestStep
<1>. QED BY <1>0, <1>7

(* The collection that is counted is put down to its booking.              *)
LEMMA CountedNow ==
  ASSUME TypeInv, AloneInv, [Next]_vars, NEW r \in Requests, UpdateDriver(r),
         req[r].op = "collect", CountInv
  PROVE  CountInv'
<1>1. PICK whose \in [Bookings -> Drivers \cup {NoDriver}] : PutDownTo(whose)
  BY DEF CountInv
<1>. PICK b, d : b = req[r].b /\ d = req[r].by
  OBVIOUS
<1>. DEFINE now == [whose EXCEPT ![b] = d]
<1>2. /\ b \in Bookings /\ d \in Drivers /\ d # NoDriver /\ "COLLECTED" \in history[b]
      /\ whose[b] = NoDriver /\ history' = history /\ status' = status
  BY <1>1, ConstantsAssumption DEF UpdateDriver, TypeInv, RequestsOK, RequestOK, AloneInv,
     HistoryFollows, PutDownTo, bookingRow
<1>3. now \in [Bookings -> Drivers \cup {NoDriver}]
  BY <1>2
<1>4. \A c \in Bookings : PickupOf(c, now[c])'
  BY <1>1, <1>2 DEF PickupOf, PutDownTo
<1>5. ASSUME NEW e \in Drivers
      PROVE  pickupCount'[e] <= Cardinality({c \in Bookings : now[c] = e})
  <2>. DEFINE had == {c \in Bookings : whose[c] = e}
  <2>1. /\ IsFiniteSet(had) /\ pickupCount[e] \in Nat /\ Cardinality(had) \in Nat
        /\ pickupCount[e] <= Cardinality(had)
    BY <1>1, ServedAssumption, FS_Subset, FS_CardinalityType DEF PutDownTo, TypeInv, TypeOK
  <2>2. CASE e = d
    <3>1. {c \in Bookings : now[c] = e} = had \cup {b} /\ b \notin had
      BY <1>2, <2>2
    <3>2. Cardinality(had \cup {b}) = Cardinality(had) + 1
      BY <2>1, <3>1, FS_AddElement
    <3>3. pickupCount'[e] = pickupCount[e] + 1
      BY <2>2 DEF UpdateDriver, TypeInv, TypeOK
    <3>4. Cardinality({c \in Bookings : now[c] = e}) = Cardinality(had) + 1
      BY <3>1, <3>2
    <3>. HIDE DEF had, now
    <3>. QED BY <2>1, <3>3, <3>4
  <2>3. CASE e # d
    <3>1. {c \in Bookings : now[c] = e} = had
      BY <1>2, <2>3, ConstantsAssumption
    <3>2. pickupCount'[e] = pickupCount[e]
      BY <2>3 DEF UpdateDriver, TypeInv, TypeOK
    <3>. QED BY <2>1, <3>1, <3>2
  <2>. QED BY <2>2, <2>3
<1>6. ASSUME NEW t \in Requests
      PROVE  req'[t].pc # "driver"
  <2>1. CASE t = r
    BY <2>1, StepMoves DEF RequestStep, UpdateDriver
  <2>2. CASE t # r
    <3>1. req'[t] = req[t] /\ req[r].pc = "driver"
      BY <2>2, OthersKeep DEF RequestStep, UpdateDriver
    <3>2. req[t] = Idle
      BY <2>2, <3>1, IdleOK DEF AloneInv, SlotsAlone
    <3>. QED BY <3>1, <3>2, IdleOK
  <2>. QED BY <2>1, <2>2
<1>. HIDE DEF now
<1>7. PutDownTo(now)'
  BY <1>4, <1>5, <1>6 DEF PutDownTo
<1>. QED BY <1>3, <1>7 DEF CountInv

(* A request comes to its driver's row from the history only.              *)
LEMMA DriverAfterHistoryOnly ==
  ASSUME TypeInv, NEW t \in Requests, RequestStep(t) \/ Fail(t), req'[t].pc = "driver"
  PROVE  RecordStatusHistory(t) /\ req'[t].op = req[t].op /\ req'[t].b = req[t].b
<1>0. RequestOK(req[t])
  BY DEF TypeInv, RequestsOK
<1>1. ASSUME NEW pc, Goto(t, pc)
      PROVE  pc = "driver"
  BY <1>1, IdleOK DEF Goto, Req, TypeInv, TypeOK
<1>2. CASE UpdateRow(t)
  BY <1>0, <1>1, <1>2, NextStep DEF UpdateRow
<1>3. CASE RecordStatusHistory(t)
  <2>1. Goto(t, "driver")
    BY <1>1, <1>3 DEF RecordStatusHistory
  <2>. QED BY <1>3, <2>1, GotoSlot
<1>4. CASE AwardRead(t)
  BY <1>4, IdleOK DEF AwardRead, Req, TypeInv, TypeOK
<1>5. CASE DeleteRow(t) \/ UpdateDriver(t) \/ AwardPoints(t) \/ RowMissing(t) \/ Fail(t)
  BY <1>1, <1>5 DEF DeleteRow, UpdateDriver, AwardPoints, RowMissing, Fail
<1>. QED BY <1>2, <1>3, <1>4, <1>5 DEF RequestStep

(* Other steps count nothing; a first collection that is recorded had no   *)
(* pickup put down to it.                                                  *)
LEMMA CountStep ==
  ASSUME TypeInv, AloneInv, [Next]_vars, "editDriver" \notin Ops, CountInv
  PROVE  CountInv'
<1>1. CASE \E r \in Requests : UpdateDriver(r) /\ req[r].op = "collect"
  BY <1>1, CountedNow
<1>2. CASE ~ \E r \in Requests : UpdateDriver(r) /\ req[r].op = "collect"
  <2>1. PICK whose \in [Bookings -> Drivers \cup {NoDriver}] : PutDownTo(whose)
    BY DEF CountInv
  <2>2. \A b \in Bookings : PickupOf(b, whose[b])'
    BY <2>1, PickupStays DEF PutDownTo
  <2>3. ASSUME NEW d \in Drivers
        PROVE  pickupCount'[d] <= Cardinality({b \in Bookings : whose[b] = d})
    <3>1. pickupCount'[d] <= pickupCount[d]
      BY <1>2, CountGrows
    <3>2. pickupCount[d] \in Nat /\ pickupCount'[d] \in Int
      <4>1. TypeInv'
        BY ArrivalType, RequestStepType, SingleStepType
           DEF Next, vars, TypeInv, TypeOK, RequestsOK, RequestOK, Request
      <4>. QED BY <4>1 DEF TypeInv, TypeOK
    <3>3. Cardinality({b \in Bookings : whose[b] = d}) \in Nat
      BY ServedAssumption, FS_Subset, FS_CardinalityType
    <3>4. pickupCount[d] <= Cardinality({b \in Bookings : whose[b] = d})
      BY <2>1 DEF PutDownTo
    <3>. QED BY <3>1, <3>2, <3>3, <3>4
  <2>4. ASSUME NEW t \in Requests, req'[t].pc = "driver", req'[t].op = "collect"
        PROVE  whose[req'[t].b] = NoDriver
    <3>1. CASE req'[t] = req[t]
      BY <2>1, <2>4, <3>1 DEF PutDownTo
    <3>2. CASE req'[t] # req[t]
      <4>1. RequestStep(t) \/ Fail(t)
        BY <2>4, <3>2, SlotChange, ArrivalSlot
      <4>2. RecordStatusHistory(t)
        BY <2>4, <4>1, DriverAfterHistoryOnly
      <4>3. /\ req'[t].op = req[t].op /\ req'[t].b = req[t].b
            /\ req[t].pc = "history" /\ Exists(req[t].b) /\ req[t].b \in Bookings
        BY <2>4, <4>1, <4>2, DriverAfterHistoryOnly
           DEF RecordStatusHistory, TypeInv, RequestsOK, RequestOK
      <4>4. "COLLECTED" \notin history[req[t].b]
        BY <2>4, <4>3 DEF AloneInv, HistoryFollows
      <4>. QED BY <2>1, <4>3, <4>4 DEF PutDownTo, PickupOf, Exists, CanonicalStatuses
    <3>. QED BY <3>1, <3>2
  <2>5. PutDownTo(whose)'
    BY <2>2, <2>3, <2>4 DEF PutDownTo
  <2>. QED BY <2>5 DEF CountInv
<1>. QED BY <1>1, <1>2

(* As long as administrators do not overwrite the counts, requests served  *)
(* one at a time leave every completed booking weighed and count no        *)
(* booking's collection twice, whenever they fail and whatever is retried. *)
THEOREM LoneRows ==
  ASSUME "editDriver" \notin Ops
  PROVE  ServedSpec => []RowsAlone
<1>1. ServedSpec => Spec
  BY ServedIsSpec
<1>2. ServedInit => CountInv
  <2>. SUFFICES ASSUME ServedInit PROVE CountInv
    OBVIOUS
  <2>. DEFINE noOne == [b \in Bookings |-> NoDriver]
  <2>1. \A d \in Drivers : pickupCount[d] = 0
    BY DEF ServedInit, Init
  <2>2. \A d \in Drivers : Cardinality({b \in Bookings : noOne[b] = d}) \in Nat
    BY ServedAssumption, FS_Subset, FS_CardinalityType
  <2>3. \A r \in Requests : req[r].pc = "idle"
    BY IdleOK DEF ServedInit, Init
  <2>4. PutDownTo(noOne)
    BY <2>1, <2>2, <2>3 DEF PutDownTo, PickupOf
  <2>. QED BY <2>4 DEF CountInv
<1>3. TypeInv /\ (alone => AloneInv) /\ (alone => CountInv) /\ [ServedNext]_<<vars, alone>>
        => (alone => CountInv)'
  <2>. SUFFICES ASSUME TypeInv, alone => AloneInv, alone => CountInv,
                       [ServedNext]_<<vars, alone>>, alone'
                PROVE  CountInv'
    OBVIOUS
  <2>1. alone /\ [Next]_vars
    BY DEF ServedNext, vars
  <2>. QED BY <2>1, CountStep
<1>4. (alone => AloneInv) /\ (alone => CountInv) => RowsAlone
  BY DEF RowsAlone, AloneInv, CountInv, PutDownTo, PickupsCountedOnce
<1>. QED BY <1>1, <1>2, <1>3, <1>4, TypeInvariant, AloneInvariant, PTL DEF ServedSpec
=============================================================================
