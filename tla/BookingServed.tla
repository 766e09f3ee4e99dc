---------------------------- MODULE BookingServed ----------------------------
(***************************************************************************)
(* Behaviours in which bookings are served one request at a time, and what *)
(* holds of them.  Drivers are still approved, removed and edited between  *)
(* the writes of a request, and a request may still fail half-way.         *)
(***************************************************************************)
EXTENDS BookingLifecycle

VARIABLE alone  \* whether requests are served one at a time

ASSUME ServedAssumption == IsFiniteSet(Bookings)

OneAtATime == \E r \in Requests : \A o \in Requests \ {r} : req[o] = Idle

ServedInit == Init /\ alone \in BOOLEAN

ServedNext == Next /\ UNCHANGED alone /\ (alone => OneAtATime')

ServedSpec == ServedInit /\ [][ServedNext]_<<vars, alone>>

(* Requests served one at a time keep the transition table, and a driver   *)
(* moves no booking but the driver's own.                                  *)
MovesAlone == [][alone => FollowsTable /\ DriverMovesOwnBooking]_<<vars, alone>>

(* Requests served one at a time weigh what they complete and count what   *)
(* is collected once, also when one of them fails half-way.                *)
RowsAlone == alone => CompletedIsWeighed /\ PickupsCountedOnce
=============================================================================
