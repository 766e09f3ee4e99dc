---------------------------- MODULE MCBookingFailure ----------------------------
(***************************************************************************)
(* Two requests at a time, all of which may fail.  Two bounds: a driver's  *)
(* own row is edited, and a booking cancelled, while no other request is   *)
(* under way.                                                              *)
(***************************************************************************)
EXTENDS MCBooking

EditsAlone ==
  UNCHANGED <<req, profile>> /\ <<duty, pickupCount>>' # <<duty, pickupCount>> =>
    \A r \in Requests : req[r] = Idle

CancelsAlone ==
  \A r \in Requests :
    req'[r].op \in {"cancel", "driverCancel"} => \A o \in Requests \ {r} : req'[o] = Idle

FailureNext == Next /\ EditsAlone /\ CancelsAlone

FailureSpec ==
  Init /\ [][FailureNext]_vars /\ \A r \in Requests : WF_vars(RequestStep(r))
===============================================================================
