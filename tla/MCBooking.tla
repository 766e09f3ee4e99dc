------------------------------ MODULE MCBooking ------------------------------
(***************************************************************************)
(* Instances of BookingLifecycle for TLC.                                  *)
(***************************************************************************)
EXTENDS BookingLifecycle, TLC

CONSTANTS b1, b2, d1, d2, r1, r2

(* Drivers, bookings and request slots are interchangeable.                *)
Interchangeable ==
  Permutations(Drivers) \cup Permutations(Bookings) \cup Permutations(Requests)

Body(s, d, w, a) == [status |-> s, driver |-> d, weight |-> w, amount |-> a]

(* Assignments, status changes, both at once, and a driver of null.        *)
PlainBodies ==
  {Body(s, Unset, "keep", "keep") : s \in CanonicalStatuses \cup {Unset}}
  \cup {Body(s, d, "keep", "keep") :
          s \in {Unset, "ASSIGNED", "IN_PROGRESS", "COMPLETED", "CANCELLED"}, d \in Drivers}
  \cup {Body("ASSIGNED", NoDriver, "keep", "keep")}

(* Weights and amounts, alone or with the completion.                      *)
MeasureBodies ==
  {Body(s, Unset, w, a) : s \in {Unset, "COMPLETED"}, w \in Edits, a \in Edits}

(* The shortest way to a completion: an assignment, then the completion.   *)
CompletionBodies ==
  {Body(Unset, d, "keep", "keep") : d \in Drivers}
  \cup {Body("COMPLETED", Unset, "keep", "keep")}

AmountBodies == CompletionBodies \cup MeasureBodies

(* Every kind of assignment and status change, and edits of the weight.    *)
PlainAndWeightBodies ==
  PlainBodies
  \cup {Body(s, Unset, w, "keep") : s \in {Unset, "COMPLETED"}, w \in Edits}
=============================================================================
