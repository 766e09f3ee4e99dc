---------------------------- MODULE MCBookingPair ----------------------------
(***************************************************************************)
(* A behaviour serves one request at a time, with two drivers and failing  *)
(* requests; or two requests at a time, with one driver and none failing.  *)
(***************************************************************************)
EXTENDS MCBooking, BookingServed

PairNext ==
  /\ ServedNext
  /\ alone =>
       /\ pickupCount'[d1] + pickupCount'[d2] <= MaxPickups
       /\ \E d \in Drivers : profile'[d] # "GONE"
  /\ ~alone =>
       /\ lost' = {} /\ Cardinality({d \in Drivers : profile'[d] # "PENDING"}) <= 1
       /\ \A d \in Drivers : pickupCount'[d] <= 1
       /\ \A r \in Requests : req'[r].op = "admin" => req'[r].data.weight = "keep"

PairSpec == ServedInit /\ [][PairNext]_<<vars, alone>>
=============================================================================
