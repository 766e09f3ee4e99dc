------------------------------- MODULE MCRewards -------------------------------
(***************************************************************************)
(* Instances of Rewards for TLC.  A behaviour has one call at a time and   *)
(* three bookings; or calls that overlap, two bookings and less time.      *)
(***************************************************************************)
EXTENDS RewardsServed

CONSTANTS b1, b2, b3

(* An odd number, so that the 1.5 multiplier rounds.                       *)
OddWorth == [b \in Bookings |-> 5]

(* One booking at most is cancelled or deleted.  Calls that overlap: two   *)
(* bookings, and less time.                                                *)
MCNext ==
  /\ ServedNext
  /\ Cardinality({b \in Bookings : status'[b] \in {"CANCELLED", "DELETED"}}) < 2
  /\ ~alone => now' <= 2 /\ status'[b2] = "ABSENT"

MCSpec == ServedInit /\ [][MCNext]_servedVars
================================================================================
