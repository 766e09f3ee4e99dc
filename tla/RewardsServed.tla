----------------------------- MODULE RewardsServed -----------------------------
(***************************************************************************)
(* The points of a customer whose calls do not overlap, beside those of    *)
(* one whose calls do: a behaviour that is `alone` has one completion or   *)
(* award under way at a time, as when one administrator works through the  *)
(* bookings; time passes, and bookings are created, cancelled and deleted, *)
(* between the steps of the call all the same.                             *)
(***************************************************************************)
EXTENDS Rewards

VARIABLE alone  \* whether the calls of this behaviour come one at a time

servedVars == <<vars, alone>>

OneCall == \A s, t \in Slots : slot[s] # Idle /\ slot[t] # Idle => s = t

ServedInit == Init /\ alone \in BOOLEAN

ServedNext ==
  /\ Next /\ UNCHANGED alone
  /\ alone => OneCall'

ServedSpec == ServedInit /\ [][ServedNext]_servedVars

(* With one call at a time, however late an award or a backfill comes,     *)
(* each multiplier went to the booking it was earned by, and each award    *)
(* bears the time of the confirmation (awardPointsForBooking).             *)
MultipliersEarned == alone => StreakIsEarned /\ FirstIsEarliest /\ AwardedAtConfirmation
================================================================================
