----------------------------- MODULE RewardLedger -----------------------------
(***************************************************************************)
(* What the rewards of a customer promise: a booking is awarded once, an   *)
(* award is never changed, and it is taken back only with its booking,     *)
(* which is then never awarded again.                                      *)
(***************************************************************************)
CONSTANTS Bookings, Awards,
          NoAward,  \* not awarded
          Gone      \* the booking is deleted

VARIABLE ledger

Init == ledger = [b \in Bookings |-> NoAward]

Grant(b) ==
  /\ ledger[b] = NoAward
  /\ ledger'[b] \in Awards
  /\ ledger' = [ledger EXCEPT ![b] = ledger'[b]]

Close(b) == ledger' = [ledger EXCEPT ![b] = Gone]

Next == \E b \in Bookings : Grant(b) \/ Close(b)

Spec == Init /\ [][Next]_ledger
=============================================================================
