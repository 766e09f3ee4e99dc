SPECIFICATION MCSpec
CONSTANTS
  b1 = b1
  b2 = b2
  b3 = b3
  NoTime = NoTime
  NoAward = NoAward
  Gone = Gone
  Worth <- OddWorth
  Bookings = {b1, b2, b3}
  Legacy = {b3}
  Slots = {1, 2}
  Window = 1
  MaxTime = 3
  Ops = {"cancel", "delete", "backfill", "fail"}
CHECK_DEADLOCK FALSE
INVARIANTS TypeOK MultipliersEarned
PROPERTIES LedgerIsFinal
