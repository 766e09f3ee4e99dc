SPECIFICATION FailureSpec
CONSTANTS
  b1 = b1
  b2 = b2
  d1 = d1
  d2 = d2
  r1 = r1
  r2 = r2
  NoDriver = NoDriver
  Unset = Unset
  Bookings = {b1}
  Drivers = {d1}
  Requests = {r1, r2}
  MaxPickups = 1
  Bodies <- CompletionBodies
  Ops = {"create", "start", "collect", "admin", "approve", "duty", "editDriver", "fail", "backfill", "cancel", "driverCancel", "delete", "deleteDriver"}
CHECK_DEADLOCK FALSE
INVARIANTS AwardIsOwed
PROPERTIES PointsArrive
