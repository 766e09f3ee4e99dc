SPECIFICATION Spec
CONSTANTS
  b1 = b1
  b2 = b2
  d1 = d1
  d2 = d2
  r1 = r1
  r2 = r2
  NoDriver = NoDriver
  Unset = Unset
  Bookings = {b1}
  Drivers = {d1}
  Requests = {r1}
  MaxPickups = 1
  Bodies <- AmountBodies
  Ops = {"create", "start", "collect", "admin", "approve"}
SYMMETRY Interchangeable
CHECK_DEADLOCK FALSE
INVARIANTS CompletedHasAmount
