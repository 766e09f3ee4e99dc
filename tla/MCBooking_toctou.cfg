SPECIFICATION Spec
CONSTANTS
  b1 = b1
  b2 = b2
  d1 = d1
  d2 = d2
  r1 = r1
  r2 = r2
  NoDriver = NoDriver
  Unset = Unset
  Bookings = {b1}
  Drivers = {d1}
  Requests = {r1, r2}
  MaxPickups = 1
  Bodies <- PlainBodies
  Ops = {"create", "start", "collect", "driverCancel", "admin", "approve"}
SYMMETRY Interchangeable
CHECK_DEADLOCK FALSE
PROPERTIES TransitionsFollowTable
