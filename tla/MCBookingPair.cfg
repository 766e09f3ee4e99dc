SPECIFICATION PairSpec
CONSTANTS
  b1 = b1
  b2 = b2
  d1 = d1
  d2 = d2
  r1 = r1
  r2 = r2
  NoDriver = NoDriver
  Unset = Unset
  Bookings = {b1}
  Drivers = {d1, d2}
  Requests = {r1, r2}
  MaxPickups = 2
  Bodies <- PlainAndWeightBodies
  Ops = {"create", "start", "collect", "driverCancel", "cancel", "delete", "admin", "approve", "deleteDriver", "fail"}
SYMMETRY Interchangeable
CHECK_DEADLOCK FALSE
INVARIANTS TypeOK HistoryCoversStatus RowsAreComplete PointsFollowCompletion RowsAlone
PROPERTIES MovesAlone
