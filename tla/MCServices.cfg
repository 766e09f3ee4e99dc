SPECIFICATION ServicesSpec
CONSTANTS
  u1 = u1
  u2 = u2
  r1 = r1
  r2 = r2
  r3 = r3
  Nobody = Nobody
  NoEndpoint = NoEndpoint
  NoCursor = NoCursor
  Subscribers = {u1, u2}
  Endpoints = {1, 2}
  Notices = {"n"}
  Tickets = {1, 2}
  Statuses = {"ASSIGNED", "REFUNDED"}
  Asking = {r1, r2, r3}
  Addresses = {"e", "f"}
  Notifiers = {r1, r2, r3}
  windowMs = 3
  maxRequests = 3
  MaxTime = 8
  MaxCount = 7
  Limit = 2
  MaxRows = 5
  People = {u1, u2}
  NoPerson = NoPerson
  Phones = {1, 2, 3}
  Dialled <- DialledAs
  MaxTexts = 2
  Kinds = {"paper", "metal"}
  NoRow = NoRow
  Unanswered = Unanswered
  Wanted = Wanted
  MaxSaves = 2
  Pickups = {1, 2}
  PhotosOf <- Photos
  Admins = {u1, u2}
  Levels = {0, 45, 55, 70}
  Unrated = Unrated
  AlertFrom <- AlertAt
SYMMETRY Interchangeable
CHECK_DEADLOCK FALSE
INVARIANTS PushInv StatusInv LaunchInv RateInv PagesInv UsersPanelInv TextedOnce RowsFromPrices ScreenInv
