SPECIFICATION Spec
CONSTANTS
  Bookings = {1, 2}
  Filters = {"ALL", "CREATED"}
  NoBooking = NoBooking
  NoListing = NoListing
  Idle = Idle
  Asked = Asked
  MaxChanges = 2
  Wastes = {1, 2}
  Priced = {1}
  Weights = {0, 5}
  PageSize = 1
  FullNames <- Names
  Photos = {1, 2}
  PasskeyIds = {1, 2}
  Loads = {1, 2}
  Prefs = {0, 1}
  NoAccount = NoAccount
  Waiting = Waiting
  NoLoad = NoLoad
  Reads = {user, other}
  MaxEdits = 3
  Models = {1, 2, 3}
  Flash = {2}
  Pro = {1}
  Primary = 3
  NoModel = NoModel
  NoMemory = NoMemory
  Turns = {1, 2}
  MaxMessages = 4
  DriverTake = 2
  Pickups = {1, 2}
  MaxOffers = 2
  MaxAsked = 3
CHECK_DEADLOCK FALSE
INVARIANTS TableIsFresh TypedForBooking SettingsInv ChatInv
