SPECIFICATION Spec
CONSTANTS
  u1 = u1
  u2 = u2
  r1 = r1
  r2 = r2
  NoUser = NoUser
  NoEmail = NoEmail
  Users = {u1, u2}
  Emails = {"e"}
  Requests = {r1, r2}
  AccountOps = {"register", "adminCreate", "google", "updateMe", "deleteMe", "updateUser", "changeUserRole", "approveUser", "deleteUser", "rejectUser", "deleteDriver", "book"}
  Visitors = {u1, u2}
  Anyone = Anyone
  DashboardOf <- Shown
  Attempts = {1, 2}
  MaxLoads = 2
  MaxExchanges = 3
SYMMETRY Interchangeable
CHECK_DEADLOCK FALSE
INVARIANTS AccountInv DepartedStaysAnonymous SignInInv
PROPERTIES ProfileKept
