SPECIFICATION Spec
CONSTANTS
  a1 = a1
  a2 = a2
  c1 = c1
  c2 = c2
  t1 = t1
  Nobody = Nobody
  NoCredential = NoCredential
  Accounts = {a1, a2}
  Calls = {c1, c2}
  Tabs = {t1}
  MaxIssued = 2
  Owners = {a1, a2}
  Credentials = {1, 2}
  Verifications = {c1, c2}
  MaxChallenges = 3
SYMMETRY Interchangeable
CHECK_DEADLOCK FALSE
INVARIANTS SessionInv CopiesAgree PasskeyInv
PROPERTIES SwitchBySignIn
