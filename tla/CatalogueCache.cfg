SPECIFICATION FairSpec
CONSTANTS
  Nothing = Nothing
  Categories = {c1, c2}
  Urls = {u1, u2}
  Readers = {r1, r2}
  Admins = {a1}
  MaxVersion = 2
INVARIANTS TypeOK StaleIsExcused
PROPERTIES EventuallyFresh
