SPECIFICATION Spec
CONSTANTS
  r1 = r1
  r2 = r2
  paper = paper
  metal = metal
  None = None
  Categories = {paper, metal}
  PaperCategories = {paper}
  Messages <- Said
  Requests = {r1, r2}
  Kept <- Drafts
  Priced = {paper}
  Edited = {"addressLine1"}
  Offered = {1}
  MaxBookings = 2
SYMMETRY Alike
CHECK_DEADLOCK FALSE
INVARIANTS DraftInv FormInv
PROPERTIES AnswersStand DraftReachesForm
