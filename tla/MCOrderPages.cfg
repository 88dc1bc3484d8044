SPECIFICATION FairPagesSpec
CONSTANTS
  None = None
  WorkerIds = {w1}
  ServiceIds = {plumbing}
  Bookings = {1, 2}
  Start <- StartOfVisit
  Gets = {g1, g2}
  MaxLost = 1
  HasRoom = TRUE
INVARIANTS
  StaysWavedAway
  PromptIsDue
PROPERTIES
  SettlesOnPage
  ListCatchesUp
