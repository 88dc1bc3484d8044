SPECIFICATION TxnSpec
CONSTANTS
  trade = trade
  None = None
  Free = Free
  WorkerIds = {w1}
  ServiceIds = {trade}
  BookingIds = {b1, b2}
  ServiceOf <- OneTrade
  Requests = {r1, r2, r3}
  Overlapping = {"review"}
  MaxJobs = 2
SYMMETRY Symmetry
INVARIANT
  RatingCountIsTrue
