SPECIFICATION TxnSpec
CONSTANTS
  trade = trade
  None = None
  Free = Free
  WorkerIds = {w1, w2}
  ServiceIds = {trade}
  BookingIds = {b1}
  ServiceOf <- OneTrade
  Requests = {r1, r2}
  Overlapping = {"assign", "claim"}
  MaxJobs = 1
SYMMETRY Symmetry
PROPERTY
  NoDoubleBooking
