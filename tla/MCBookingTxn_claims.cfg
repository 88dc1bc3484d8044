SPECIFICATION FairTxnSpec
CONSTANTS
  trade = trade
  None = None
  Free = Free
  WorkerIds = {w1, w2}
  ServiceIds = {trade}
  BookingIds = {b1}
  ServiceOf <- OneTrade
  Requests = {r1, r2, r3}
  Overlapping = {"claim", "cancel", "review"}
  MaxJobs = 1
PROPERTY
  Serializable
  RequestsEnd
