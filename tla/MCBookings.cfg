SPECIFICATION Spec
CONSTANTS
  w1 = w1
  w2 = w2
  b1 = b1
  b2 = b2
  plumbing = plumbing
  cleaning = cleaning
  None = None
  WorkerIds = {w1, w2}
  ServiceIds = {plumbing, cleaning}
  BookingIds = {b1, b2}
  ServiceOf <- TwoTrades
  Orders <- TwoOrders
  Contacts = {b1}
SYMMETRY WorkerSymmetry
INVARIANTS
  Timeline
  MoneyMatchesStatus
  AggregateIsTrue
  JobsCompletedIsTrue
  EveryJobIsSomewhere
  AccountPhonesAreForLiveJobs
  BooksBalance
