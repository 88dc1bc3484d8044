SPECIFICATION TradesSpec
CONSTANTS
  None = None
  WorkerIds = {w1}
  ServiceIds = {plumbing, cleaning}
  RequestIds = {q1, q2, q3}
  Calls = {c1, c2}
SYMMETRY Symmetry
INVARIANTS
  TradesTypeOK
  ApprovedMeansCleared
  OneLiveRequest
PROPERTIES
  ImplementsRoster
  TradesFrozen
  DecisionsAreFinal
