SPECIFICATION FairClientSpec
CONSTANTS
  MaxSessions = 3
  Slots <- TwoSlots
  Tabs = {t1}
  Calls = {c1, c2}
  Kinds = {"api", "profile", "logout", "logout_all"}
  Faults = {"loss"}
INVARIANTS
  ClientTypeOK
  ExchangedIsRevoked
  ExchangedOnce
  HoldsNewest
PROPERTY
  CallsEnd
