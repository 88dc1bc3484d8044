SPECIFICATION ClientSpec
CONSTANTS
  MaxSessions = 3
  Slots <- TwoSlots
  Tabs = {t1}
  Calls = {c1, c2}
  Kinds = {"api"}
  Faults = {}
PROPERTY
  StillDeniedMeansGone
