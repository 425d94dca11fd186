SPECIFICATION Spec
CONSTANTS
  a = a
  j = j
  s1 = s1
  s2 = s2
  None = None
  Typed = {a}
  Jobs = {j}
  Sessions = {s1}
  Caller = s1
  Uses <- MCUses
  MaxRounds = 1
  HistoryMax = 4
  HistoriesLimit = 1
  Workers = 2
  Lines = 0
  UserLines = {}
PROPERTIES LockIsFreed
CHECK_DEADLOCK FALSE
