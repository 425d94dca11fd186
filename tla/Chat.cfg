SPECIFICATION Spec
CONSTANTS
  a = a
  j = j
  s1 = s1
  s2 = s2
  None = None
  Typed = {a}
  Jobs = {j}
  Sessions = {s1, s2}
  Caller = s1
  Uses <- MCUses
  MaxRounds = 1
  HistoryMax = 4
  HistoriesLimit = 1
  Workers = 2
  Lines = 1
  UserLines = {1}
INVARIANTS TurnsEnterWhole ChartsFollowAnswers LinesRelayedOnce
PROPERTIES TurnsRunAlone TurnsEnd
CHECK_DEADLOCK FALSE
