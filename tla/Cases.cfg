SPECIFICATION Spec
CONSTANTS
  Cases = {1, 2}
  Starts <- MCStarts
  Opener = "ana"
  Users = {"ana", "ben"}
  Workers = {w1, w2}
  Tick = "tick"
  Events = {"nav", "ticket"}
  Touched <- MCTouched
  ReadInTurn = {"nav"}
  MaxDay = 2
  MaxRequests = 2
  MaxFaults = 0
INVARIANTS TypeOK RowFollowsRecord LiftsEndWaits RefusedOnceClosed LinesWakeOnce
PROPERTIES CreationsAreNumbered
SYMMETRY MCAlike
CHECK_DEADLOCK FALSE
