SPECIFICATION Spec
CONSTANTS
  Cases = {1, 2}
  Starts <- MCWaiting
  Opener = "ana"
  Users = {"ana", "ben"}
  Workers = {"w1"}
  Tick = "tick"
  Events = {"nav", "ticket"}
  Touched <- MCTouched
  ReadInTurn = {"nav"}
  MaxDay = 2
  MaxRequests = 2
  MaxFaults = 1
PROPERTIES DueWaitsEnd
CHECK_DEADLOCK FALSE
