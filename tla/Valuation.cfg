SPECIFICATION Spec
CONSTANTS
  Fund = "fund"
  Cash = "cash"
  MaxDay = 3
  Sizes <- MCSizes
  Quotes = {2}
  Amounts = {1}
  Starts <- MCStarts
  Workbooks <- MCWorkbooks
  Workers = {"w1", "w2"}
  MaxOps = 2
  MaxFaults = 1
INVARIANTS TypeOK NavsFollowBook PathFollowsFlows
PROPERTIES ForeignNavsSpared
CHECK_DEADLOCK FALSE
