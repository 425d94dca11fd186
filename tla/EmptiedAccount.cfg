SPECIFICATION Spec
CONSTANTS
  Fund = "fund"
  Cash = "cash"
  MaxDay = 3
  Sizes <- MCSizes
  Quotes = {2}
  Amounts = {1}
  Starts <- MCStarts
  Workbooks <- MCEmptied
  Workers = {"w1", "w2"}
  MaxOps = 1
  MaxFaults = 0
PROPERTIES StatementsAreValued
CHECK_DEADLOCK FALSE
