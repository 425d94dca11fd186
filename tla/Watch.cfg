CONSTANTS
  q = q
  p = p
  Quotas = {q}
  Signals = {p}
  Presses = {n}
  Magnitudes <- MCMagnitudes
  Books <- MCBooks
  Warns <- MCWarns
  Deltas = {0, 2}
  Default <- MCDefault
  Overlays <- MCOverlays
  Ceiling = 3
  MaxFindings = 1
  MaxMoves = 2
  MaxActs = 1
  MaxFaults = 1
SPECIFICATION Spec
INVARIANTS FindingsGrounded
PROPERTIES BreachIsOffered FallsReachCases BeatsFallSilent BreachIsSeen
CHECK_DEADLOCK FALSE
