\* One chart is enough to lose a report for good.
SPECIFICATION Spec
CONSTANTS
  Symbols = {xau}
  LiveReporters = {xau}
  MaxDeals = 2
  MaxStops = 0
INVARIANT
  NothingSkipped
CHECK_DEADLOCK FALSE
