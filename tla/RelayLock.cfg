\* The launcher is run twice after a relay was killed.
SPECIFICATION Spec
CONSTANTS
  Relays = {r1, r2}
  MaxSessions = 0
  MaxCalls = 0
  MaxStarts = 3
  MaxFailures = 0
SYMMETRY RelaySymmetry
INVARIANT
  OneRelay
CHECK_DEADLOCK FALSE
