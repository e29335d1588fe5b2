\* The dashboard's close of one position.
SPECIFICATION Spec
CONSTANTS
  Symbols = {xau, btc}
  MaxProposals = 1
  MaxTicket = 2
  ApprovalTtl = 1
  ResultTtl = 2
  MaxRestarts = 0
  LoopTaps = {}
  DashTaps = {"close_position"}
  Signals = {}
SYMMETRY ChartSymmetry
INVARIANT
  ClosesOnlyTheTicket
CHECK_DEADLOCK FALSE
