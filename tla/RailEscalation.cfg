\* [Close 50%] and [Lock BE].
SPECIFICATION Spec
CONSTANTS
  Symbols = {xau, btc}
  MaxProposals = 1
  MaxTicket = 2
  ApprovalTtl = 1
  ResultTtl = 2
  MaxRestarts = 0
  LoopTaps = {"close_half", "move_sl_be"}
  DashTaps = {}
  Signals = {}
SYMMETRY ChartSymmetry
INVARIANT
  DoesWhatWasTapped
CHECK_DEADLOCK FALSE
