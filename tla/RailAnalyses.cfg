\* One chart, two proposals of its analyses, taken, skipped or expired.
SPECIFICATION Spec
CONSTANTS
  Symbols = {xau}
  MaxProposals = 2
  MaxTicket = 1
  ApprovalTtl = 1
  ResultTtl = 2
  MaxRestarts = 0
  LoopTaps = {}
  DashTaps = {}
  Signals = {"BUY", "EXIT"}
PROPERTIES
  ImplementsQueue
  FreshDispatch
CHECK_DEADLOCK FALSE
