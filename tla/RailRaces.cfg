\* One chart, two commands of the event loop and a worker thread, a restart.
SPECIFICATION LiveSpec
CONSTANTS
  Symbols = {xau}
  MaxProposals = 2
  MaxTicket = 1
  ApprovalTtl = 0
  ResultTtl = 1
  MaxRestarts = 1
  LoopTaps = {"move_sl"}
  DashTaps = {"close_all"}
  Signals = {}
INVARIANTS
  RunsOnce
  SingleInFlight
PROPERTY
  ApprovedSettles
CHECK_DEADLOCK FALSE
