\* Two interchangeable charts, every tap, one command at a time, a restart.
SPECIFICATION Spec
CONSTANTS
  Symbols = {xau, btc}
  MaxProposals = 1
  MaxTicket = 1
  ApprovalTtl = 1
  ResultTtl = 2
  MaxRestarts = 1
  LoopTaps = {"exitnow", "mtrade", "move_sl", "move_sl_be", "close_half",
              "reset_brake", "stop", "agent_close", "agent_move"}
  DashTaps = {"close_all", "close_position", "quick"}
  Signals = {}
SYMMETRY ChartSymmetry
INVARIANTS
  TypeOK
  
  RightChart
CHECK_DEADLOCK FALSE
