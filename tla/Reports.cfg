\* Two charts, one of which reports its stop-outs live; the terminal stops once.
SPECIFICATION LiveSpec
CONSTANTS
  Symbols = {xau, btc}
  LiveReporters = {xau}
  MaxDeals = 2
  MaxStops = 1
INVARIANTS
  TypeOK
  NoDuplicateTicket
  BasketReportedOnce
PROPERTIES
  WatermarkDurable
  ScanInOrder
  CatchesUp
CHECK_DEADLOCK FALSE
