CONSTANTS
 TradeSymbols = {"XAUUSD", "BTCUSD"}
 Profits <- MCProfits
 DaySeconds = 4
 HbAfterWindow = 1
 Gap = 3
 MaxRows = 6
 MaxBeats = 0
 MaxGaps = 0
SPECIFICATION ReportsSpec
INVARIANT TwinsAgree
CHECK_DEADLOCK FALSE
