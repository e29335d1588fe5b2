CONSTANTS
 ReplayModes <- MCReplayModes
 Moves <- MCMoves
 Wick = 4
 FirstClose = 100
 EmaLine = 100
 Atr = 4
 StartBalance = 1000
 RiskPct = 2
 TargetPct = 5
 LockPct = 50
 ActivateR = 1
 MaxPositions = 3
 ConfirmCloses = 1
 ConfirmClear = 0
 ReviveClear = 2
 AddTrigger = 4
 FloorArm = 1
 StopBuffer = 1
 MinStop = 4
 SpreadPerOz = 1
 MinOz = 1
 FixedOz = 5
 SmallBalance = 400
 MidBalance = 900
 ExpoBars = 4
 MaxBars = 6
 MaxSurprises = 2
 BasketModes = {"adr", "fixed", "hybrid"}
 PriceMoves <- MCPriceMoves
 FirstPrice = 50
 BarAtr = 2
 StopMult = 2
 Tp1R = 1
 Tp2R = 2
 FirstAddAtr = 3
 AddAtr = 1
 EntryLots = 3
 MaxLegs = 3
 TargetMoney = 24
 BudgetMoney = 12
 StopsLevel = 1
 BasketBars = 4
 MaxRestarts = 1
 MaxEvents = 2
 StartEquity = 20
 EquityMoves <- MCEquityMoves
 DrawdownPct = 20
 LossPct = 10
 LossFloorCap = 3
 ExpoLimit = 2
 OwnMagic = TRUE
 RiskBars = 3
 RiskTrouble = 3
 MaxUntold = 1
 Groups <- MCGroups
 Readers = {1, 2}
 MaxKills = 2
 MaxInserts = 2
 TradeSymbols = {"XAUUSD", "BTCUSD"}
 Profits <- MCProfits
 DaySeconds = 4
 HbAfterWindow = 1
 Gap = 3
 MaxRows = 5
 MaxBeats = 1
 MaxGaps = 1
 CandleSeries = {"XAUUSD", "BTCUSD"}
 Analyses = {1, 2}
 WindowCap = 2
 PostLen = 1
 PruneBars = 2
 MaxCandleBars = 4
 MaxAnalyses = 3
 MaxCandleTrouble = 1
 BandCharts = {"XAUUSD", "BTCUSD"}
 Prices = {40}
 Stops = {44}
 StopGap = 4
 TargetGap = 8
 PctDelta = 2
 OpenLookback = 4
 ClosedLookback = 4
 QueueCap = 3
 AdrModes = {FALSE}
 FirstDirection = "BUY"
 LegCap <- MCLegCap
 OldRows <- MCOldRows
 MaxFills = 2
 MaxBandBeats = 2
 MaxStopMoves = 1
 MaxBandTrouble = 1
SPECIFICATION TradingSpec
INVARIANTS TradingTypeOK TradesAreRight OneBasket ReportsAreTrue ServesTheFile
PROPERTIES StopOnlyTightens MoneyConserved RiskFreeStays LimitsSurvive BrakeBoundsLoss
CHECK_DEADLOCK FALSE
