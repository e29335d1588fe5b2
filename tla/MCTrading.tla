----------------------------- MODULE MCTrading -----------------------------
(***************************************************************************)
(* The trading rules and the records of trading together: the replay of    *)
(* the back-test engine, the basket of the EA and its risk manager, the    *)
(* file of the data base, its candles, the trade reports and the bands of  *)
(* the dashboard.  They share no state that their properties depend on, so *)
(* that a behaviour is about one of them, `focus`; the others stay as they *)
(* are.                                                                    *)
(***************************************************************************)
EXTENDS Replay, Basket, Risk, Records, TradeReports

VARIABLE focus

ModeOf(entry, exit, confirm, revive) ==
    [entry |-> entry, exit |-> exit, confirm |-> confirm, revive |-> revive]
MCReplayModes ==
    {ModeOf("adr", "target-exit", "loose", FALSE), ModeOf("adr", "floor-a", "strict", TRUE),
     ModeOf("adr", "floor-b", "strict", FALSE), ModeOf("adr", "floor-a-adds", "clearance", FALSE),
     ModeOf("hybrid", "target-exit", "strict", TRUE), ModeOf("fixed", "target-exit", "loose", FALSE)}
MCMoves == {-4, 6}
MCPriceMoves == {-3, 6}
MCEquityMoves == {-3, 2}
MCGroups == << <<"strategy_id">>, <<"profit">>, <<"sr_agree", "sr_tier">>, <<"symbol">> >>
MCProfits == {-1, 2}
MCLegCap == [s \in BandCharts |-> IF s = "XAUUSD" THEN 2 ELSE 0]
OldRow(event) == [symbol |-> "BTCUSD", event |-> event, ticket |-> 0, dir |-> "SELL", px |-> 40,
                  sl |-> IF event = "open" THEN 44 ELSE 0, tp |-> 0]
MCOldRows == <<OldRow("open"), OldRow("close")>>

\* The state of every part but one.
TradingVars == <<replayVars, basketVars, riskVars, storeVars, reportVars, candleVars, bandVars,
                 focus>>
ButReplay == <<basketVars, riskVars, storeVars, reportVars, candleVars, bandVars, focus>>
ButBasket == <<replayVars, riskVars, storeVars, reportVars, candleVars, bandVars, focus>>
ButRisk == <<replayVars, basketVars, storeVars, reportVars, candleVars, bandVars, focus>>
ButStore == <<replayVars, basketVars, riskVars, reportVars, candleVars, bandVars, focus>>
ButReports == <<replayVars, basketVars, riskVars, storeVars, candleVars, bandVars, focus>>
ButCandles == <<replayVars, basketVars, riskVars, storeVars, reportVars, bandVars, focus>>
ButBands == <<replayVars, basketVars, riskVars, storeVars, reportVars, candleVars, focus>>

\* Where a part may start in several ways, it starts in one while out of focus.
TradingInit ==
    /\ focus \in {"replay", "basket", "risk", "store", "reports", "candles", "bands"}
    /\ ReplayInit /\ BasketInit /\ RiskInit /\ StoreInit /\ ReportsInit /\ CandlesInit
    /\ BandsInit
    /\ focus # "replay" => mode = ModeOf("fixed", "target-exit", "loose", FALSE)
    /\ focus # "basket" => entryMode = "adr"
    /\ focus # "store" => columns = AllColumns /\ oldNames = {} /\ ~oldBeats

TradingNext ==
    \/ focus = "replay" /\ ReplayNext /\ UNCHANGED ButReplay
    \/ focus = "basket" /\ BasketNext /\ UNCHANGED ButBasket
    \/ focus = "risk" /\ RiskNext /\ UNCHANGED ButRisk
    \/ focus = "store" /\ StoreNext /\ UNCHANGED ButStore
    \/ focus = "reports" /\ ReportsNext /\ UNCHANGED ButReports
    \/ focus = "candles" /\ CandlesNext /\ UNCHANGED ButCandles
    \/ focus = "bands" /\ BandsNext /\ UNCHANGED ButBands

TradingSpec == TradingInit /\ [][TradingNext]_TradingVars

TradingTypeOK ==
    /\ ReplayTypeOK /\ BasketTypeOK /\ RiskTypeOK
    /\ StoreTypeOK /\ ReportsTypeOK /\ CandlesTypeOK
    /\ BandsTypeOK
=============================================================================
