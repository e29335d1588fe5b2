------------------------------- MODULE Risk -------------------------------
(***************************************************************************)
(* CRiskManager: the high-water mark and the kill switch, the daily        *)
(* exposure budget and the daily loss brake of one chart.  `marksGv` are   *)
(* its global variables, `marksDisk` what a hard kill leaves of them.  The *)
(* broker's history is the truth about today's realized loss; the EA reads *)
(* it at most once per bar, unless a transaction drops the reading.        *)
(***************************************************************************)
EXTENDS Integers

CONSTANTS
    StartEquity, EquityMoves, \* what an open position may gain or lose
    DrawdownPct, LossPct, LossFloorCap, \* MaxDrawdownPct, MaxDailyLossPct, the $15 floor
    ExpoLimit,     \* MaxDailyExposureMin, in bars
    OwnMagic,      \* does the magic number of this chart equal the input MagicNumber?
    RiskBars, RiskTrouble, MaxUntold \* bounds of the run

ASSUME RiskAssumption ==
    /\ StartEquity \in Nat \ {0} /\ EquityMoves \subseteq Int /\ OwnMagic \in BOOLEAN
    /\ {DrawdownPct, LossPct} \subseteq 0..100
    /\ {LossFloorCap, ExpoLimit, RiskBars, RiskTrouble, MaxUntold} \subseteq Nat

VARIABLES
    account,       \* [balance, floating, realized]: at the broker, realized today
    holding,       \* an own position is open
    untold,        \* closing deals whose transaction the EA has not handled yet
    marksGv, marksDisk, \* [hwm, kill, expo, resetDay, base]
    reading,       \* [valid, value]: m_dlCacheBar and m_dlRealized
    expoLimit,     \* m_maxExpoMin
    today,
    riskPast,      \* history: [stop, held, unread]
    riskLeft       \* bars and troubles still to come

riskVars == <<account, holding, untold, marksGv, marksDisk, reading, expoLimit, today,
              riskPast, riskLeft>>

NoReading == [valid |-> FALSE, value |-> 0]
RiskInit ==
    /\ account = [balance |-> StartEquity, floating |-> 0, realized |-> 0]
    /\ holding = FALSE /\ untold = 0
    /\ marksGv = [hwm |-> 0, kill |-> FALSE, expo |-> 0, resetDay |-> 0, base |-> 0]
    /\ marksDisk = marksGv
    /\ reading = NoReading /\ expoLimit = ExpoLimit /\ today = 1
    /\ riskPast = [stop |-> FALSE, held |-> 0, unread |-> FALSE]
    /\ riskLeft = [bars |-> RiskBars, trouble |-> RiskTrouble]

Equity == account.balance + account.floating
MaxOf(a, b) == IF a > b THEN a ELSE b
MinOf(a, b) == IF a < b THEN a ELSE b
Trouble == /\ riskLeft.trouble > 0
           /\ riskLeft' = [riskLeft EXCEPT !.trouble = @ - 1]

-----------------------------------------------------------------------------
(* The daily loss brake.  `now` is a reading of today's realized P/L. *)

\* A scan of the history that fails reads 0, and that is kept for the bar too.
TodayRealized(now, scanned) ==
    IF reading.valid THEN now = reading.value
    ELSE IF scanned THEN now = account.realized ELSE now = 0
Read(now) == reading' = [valid |-> TRUE, value |-> now]

BrakeBase == IF marksGv.resetDay # today THEN 0
             ELSE LET base == MinOf(marksGv.base, 0)
                  IN IF base < -account.balance THEN 0 ELSE base
Since(now) == now - BrakeBase

\* The larger of the percentage of the balance the day started with and a
\* floor of a fifth of it, at most LossFloorCap.
Limit(now) ==
    LET start == account.balance - Since(now)
    IN IF start <= 0 THEN 0
       ELSE MaxOf((start * LossPct) \div 100, MinOf(start \div 5, LossFloorCap))
DailyLossBreached(now) ==
    LossPct > 0 /\ Since(now) < 0 /\ Limit(now) > 0 /\ Since(now) <= -Limit(now)
NearlySpent(now) ==
    LossPct > 0 /\ Since(now) < 0 /\ Limit(now) > 0 /\ -100 * Since(now) >= 70 * Limit(now)

Scans == {TRUE} \union (IF riskLeft.trouble > 0 THEN {FALSE} ELSE {})
\* Readings the EA may take, and whether the truth was missed by a failed scan.
Readings == {now \in {reading.value, account.realized, 0} :
                \E scanned \in Scans : TodayRealized(now, scanned)}
Missed(now) == riskPast.unread \/ (~reading.valid /\ now # account.realized)
Noted(now) == riskPast' = [riskPast EXCEPT !.unread = Missed(now)]

-----------------------------------------------------------------------------
(* Bars *)

\* Mutant: the global variables are left to the terminal to save.
Flush_Later == UNCHANGED marksDisk
\* GlobalVariablesFlush
Flush == marksDisk' = marksGv'

\* OnBarUpdate: the mark, the kill line, the exposure, one flush.  The new bar
\* drops the reading; at midnight the day's figures start anew.
OnBarUpdate(midnight) ==
    /\ riskLeft.bars > 0
    /\ riskLeft' = [riskLeft EXCEPT !.bars = @ - 1]
    /\ today' = IF midnight THEN today + 1 ELSE today
    /\ account' = IF midnight THEN [account EXCEPT !.realized = 0] ELSE account
    /\ LET hwm == MaxOf(marksGv.hwm, Equity)
           falls == hwm > 0 /\ 100 * Equity <= hwm * (100 - DrawdownPct)
           used == IF midnight THEN 0 ELSE marksGv.expo
       IN /\ marksGv' = [marksGv EXCEPT
                            !.hwm = hwm, !.kill = @ \/ falls,
                            !.expo = IF expoLimit = 0 THEN 0
                                     ELSE IF holding THEN used + 1 ELSE used]
          /\ riskPast' = [stop |-> riskPast.stop \/ falls, unread |-> FALSE,
                          held |-> IF expoLimit = 0 THEN 0
                                   ELSE (IF midnight THEN 0 ELSE riskPast.held)
                                        + (IF holding THEN 1 ELSE 0)]
    /\ Flush
    /\ reading' = NoReading
    /\ UNCHANGED <<holding, untold, expoLimit>>

-----------------------------------------------------------------------------
(* The market and the broker *)

Drift(move) ==
    /\ holding /\ Trouble
    /\ account' = [account EXCEPT !.floating = @ + move]
    /\ UNCHANGED <<holding, untold, marksGv, marksDisk, reading, expoLimit, today, riskPast>>

\* A stop at the broker, or CloseAll: the deal is in the history at once, its
\* transaction comes later.
DealCloses ==
    /\ holding /\ holding' = FALSE
    /\ untold < MaxUntold
    /\ account' = [balance |-> Equity, floating |-> 0,
                   realized |-> account.realized + account.floating]
    /\ untold' = untold + 1
    /\ UNCHANGED <<marksGv, marksDisk, reading, expoLimit, today, riskPast, riskLeft>>

\* Mutant: a closing deal leaves the reading of the bar.
OnTransaction_Keeps ==
    /\ untold > 0 /\ untold' = untold - 1
    /\ UNCHANGED <<account, holding, marksGv, marksDisk, reading, expoLimit, today, riskPast,
                   riskLeft>>

\* OnTradeTransaction: only deals with the input MagicNumber drop the reading.
OnTransaction ==
    /\ untold > 0 /\ untold' = untold - 1
    /\ reading' = IF OwnMagic THEN NoReading ELSE reading
    /\ UNCHANGED <<account, holding, marksGv, marksDisk, expoLimit, today, riskPast, riskLeft>>

-----------------------------------------------------------------------------
(* Decisions *)

ExposureSpent == expoLimit > 0 /\ marksGv.expo >= expoLimit

\* The heartbeat reports how much of the brake is used.
Heartbeat ==
    /\ \E now \in Readings : Read(now) /\ Noted(now)
    /\ UNCHANGED <<account, holding, untold, marksGv, marksDisk, expoLimit, today, riskLeft>>

\* CanEnter passes.  Weekend, window, news, spread and ADX may refuse as well:
\* an entry that is refused leaves only a reading, as a heartbeat does.
CanEnter(now) == ~marksGv.kill /\ ~ExposureSpent /\ ~DailyLossBreached(now)
EntryOpens ==
    /\ ~holding
    /\ \E now \in Readings : CanEnter(now) /\ Read(now) /\ Noted(now)
    /\ holding' = TRUE
    /\ UNCHANGED <<account, untold, marksGv, marksDisk, expoLimit, today, riskLeft>>

\* reset_brake: refused unless 70% of the brake is used right now.
ResetDailyBrake ==
    /\ \E now \in Readings : NearlySpent(now)
    /\ \E scanned \in Scans :
          LET now == IF scanned THEN account.realized ELSE 0
          IN /\ marksGv' = [marksGv EXCEPT !.base = now, !.resetDay = today]
             /\ Read(now)
             /\ riskPast' = [riskPast EXCEPT !.unread = now # account.realized]
    /\ Flush
    /\ Trouble
    /\ UNCHANGED <<account, holding, untold, expoLimit, today>>

\* The service turns the exposure limit off or on.
ApplyRuntimeConfig ==
    /\ Trouble
    /\ expoLimit' = IF expoLimit = 0 THEN ExpoLimit ELSE 0
    /\ marksGv' = IF expoLimit' = 0 THEN [marksGv EXCEPT !.expo = 0] ELSE marksGv
    /\ riskPast' = [riskPast EXCEPT !.held = IF expoLimit' = 0 THEN 0 ELSE @]
    /\ UNCHANGED <<account, holding, untold, marksDisk, reading, today>>

-----------------------------------------------------------------------------
(* Maintenance and restarts *)

\* XauMaintenance, ResetKillSwitch: not flushed.
Maintenance ==
    /\ Trouble
    /\ marksGv' = [marksGv EXCEPT !.kill = FALSE, !.hwm = Equity]
    /\ riskPast' = [riskPast EXCEPT !.stop = FALSE]
    /\ UNCHANGED <<account, holding, untold, marksDisk, reading, expoLimit, today>>

\* A start takes the limit from the inputs again; transactions are not replayed.
RiskRestart(hard) ==
    /\ Trouble
    /\ marksGv' = IF hard THEN marksDisk ELSE marksGv
    /\ marksDisk' = marksGv'
    /\ reading' = NoReading /\ untold' = 0 /\ expoLimit' = ExpoLimit
    /\ riskPast' = [riskPast EXCEPT !.unread = FALSE]
    /\ UNCHANGED <<account, holding, today>>

RiskNext ==
    \/ \E midnight \in BOOLEAN : OnBarUpdate(midnight)
    \/ \E move \in EquityMoves : Drift(move)
    \/ DealCloses \/ OnTransaction \/ Heartbeat \/ EntryOpens \/ ResetDailyBrake
    \/ ApplyRuntimeConfig \/ Maintenance \/ \E hard \in BOOLEAN : RiskRestart(hard)
RiskSpec == RiskInit /\ [][RiskNext]_riskVars

-----------------------------------------------------------------------------
(* Properties *)

RiskTypeOK ==
    /\ account.realized \in Int /\ Equity \in Int /\ holding \in BOOLEAN
    /\ untold \in Nat /\ today \in Nat /\ marksGv.expo \in Nat /\ marksDisk.expo \in Nat
    /\ marksGv.resetDay <= today /\ expoLimit \in {0, ExpoLimit}

Entering == ~holding /\ holding'

\* "a tripped kill switch resurrecting as clear, a rolled-back HWM, and freed-up
\* exposure budget": after the equity has closed a bar at the kill line no entry
\* is made until XauMaintenance clears it, and none beyond the exposure of the
\* day, across clean and hard restarts.
LimitsSurvive ==
    [][Entering => /\ ~riskPast.stop
                   /\ (expoLimit = 0 \/ riskPast.held < expoLimit)]_riskVars

\* No entry is made once the loss of the day, from the last reset on, has
\* reached the limit: but for a failed scan of the history, a deal whose
\* transaction is still in the queue, and a chart with another magic number.
BrakeBoundsLoss ==
    [][Entering /\ OwnMagic /\ untold = 0 /\ ~riskPast'.unread
          => ~DailyLossBreached(account.realized)]_riskVars
=============================================================================
