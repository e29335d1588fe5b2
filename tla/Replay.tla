------------------------------ MODULE Replay ------------------------------
(***************************************************************************)
(* The back-test engine: a bar-by-bar replay of the HalfTrend lane on the  *)
(* shared account.  Prices are ticks, sizes ounces, money tick-ounces.     *)
(*                                                                         *)
(* One bar is three steps of a sequential program: Observe (the flip, the  *)
(* flatten, the signal), Manage (the open basket), Enter (a new basket and *)
(* the equity mark).  Indicators are inputs of the bar: which side of the  *)
(* EMA the close is on follows from a constant EMA line, HalfTrend turns   *)
(* and the verdicts of the filters are choices.                            *)
(***************************************************************************)
EXTENDS Integers, Sequences, SequencesExt, Sums

CONSTANTS
    ReplayModes,   \* [entry, exit, confirm, revive]: the flags of a run
    Moves, Wick,   \* close to close moves, and how far a wick may reach beyond
    FirstClose, EmaLine, Atr, \* Atr is ATR(14), the same on every bar
    StartBalance, RiskPct, TargetPct, LockPct, ActivateR,
    MaxPositions, ConfirmCloses, ConfirmClear, ReviveClear, AddTrigger,
    FloorArm, StopBuffer, MinStop, SpreadPerOz, MinOz, FixedOz,
    SmallBalance, MidBalance, \* the equity tiers of hybrid mode
    ExpoBars,      \* EXPO_MIN in bars, 0 for no limit
    MaxBars, MaxSurprises \* bounds of the run

EntryFlags == {"adr", "hybrid", "fixed"}
ExitFlags == {"target-exit", "floor-a", "floor-b", "floor-a-adds"}
ConfirmFlags == {"loose", "strict", "clearance"}

ASSUME ReplayAssumption ==
    /\ ReplayModes \subseteq [entry : EntryFlags, exit : ExitFlags, confirm : ConfirmFlags, revive : BOOLEAN]
    /\ Moves \subseteq Int /\ {FirstClose, EmaLine} \subseteq Int
    /\ {Wick, Atr, AddTrigger, SpreadPerOz, ExpoBars} \subseteq Nat
    /\ {ConfirmClear, ReviveClear, FloorArm, StopBuffer, MinStop} \subseteq Nat
    /\ {StartBalance, MaxPositions, ConfirmCloses, MinOz, FixedOz} \subseteq Nat \ {0}
    /\ {SmallBalance, MidBalance, RiskPct, TargetPct, LockPct, ActivateR} \subseteq Nat
    /\ {MaxBars, MaxSurprises} \subseteq Nat

VARIABLES
    mode,      \* the flags
    phase,     \* "observe", "manage", "enter" or "end"
    bar,       \* [i, close, low, high, trend]
    flips,     \* [last, fired, revive, extreme, beyond]: beyond counts the closes
               \* in a row above (positive) or below (negative) the EMA
    signal,    \* "BUY", "SELL" or "none"
    bal,
    basket,
    trades,    \* [pl, why, owed, flip]
    held,      \* bars of today with a basket open
    marks,     \* [peakBal, maxDd, peakEq, maxValley]
    surprises  \* turns, wicks, refusals, breaks and midnights still to come

replayVars == <<mode, phase, bar, flips, signal, bal, basket, trades, held, marks, surprises>>

NoBasket == [dir |-> "none", legs |-> <<>>, stop |-> 0, peak |-> 0, cycle |-> 0,
             entryStop |-> 0, armed |-> FALSE, owed |-> 0, floorAt |-> 0,
             banked |-> FALSE, soft |-> FALSE, flip |-> 0]

ReplayInit ==
    /\ mode \in ReplayModes
    /\ phase = "observe"
    /\ bar = [i |-> 0, close |-> FirstClose, low |-> FirstClose, high |-> FirstClose,
              trend |-> "BUY"]
    /\ flips = [last |-> 0, fired |-> 0, revive |-> 0, extreme |-> 0, beyond |-> 0]
    /\ signal = "none" /\ bal = StartBalance /\ basket = NoBasket /\ trades = <<>>
    /\ held = 0 /\ surprises = MaxSurprises
    /\ marks = [peakBal |-> StartBalance, maxDd |-> 0,
                peakEq |-> StartBalance, maxValley |-> 0]

IsOpen == basket # NoBasket
Sign(dir) == IF dir = "BUY" THEN 1 ELSE -1
Larger(x, y) == IF x > y THEN x ELSE y
Smaller(x, y) == IF x < y THEN x ELSE y

-----------------------------------------------------------------------------
(* The money of a basket *)

Ounces(b) == Total([k \in DOMAIN b.legs |-> b.legs[k].oz])
Cost(b) == Total([k \in DOMAIN b.legs |-> b.legs[k].oz * b.legs[k].px])

BasketPl(b, px) ==
    Sign(b.dir) * (px * Ounces(b) - Cost(b)) - SpreadPerOz * Ounces(b)

\* The price where the basket's P/L is `amount`, on a whole tick that pays at
\* least that.
FloorPrice(b, amount) ==
    LET due == Cost(b) + Sign(b.dir) * (amount + SpreadPerOz * Ounces(b))
    IN IF b.dir = "BUY" THEN -((-due) \div Ounces(b)) ELSE due \div Ounces(b)

Tighter(b, price) == price * Sign(b.dir) > b.stop * Sign(b.dir)

\* Mutant: the balance forgets the spread.
CloseBasket_NoSpread(b, money, px, why) ==
    /\ bal' = money + BasketPl(b, px) + SpreadPerOz * Ounces(b)
    /\ trades' = Append(trades, [pl |-> BasketPl(b, px), why |-> why,
                                 owed |-> b.owed, flip |-> b.flip])
    /\ basket' = NoBasket /\ UNCHANGED marks

\* close_basket, on a basket and a balance as they are at that moment.
CloseBasket(b, money, px, why) ==
    LET after == money + BasketPl(b, px)
    IN /\ bal' = after
       /\ trades' = Append(trades, [pl |-> BasketPl(b, px), why |-> why,
                                    owed |-> b.owed, flip |-> b.flip])
       /\ marks' = [marks EXCEPT !.peakBal = Larger(@, after),
                                 !.maxDd = Larger(@, Larger(marks.peakBal, after) - after)]
       /\ basket' = NoBasket

-----------------------------------------------------------------------------
(* Observe *)

\* A first flip, or a turn of HalfTrend, starts the extreme and the counter anew.
Flipped(x, turned) ==
    LET fresh == flips.last = 0 \/ turned
        extreme == IF fresh THEN IF x.trend = "BUY" THEN x.low ELSE x.high
                   ELSE IF x.trend = "BUY" THEN Smaller(flips.extreme, x.low)
                   ELSE Larger(flips.extreme, x.high)
        count == IF fresh THEN 0 ELSE flips.beyond
        beyond == IF x.close > EmaLine THEN Larger(count, 0) + 1
                  ELSE IF x.close < EmaLine THEN Smaller(count, 0) - 1
                  ELSE count
    IN [flips EXCEPT !.last = IF fresh THEN x.i ELSE @, !.extreme = extreme,
                     !.beyond = beyond]

Clears(x, margin) == (x.close - EmaLine) * Sign(x.trend) > margin

\* The entry decision: <<the signal, the flip state after it>>.
Fire(x, f) == <<x.trend, [f EXCEPT !.fired = f.last]>>
Silent(f) == <<"none", f>>

Decide(x, f) ==
    IF f.fired = f.last THEN Silent(f)
    ELSE IF mode.confirm = "clearance"
    THEN IF Clears(x, ReviveClear) THEN Fire(x, f) ELSE Silent(f)
    ELSE IF mode.confirm = "strict"
    THEN IF x.i - f.last # ConfirmCloses THEN Silent(f)
         ELSE IF Clears(x, ConfirmClear) THEN Fire(x, f)
         ELSE Silent([f EXCEPT !.fired = f.last,
                               !.revive = IF mode.revive THEN f.last ELSE @])
    ELSE IF Clears(x, 0) /\ f.beyond * Sign(x.trend) >= ConfirmCloses THEN Fire(x, f)
    ELSE Silent(f)

\* A flip that failed its confirm may enter later, once.
Revived(x, decision) ==
    LET f == decision[2]
    IN IF /\ decision[1] = "none" /\ mode.revive
          /\ f.revive = f.last /\ Clears(x, ReviveClear)
       THEN <<x.trend, [f EXCEPT !.revive = 0]>>
       ELSE decision

Bar(move, wick, turned) ==
    LET px == bar.close + move
    IN [i |-> bar.i + 1, close |-> px,
        low |-> Smaller(bar.close, px) - (IF wick THEN Wick ELSE 0),
        high |-> Larger(bar.close, px) + (IF wick THEN Wick ELSE 0),
        trend |-> IF ~turned THEN bar.trend
                  ELSE IF bar.trend = "BUY" THEN "SELL" ELSE "BUY"]

\* What makes a bar special: at most one thing per bar.
Events == {"none", "turn", "wick", "refuse", "midnight", "break"}
Happens(e) == /\ e \in Events
              /\ surprises' = surprises - (IF e = "none" THEN 0 ELSE 1)
              /\ surprises' >= 0

NextBarWith(move, e) ==
    /\ phase = "observe" /\ bar.i < MaxBars
    /\ Happens(e)
    /\ bar' = Bar(move, e = "wick", e = "turn")
    /\ held' = (IF e = "midnight" THEN 0 ELSE held) + (IF IsOpen THEN 1 ELSE 0)

\* The filters refuse the decided signal (RSI, MACD, a wall of the zones): the
\* flip stays spent.
Observe(move, e) ==
    /\ e # "break" /\ NextBarWith(move, e)
    /\ LET x == Bar(move, e = "wick", e = "turn")
           decision == Revived(x, Decide(x, Flipped(x, e = "turn")))
       IN /\ flips' = decision[2]
          /\ signal' = IF e = "refuse" THEN "none" ELSE decision[1]
    /\ phase' = "manage"
    /\ UNCHANGED <<mode, bal, basket, trades, marks>>

\* The flatten before the break: no decision, no entry, no mark on this bar.
ObserveBreak(move) ==
    /\ NextBarWith(move, "break")
    /\ flips' = Flipped(Bar(move, FALSE, FALSE), FALSE)
    /\ \/ IsOpen /\ CloseBasket(basket, bal, bar.close + move, "flatten")
       \/ ~IsOpen /\ UNCHANGED <<bal, basket, trades, marks>>
    /\ signal' = "none"
    /\ UNCHANGED <<mode, phase>>

-----------------------------------------------------------------------------
(* Manage *)

Hit == IF basket.dir = "BUY" THEN bar.low <= basket.stop ELSE bar.high >= basket.stop

ManageNothing ==
    /\ phase = "manage" /\ ~IsOpen
    /\ phase' = "enter"
    /\ UNCHANGED <<mode, bar, flips, signal, bal, basket, trades, held, marks, surprises>>

\* The stop is filled at its price, before anything the close would do.
ManageStop ==
    /\ phase = "manage" /\ IsOpen /\ Hit
    /\ CloseBasket(basket, bal, basket.stop,
                   IF basket.armed /\ basket.stop * Sign(basket.dir)
                                      >= basket.floorAt * Sign(basket.dir)
                   THEN "floor stop" ELSE "stop")
    /\ phase' = "enter"
    /\ UNCHANGED <<mode, bar, flips, signal, held, surprises>>

\* hybrid: at 1.5R half of the first leg is banked and the stop goes to its price.
Advance(b, k) == (bar.close - b.legs[k].px) * Sign(b.dir)
FirstR(b) == (b.legs[1].px - b.entryStop) * Sign(b.dir)
MustBank(b) == /\ mode.entry = "hybrid" /\ ~b.banked
               /\ FirstR(b) # 0 /\ 2 * Advance(b, 1) >= 3 * FirstR(b)
Half(oz) == oz \div 2 + (IF oz % 4 = 3 THEN 1 ELSE 0)  \* round half to even
BankedBasket(b) ==
    IF MustBank(b)
    THEN [b EXCEPT !.banked = TRUE, !.legs[1].oz = @ - Half(@), !.stop = b.legs[1].px]
    ELSE b
BankedMoney(b) ==
    IF MustBank(b) THEN bal + Advance(b, 1) * Half(b.legs[1].oz) ELSE bal

Target(b) == (b.cycle * TargetPct) \div 100
RiskBudget(b) == (b.cycle * RiskPct) \div 100
HasTarget == mode.entry = "adr" /\ TargetPct > 0
ReachesTarget(b, pl) == HasTarget /\ mode.exit = "target-exit" /\ pl >= Target(b)

\* floor-a arms below the target at the target, floor-b at it a little beyond.
Margin(b) == FloorArm * Ounces(b)
MustArm(b, pl) ==
    /\ HasTarget /\ mode.exit # "target-exit" /\ ~b.armed
    /\ pl >= Target(b) + (IF mode.exit = "floor-b" THEN Margin(b) ELSE 0)
Armed(b, pl) ==
    IF ~MustArm(b, pl) THEN b
    ELSE LET owed == Target(b) - (IF mode.exit = "floor-b" THEN 0 ELSE Margin(b))
             at == FloorPrice(b, owed)
         IN [b EXCEPT !.armed = TRUE, !.owed = owed, !.floorAt = at,
                      !.stop = IF Tighter(b, at) THEN at ELSE @]

LocksProfit(b, pl) == /\ mode.entry # "fixed"
                      /\ b.peak >= ActivateR * RiskBudget(b)
                      /\ 100 * pl <= b.peak * LockPct
Reverses(b) == signal # "none" /\ signal # b.dir

\* A pyramid add: half the way to the entry first, then the lagging ladder.
Positions(money) == IF mode.entry # "hybrid" \/ money > MidBalance THEN MaxPositions
                    ELSE IF money > SmallBalance THEN 2 ELSE 1
\* Mutant: an armed floor freezes nothing.
Frozen_Soft(b) == b.soft
Frozen(b) == (b.armed /\ mode.exit # "floor-a-adds") \/ b.soft
\* Mutant: one leg too many.
MayAdd_OneMore(b, money, pl) ==
    /\ mode.entry # "fixed" /\ ~Frozen(b) /\ b.dir = bar.trend /\ pl > 0
    /\ Len(b.legs) <= Positions(money) /\ Advance(b, Len(b.legs)) >= AddTrigger
MayAdd(b, money, pl) ==
    /\ mode.entry # "fixed" /\ ~Frozen(b)
    /\ b.dir = bar.trend /\ Clears(bar, 0)
    /\ pl > 0 /\ Len(b.legs) < Positions(money)
    /\ Advance(b, Len(b.legs)) >= AddTrigger
    /\ mode.entry = "hybrid" => b.banked
Ladder(b) == IF Len(b.legs) = 1 THEN (b.stop + b.legs[1].px) \div 2
             ELSE (b.legs[Len(b.legs) - 1].px + b.legs[Len(b.legs)].px) \div 2
\* Mutant: the ladder is taken although the floor is tighter.
WithAdd_Loosens(b) ==
    [b EXCEPT !.legs = Append(@, [px |-> bar.close,
                                  oz |-> Larger(MinOz, (7 * Last(@).oz) \div 10)]),
              !.stop = Ladder(b)]
WithAdd(b) ==
    [b EXCEPT !.legs = Append(@, [px |-> bar.close,
                                  oz |-> Larger(MinOz, (7 * Last(@).oz) \div 10)]),
              !.stop = IF b.armed /\ ~Tighter(b, Ladder(b)) THEN @ ELSE Ladder(b)]
Grown(b, money, pl) == IF MayAdd(b, money, pl) THEN WithAdd(b) ELSE b

\* The close-based rules in the order of the code.
Peaked == [basket EXCEPT !.peak = Larger(@, BasketPl(basket, bar.close))]
ManageClose ==
    /\ phase = "manage" /\ IsOpen /\ ~Hit
    /\ LET pl == BasketPl(basket, bar.close)
           b == BankedBasket(Peaked)
           money == BankedMoney(Peaked)
           why == IF ReachesTarget(b, pl) THEN "profit target"
                  ELSE IF LocksProfit(b, pl) THEN "profit lock"
                  ELSE IF Reverses(b) THEN "reversal" ELSE "stay"
       IN \/ /\ why # "stay" /\ CloseBasket(b, money, bar.close, why)
          \/ /\ why = "stay"
             /\ basket' = Grown(Armed(b, pl), money, pl)
             /\ bal' = money
             /\ UNCHANGED <<trades, marks>>
    /\ phase' = "enter"
    /\ UNCHANGED <<mode, bar, flips, signal, held, surprises>>

-----------------------------------------------------------------------------
(* Enter *)

\* Beyond the extreme of the flip, never closer than MinStop: <<stop, distance>>.
EntryStop(dir) ==
    LET far == flips.extreme - Sign(dir) * StopBuffer
        dist == (bar.close - far) * Sign(dir)
        gap == IF dist < 0 THEN -dist ELSE dist
    IN IF gap < MinStop THEN <<bar.close - Sign(dir) * MinStop, MinStop>>
       ELSE <<far, gap>>

\* The bounds of a hybrid entry by equity tier; the tiers above the third only
\* raise its upper bound.
HybridOz == IF bal <= SmallBalance THEN <<MinOz, MinOz>>
            ELSE IF bal <= MidBalance THEN <<MinOz, 2 * MinOz>>
            ELSE <<2 * MinOz, 5 * MinOz>>
EntryOz(dist, soft) ==
    IF mode.entry = "fixed" THEN Larger(MinOz, FixedOz)
    ELSE LET want == (bal * RiskPct) \div (100 * dist * (IF soft THEN 2 ELSE 1))
         IN IF mode.entry = "hybrid" THEN Larger(HybridOz[1], Smaller(want, HybridOz[2]))
            ELSE Larger(MinOz, want)

Mark(b, money) ==
    LET eq == money + (IF b = NoBasket THEN 0 ELSE BasketPl(b, bar.close))
    IN marks' = [marks EXCEPT !.peakEq = Larger(@, eq),
                              !.maxValley = Larger(@, Larger(marks.peakEq, eq) - eq)]

Allowed == signal # "none" /\ ~IsOpen /\ (ExpoBars > 0 => held < ExpoBars)

\* `gate` is the verdict of the window, ADX, regime, chop, bias, headroom and
\* EMA200 gates; a chop may only soften the entry.
Enter(gate) ==
    /\ phase = "enter" /\ Allowed
    /\ LET sized == EntryStop(signal)
           fresh == [NoBasket EXCEPT
                       !.dir = signal, !.stop = sized[1], !.entryStop = sized[1],
                       !.cycle = bal, !.soft = gate = "soft", !.flip = flips.last,
                       !.legs = <<[px |-> bar.close,
                                   oz |-> EntryOz(sized[2], gate = "soft")]>>]
           opens == gate # "blocked" /\ sized[2] > 0
       IN /\ basket' = IF opens THEN fresh ELSE NoBasket
          /\ Mark(basket', bal)
    /\ phase' = "observe"
    /\ UNCHANGED <<mode, bar, flips, signal, bal, trades, held, surprises>>

StayOut ==
    /\ phase = "enter" /\ ~Allowed
    /\ Mark(basket, bal)
    /\ phase' = "observe"
    /\ UNCHANGED <<mode, bar, flips, signal, bal, basket, trades, held, surprises>>

\* After the last bar an open basket is closed at its close.
EndOfData ==
    /\ phase = "observe" /\ bar.i = MaxBars
    /\ \/ IsOpen /\ CloseBasket(basket, bal, bar.close, "eod-open")
       \/ ~IsOpen /\ UNCHANGED <<bal, basket, trades, marks>>
    /\ phase' = "end"
    /\ UNCHANGED <<mode, bar, flips, signal, held, surprises>>

ReplayNext ==
    \/ \E move \in Moves : ObserveBreak(move) \/ \E e \in Events : Observe(move, e)
    \/ ManageNothing \/ ManageStop \/ ManageClose
    \/ \E gate \in {"open", "soft", "blocked"} : Enter(gate)
    \/ StayOut \/ EndOfData

ReplaySpec == ReplayInit /\ [][ReplayNext]_replayVars

-----------------------------------------------------------------------------
(* What a run reports *)

\* A lane's own curve of realised P/L, and its deepest fall, trade by trade.
Further(c, pl) ==
    LET sum == c.sum + pl
        peak == Larger(c.peak, sum)
    IN [sum |-> sum, peak |-> peak, dd |-> Larger(c.dd, peak - sum)]
Curve(rows) ==
    LET curve[k \in 0..Len(rows)] ==
            IF k = 0 THEN [sum |-> 0, peak |-> 0, dd |-> 0]
            ELSE Further(curve[k - 1], rows[k].pl)
    IN curve[Len(rows)]
Results(rows) == [k \in DOMAIN rows |-> rows[k].pl]

\* The breakdown of the one lane that is registered.
Winners(rows) == SelectSeq(rows, LAMBDA t : t.pl > 0)
Losers(rows) == SelectSeq(rows, LAMBDA t : t.pl < 0)
LaneStats(rows) ==
    [trades |-> Len(rows), wins |-> Len(Winners(rows)), losses |-> Len(Losers(rows)),
     net |-> Total(Results(rows)), maxDd |-> Curve(rows).dd]

\* The statistics of the whole run, from the balance and its marks.
RunStats ==
    [trades |-> Len(trades), wins |-> Len(Winners(trades)), losses |-> Len(Losers(trades)),
     net |-> bal - StartBalance, maxDd |-> marks.maxDd]

-----------------------------------------------------------------------------
(* Properties *)

\* The middle tier of hybrid mode allows two legs whatever the maximum is.
MostLegs == IF mode.entry = "hybrid" THEN Larger(MaxPositions, 2) ELSE MaxPositions

ReplayTypeOK ==
    /\ mode \in ReplayModes /\ phase \in {"observe", "manage", "enter", "end"}
    /\ signal \in {"BUY", "SELL", "none"} /\ bal \in Int /\ held \in 0..MaxBars
    /\ bar.i \in 0..MaxBars /\ flips.last <= bar.i /\ flips.fired <= flips.last
    /\ IsOpen => /\ Len(basket.legs) \in 1..MostLegs
                 /\ \A k \in DOMAIN basket.legs : basket.legs[k].oz > 0
    /\ \A k \in DOMAIN trades : trades[k].pl \in Int

\* "this exists so the ladder may tighten the stop, never loosen": while the
\* same basket is open, none of bank, floor, first add and ladder moves its
\* stop away from the market.
StopOnlyTightens ==
    [][/\ IsOpen /\ basket' # NoBasket
       => basket'.stop * Sign(basket.dir) >= basket.stop * Sign(basket.dir)]_replayVars

\* What a frozen floor promised is what its stop pays, whatever was done to the
\* basket between arming and the fill.
FloorPays ==
    mode.exit # "floor-a-adds" =>
        \A k \in DOMAIN trades :
            trades[k].why = "floor stop" => trades[k].pl >= trades[k].owed

\* One flip opens at most one basket, through confirm, revival, refusal and
\* reversal.
OneBasketPerFlip ==
    /\ \A k, n \in DOMAIN trades : trades[k].flip = trades[n].flip => k = n
    /\ IsOpen => \A k \in DOMAIN trades : trades[k].flip # basket.flip

\* The account and the lane tell one story: the drawdown and the net that are kept
\* close by close are those of the list of trades. (The partial bank of hybrid
\* mode is in no trade.)
StatsAgree == mode.entry # "hybrid" => RunStats = LaneStats(trades)

\* What a replay says of its trades.
TradesAreRight == FloorPays /\ OneBasketPerFlip /\ StatsAgree

\* Money neither appears nor vanishes: outside hybrid mode the balance is the
\* start plus the trades, and only new ounces, which pay the spread, or a stop
\* fill change what the account is worth at the close.
Worth == bal + (IF IsOpen THEN BasketPl(basket, bar.close) ELSE 0)
Booked == Total(Results(trades))
MoneyConserved ==
    [][/\ mode.entry # "hybrid" => bal' = StartBalance + Booked'
       /\ phase = "manage" /\ ~(IsOpen /\ Hit) /\ mode.entry # "hybrid"
          => \/ basket' = NoBasket /\ Worth' = Worth
             \/ Worth' = Worth - SpreadPerOz * (Ounces(basket') - Ounces(basket))
      ]_replayVars
=============================================================================
