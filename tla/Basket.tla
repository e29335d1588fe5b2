------------------------------ MODULE Basket ------------------------------
(***************************************************************************)
(* CTradeManager: the basket of one chart.  The legs and their stops live  *)
(* at the broker, the flags of the basket in the terminal's global         *)
(* variables (`gv`; `disk` is what a hard kill leaves of them), and the    *)
(* last entry price only in the memory of the EA.                          *)
(*                                                                         *)
(* A bar is a step for the price and the broker's stops, one for OnSignal, *)
(* one for Manage and one for the re-entry: the terminal may be killed     *)
(* between them.  Within a step, the legs in `deaf` refuse every request.  *)
(***************************************************************************)
EXTENDS Integers, Sequences, SequencesExt, Sums

CONSTANTS
    BasketModes,   \* subset of {"adr", "fixed", "hybrid"}
    PriceMoves, FirstPrice, BarAtr, StopMult,
    Tp1R, Tp2R,    \* Tp1RatioR and Tp2RatioR
    FirstAddAtr, AddAtr, EntryLots, MaxLegs,
    TargetMoney, BudgetMoney, \* target and risk budget of the cycle balance
    StopsLevel,    \* MoveStopsTight's buffer
    BasketBars, MaxRestarts, MaxEvents \* bounds of the run

ASSUME BasketAssumption ==
    /\ BasketModes \subseteq {"adr", "fixed", "hybrid"} /\ PriceMoves \subseteq Int
    /\ {BarAtr, StopMult, EntryLots, MaxLegs, StopsLevel, FirstPrice} \subseteq Nat \ {0}
    /\ {Tp1R, Tp2R, FirstAddAtr, AddAtr, TargetMoney, BudgetMoney} \subseteq Nat
    /\ {BasketBars, MaxRestarts, MaxEvents} \subseteq Nat

VARIABLES
    px, legs,      \* the price; [n, dir, open, lots, sl], the oldest first
    gv, disk,      \* the global variables
    lastEntry,     \* m_lastEntryPrice, 0 after a start
    entryMode,     \* g_entryMode, the mode of the next basket
    bkPhase,       \* "tick", "signal", "manage" or "reentry"
    bkEvent,       \* what is special about this bar
    opened,        \* history: legs ever opened, and the mode and TP1s of the basket
    bkLeft         \* bars, restarts and events still to come

basketVars == <<px, legs, gv, disk, lastEntry, entryMode, bkPhase, bkEvent, opened, bkLeft>>

Fresh == [mode |-> "adr", peak |-> 0, peakAdv |-> 0, taken |-> 0, initR |-> 0,
          armed |-> "none", raked |-> FALSE, alerted |-> FALSE]

BasketInit ==
    /\ px = FirstPrice /\ legs = <<>> /\ gv = Fresh /\ disk = Fresh
    /\ lastEntry = 0 /\ entryMode \in BasketModes
    /\ bkPhase = "tick" /\ bkEvent = "plain"
    /\ opened = [count |-> 0, mode |-> "adr", banks |-> 0, kills |-> 0]
    /\ bkLeft = [bars |-> BasketBars, restarts |-> MaxRestarts, events |-> MaxEvents]

Toward(dir) == IF dir = "BUY" THEN 1 ELSE -1
Opposite(dir) == IF dir = "BUY" THEN "SELL" ELSE "BUY"
IsTighter(dir, new, old) == (new - old) * Toward(dir) > 0

-----------------------------------------------------------------------------
(* Reading and moving the legs *)

Flat(ls) == ls = <<>>
Side(ls) == ls[1].dir
Profit(ls) ==
    Total([k \in DOMAIN ls |-> Toward(ls[k].dir) * ls[k].lots * (px - ls[k].open)])
AdvanceFrom(price, ls) == (px - price) * Toward(Side(ls))

Tickets(ls) == {ls[k].n : k \in DOMAIN ls}

\* What is left of the legs when only those in `numbers` stay.
Kept(ls, numbers) ==
    LET left[k \in 0..Len(ls)] ==
            IF k = 0 THEN <<>>
            ELSE IF ls[k].n \in numbers THEN Append(left[k - 1], ls[k]) ELSE left[k - 1]
    IN left[Len(ls)]

\* The broker refuses a stop on the wrong side of the market.
Accepts(l, stop, deaf) == l.n \notin deaf /\ (px - stop) * Toward(l.dir) > 0
Restopped(ls, which, stop, deaf) ==
    [k \in DOMAIN ls |-> IF ls[k].n \in which /\ Accepts(ls[k], stop, deaf)
                         THEN [ls[k] EXCEPT !.sl = stop] ELSE ls[k]]

\* MathRound(vol / 2), and 70% or 40% of a size, at least the smallest lot.
HalfLots(v) == (v + 1) \div 2
TenthsOf(tenths, v) == IF tenths * v < 5 THEN 1 ELSE (tenths * v + 5) \div 10

\* CloseAll resets the peaks, also when legs are left behind.
AllClosed(s, deaf) ==
    [s EXCEPT !.legs = Kept(@, deaf),
              !.gv.peak = 0, !.gv.peakAdv = 0, !.done = TRUE]

Put(s) == legs' = s.legs /\ gv' = s.gv
Now == [legs |-> legs, gv |-> gv, done |-> FALSE]

-----------------------------------------------------------------------------
(* Events, and the price *)

BarEvents == {"plain", "BUY", "SELL", "EXIT", "wall", "stale", "broken"}

HitStop(l, price) == l.sl # 0 /\ (price - l.sl) * Toward(l.dir) <= 0
Surviving(price) == {legs[k].n : k \in {j \in DOMAIN legs : ~HitStop(legs[j], price)}}

\* A new bar: the stops the price has passed are filled by the broker, and
\* OnBarUpdate writes the global variables to disk.
Tick(move, event) ==
    /\ bkPhase = "tick" /\ bkLeft.bars > 0
    /\ event # "plain" => bkLeft.events > 0
    /\ bkLeft' = [bkLeft EXCEPT !.bars = @ - 1,
                                !.events = @ - (IF event = "plain" THEN 0 ELSE 1)]
    /\ px' = px + move /\ px' > 0
    /\ legs' = Kept(legs, Surviving(px + move))
    /\ disk' = gv
    /\ bkEvent' = event /\ bkPhase' = "signal"
    /\ UNCHANGED <<gv, lastEntry, entryMode, opened>>

-----------------------------------------------------------------------------
(* OnSignal *)

NewLeg(dir, lots, stop) ==
    [n |-> opened.count + 1, dir |-> dir, open |-> px, lots |-> lots, sl |-> stop]
StartStop(dir) == px - Toward(dir) * StopMult * BarAtr

\* An entry into a flat book: the flags of a basket start anew and are flushed.
OpenBasket(dir) ==
    /\ legs' = <<NewLeg(dir, EntryLots, StartStop(dir))>>
    /\ gv' = [Fresh EXCEPT !.mode = entryMode, !.initR = StopMult * BarAtr]
    /\ disk' = gv'
    /\ lastEntry' = px
    /\ opened' = [count |-> opened.count + 1, mode |-> entryMode, banks |-> 0, kills |-> 0]

NothingOpens(s) == Put(s) /\ UNCHANGED <<disk, lastEntry, opened>>

IsEntry(sig) == sig \in {"BUY", "SELL"}
Closes(sig) == ~Flat(legs) /\ sig \in {"EXIT", Opposite(Side(legs))}

\* Mutant: the remains of an incomplete close are not looked for.
OnSignal_Blind(sig, sent, deaf) ==
    LET s == IF Closes(sig) THEN AllClosed(Now, deaf) ELSE Now
    IN \/ IsEntry(sig) /\ Flat(legs) /\ sent /\ OpenBasket(sig)
       \/ /\ IsEntry(sig) /\ Closes(sig) /\ sent
          /\ legs' = Append(s.legs, NewLeg(sig, EntryLots, StartStop(sig)))
          /\ gv' = s.gv /\ opened' = [opened EXCEPT !.count = @ + 1]
          /\ UNCHANGED <<disk, lastEntry>>

\* A signal in the direction of the basket, and one the risk gates or the
\* broker refuse (`sent` is false), changes nothing but what a reversal closed.
\* A reversal that leaves legs behind opens nothing.
OnSignal(sig, sent, deaf) ==
    LET s == IF Closes(sig) THEN AllClosed(Now, deaf) ELSE Now
    IN \/ IsEntry(sig) /\ Flat(s.legs) /\ sent /\ OpenBasket(sig)
       \/ ~(IsEntry(sig) /\ Flat(s.legs) /\ sent) /\ NothingOpens(s)

BarSignal(sent, deaf) ==
    /\ bkPhase = "signal"
    /\ deaf # {} => Closes(bkEvent)
    /\ OnSignal(bkEvent, sent, deaf)
    /\ bkPhase' = "manage"
    /\ UNCHANGED <<px, entryMode, bkEvent, bkLeft>>

-----------------------------------------------------------------------------
(* Manage: a pass over the basket, rule after rule.  `adv` is the advance  *)
(* since the last entry the EA remembers.                                  *)

Adv == AdvanceFrom(lastEntry, legs)
Wall == bkEvent = "wall"
Oldest(s) == s.legs[1]

Stagnates(s) == /\ bkEvent = "stale" /\ s.gv.initR > 0
                /\ 5 * (px - Oldest(s).open) \in -s.gv.initR..s.gv.initR
Stagnation(s, deaf) == IF Stagnates(s) THEN AllClosed(s, deaf) ELSE s

\* The oldest leg banks half of its lots; then its stop goes to `stop`.
Bank(s, stop, deaf) ==
    LET first == Oldest(s)
        halved == [s EXCEPT !.legs[1].lots = @ - HalfLots(@)]
    IN [halved EXCEPT !.legs = Restopped(@, {first.n}, stop, deaf)]
Splits(s) == HalfLots(Oldest(s).lots) < Oldest(s).lots
Protect(s, deaf) ==
    [s EXCEPT !.legs = Restopped(@, {Oldest(s).n}, Oldest(s).open, deaf)]

\* TP1: at Tp1R, or at 0.8R before a wall.  A smallest lot is only protected.
Tp1Due(s) == /\ ~s.done /\ s.gv.taken = 0 /\ s.gv.initR > 0
             /\ \/ Adv >= Tp1R * s.gv.initR
                \/ Wall /\ 10 * Adv >= 8 * s.gv.initR
Tp1Banks(s, deaf) == Tp1Due(s) /\ Splits(s) /\ Oldest(s).n \notin deaf
Tp1(s, deaf) ==
    IF Tp1Banks(s, deaf) THEN Bank([s EXCEPT !.gv.taken = 1], Oldest(s).open, deaf)
    ELSE IF Tp1Due(s) /\ ~Splits(s) THEN Protect([s EXCEPT !.gv.taken = 1], deaf)
    ELSE s

Tp2(s, deaf) ==
    IF /\ ~s.done /\ s.gv.taken = 1 /\ s.gv.initR > 0 /\ Adv >= Tp2R * s.gv.initR
       /\ Splits(s) /\ Oldest(s).n \notin deaf
    THEN Bank([s EXCEPT !.gv.taken = 2],
              Oldest(s).open + Toward(Oldest(s).dir) * Tp1R * s.gv.initR, deaf)
    ELSE s

PeakAdvance(s) ==
    IF ~s.done /\ Adv > s.gv.peakAdv THEN [s EXCEPT !.gv.peakAdv = Adv] ELSE s

\* The rake before a wall: the adds are closed, or half of a single leg, and
\* the runner's stop goes to its entry.  Open space arms the rake again.
RakeDue(s) == /\ ~s.done /\ Wall /\ ~s.gv.raked
              /\ 10 * Adv >= 3 * s.gv.initR /\ Profit(s.legs) > 0
Rake(s, deaf) ==
    IF ~s.done /\ ~Wall THEN [s EXCEPT !.gv.raked = FALSE]
    ELSE IF ~RakeDue(s) THEN s
    ELSE LET r == [s EXCEPT !.gv.raked = TRUE]
         IN IF Len(r.legs) > 1
            THEN Protect([r EXCEPT !.legs = Kept(@, {Oldest(s).n} \union deaf)], deaf)
            ELSE IF ~Splits(r) THEN Protect(r, deaf)
            ELSE IF Oldest(r).n \in deaf THEN r
            ELSE Bank([r EXCEPT !.gv.taken = 1], Oldest(r).open, deaf)

Reversal(s, deaf) ==
    IF /\ ~s.done /\ 2 * s.gv.peakAdv >= 3 * BarAtr /\ s.gv.peakAdv - Adv >= BarAtr
    THEN AllClosed([s EXCEPT !.gv.armed = Side(s.legs)], deaf)
    ELSE s

\* A fixed basket rides on: one alert, no target, no lock, no adds.
TargetRule(s, deaf) ==
    IF s.done THEN s
    ELSE IF s.gv.mode = "fixed"
    THEN [s EXCEPT !.done = TRUE, !.gv.alerted = @ \/ Profit(s.legs) >= TargetMoney]
    ELSE IF s.gv.mode = "adr" /\ Profit(s.legs) >= TargetMoney THEN AllClosed(s, deaf)
    ELSE s

Lock(s, deaf) ==
    IF s.done THEN s
    ELSE LET p == [s EXCEPT !.gv.peak = IF Profit(s.legs) > @ THEN Profit(s.legs) ELSE @]
         IN IF p.gv.peak >= BudgetMoney /\ 2 * Profit(p.legs) <= p.gv.peak
            THEN AllClosed(p, deaf) ELSE p

\* Adds need profit, a trend that still holds, room to the wall and the money
\* gates.  The count is the one of the start of the pass.
AddDue(s) ==
    /\ ~s.done /\ bkEvent \notin {"broken", "wall"}
    /\ Len(legs) < MaxLegs /\ Profit(s.legs) > 0
    /\ s.gv.mode = "hybrid" => s.gv.taken > 0
    /\ Adv >= (IF Len(legs) = 1 THEN FirstAddAtr ELSE AddAtr) * BarAtr
AddLots(s) ==
    LET size == TenthsOf(IF Len(legs) = 1 THEN 7 ELSE 4, EntryLots)
        cap == TenthsOf(7, Last(s.legs).lots)
    IN IF size < cap THEN size ELSE cap

\* Mutant: every leg takes the stop of the new one.
Ratcheted_Newest(ls, deaf) == Restopped(ls, Tickets(ls), Last(ls).sl, deaf)
Ratcheted(ls, deaf) ==
    LET S == ls[1].sl
        E == ls[1].open
        k == Len(ls)
        N == IF k = 2 THEN (S + E) \div 2 ELSE (ls[k - 2].open + ls[k - 1].open) \div 2
        moves == /\ S # 0 /\ IsTighter(Side(ls), N, S)
                 /\ k = 2 => IsTighter(Side(ls), E, N)
    IN IF moves THEN Restopped(ls, Tickets(ls), N, deaf) ELSE ls

Managed(deaf) ==
    Lock(TargetRule(Reversal(Rake(PeakAdvance(
        Tp2(Tp1(Stagnation(Now, deaf), deaf), deaf)), deaf), deaf), deaf), deaf)

Counted(deaf) ==
    opened.banks + (IF Tp1Banks(Stagnation(Now, deaf), deaf) THEN 1 ELSE 0)

Manage(sent, deaf) ==
    /\ bkPhase = "manage" /\ ~Flat(legs)
    /\ LET s == Managed(deaf)
           add == AddDue(s) /\ sent
           side == Side(legs)
       IN /\ \/ /\ add
                /\ legs' = Ratcheted(Append(s.legs, NewLeg(side, AddLots(s), StartStop(side))),
                                     deaf)
                /\ lastEntry' = px
             \/ ~add /\ legs' = s.legs /\ UNCHANGED lastEntry
          /\ gv' = s.gv
          /\ opened' = [opened EXCEPT !.count = @ + (IF add THEN 1 ELSE 0),
                                      !.banks = Counted(deaf)]
    /\ bkPhase' = "reentry"
    /\ UNCHANGED <<px, disk, entryMode, bkEvent, bkLeft>>

ManageFlat ==
    /\ bkPhase = "manage" /\ Flat(legs)
    /\ bkPhase' = "reentry"
    /\ UNCHANGED <<px, legs, gv, disk, lastEntry, entryMode, bkEvent, opened, bkLeft>>

-----------------------------------------------------------------------------
(* The continuation re-entry after a heavy reversal exit *)

MayReenter == Flat(legs) /\ gv.armed # "none" /\ bkEvent \notin {"broken", "wall"}

\* The latch is taken off before the entry is tried.
Reenter(sent) ==
    /\ bkPhase = "reentry" /\ MayReenter
    /\ \/ sent /\ OpenBasket(gv.armed)
       \/ ~sent /\ NothingOpens([Now EXCEPT !.gv.armed = "none"])
    /\ bkPhase' = "tick"
    /\ UNCHANGED <<px, entryMode, bkEvent, bkLeft>>

\* No momentum, no latch, or a basket is open.
NoReentry ==
    /\ bkPhase = "reentry"
    /\ bkPhase' = "tick"
    /\ UNCHANGED <<px, legs, gv, disk, lastEntry, entryMode, bkEvent, opened, bkLeft>>

-----------------------------------------------------------------------------
(* Commands of the owner, between bars *)

SpendEvent == /\ bkPhase = "tick" /\ bkLeft.events > 0
              /\ bkLeft' = [bkLeft EXCEPT !.events = @ - 1]
OnlyLegs == UNCHANGED <<px, gv, disk, lastEntry, entryMode, bkPhase, bkEvent, opened>>

\* Each leg is moved to its stop in `stops` only when that tightens it.
Tightened(stops, deaf) ==
    [k \in DOMAIN legs |->
        LET l == legs[k]
        IN IF (l.sl = 0 \/ IsTighter(l.dir, stops[k], l.sl)) /\ Accepts(l, stops[k], deaf)
           THEN [l EXCEPT !.sl = stops[k]] ELSE l]

MoveStopsTight(deaf) ==
    /\ SpendEvent /\ ~Flat(legs)
    /\ legs' = Tightened([k \in DOMAIN legs |-> px - Toward(legs[k].dir) * StopsLevel], deaf)
    /\ OnlyLegs

MoveStopsBreakeven(deaf) ==
    /\ SpendEvent /\ ~Flat(legs)
    /\ legs' = Tightened([k \in DOMAIN legs |-> legs[k].open], deaf)
    /\ OnlyLegs

\* A leg of the smallest size is closed.
CloseHalf(deaf) ==
    /\ SpendEvent /\ ~Flat(legs)
    /\ LET big == {legs[k].n : k \in {j \in DOMAIN legs : legs[j].lots > 1}}
           left == Kept(legs, deaf \union big)
       IN legs' = [k \in DOMAIN left |->
                     IF left[k].n \in deaf THEN left[k]
                     ELSE [left[k] EXCEPT !.lots = @ - HalfLots(@)]]
    /\ OnlyLegs

\* close_all and the flatten before the break.
CloseAll(deaf) ==
    /\ SpendEvent /\ ~Flat(legs)
    /\ Put(AllClosed(Now, deaf))
    /\ UNCHANGED <<px, disk, lastEntry, entryMode, bkPhase, bkEvent, opened>>

CloseTicket ==
    /\ SpendEvent
    /\ \E t \in Tickets(legs) : legs' = Kept(legs, Tickets(legs) \ {t})
    /\ OnlyLegs

SwitchEntryMode ==
    /\ SpendEvent
    /\ entryMode' \in BasketModes \ {entryMode}
    /\ UNCHANGED <<px, legs, gv, disk, lastEntry, bkPhase, bkEvent, opened>>

-----------------------------------------------------------------------------
(* The terminal goes down at any point of the bar; a clean stop saves the  *)
(* global variables, a hard kill leaves what was flushed.                  *)

EaRestart(hard) ==
    /\ bkLeft.restarts > 0
    /\ bkLeft' = [bkLeft EXCEPT !.restarts = @ - 1]
    /\ gv' = IF hard THEN disk ELSE gv
    /\ disk' = gv'
    /\ opened' = [opened EXCEPT !.kills = @ + (IF hard THEN 1 ELSE 0)]
    /\ lastEntry' = 0 /\ bkPhase' = "tick" /\ bkEvent' = "plain"
    /\ UNCHANGED <<px, legs, entryMode>>

\* The broker refuses a signal's close, or anything while there are events to come.
MayRefuse == bkPhase = "signal" \/ bkLeft.events > 0
Deafs == {{}} \union (IF MayRefuse THEN {{t} : t \in Tickets(legs)} ELSE {})

BarStep == \/ \E move \in PriceMoves, e \in BarEvents : Tick(move, e)
           \/ \E sent \in BOOLEAN, deaf \in Deafs : BarSignal(sent, deaf)
           \/ \E sent \in BOOLEAN, deaf \in Deafs : Manage(sent, deaf)
           \/ ManageFlat \/ NoReentry \/ \E sent \in BOOLEAN : Reenter(sent)
OwnerCommand == \/ \E deaf \in Deafs : \/ MoveStopsTight(deaf) \/ MoveStopsBreakeven(deaf)
                                       \/ CloseHalf(deaf) \/ CloseAll(deaf)
                \/ CloseTicket \/ SwitchEntryMode

BasketNext == BarStep \/ OwnerCommand \/ \E hard \in BOOLEAN : EaRestart(hard)
BasketSpec == BasketInit /\ [][BasketNext]_basketVars
-----------------------------------------------------------------------------
(* Properties *)

BasketTypeOK ==
    /\ px \in Int /\ lastEntry \in Int /\ entryMode \in BasketModes
    /\ bkPhase \in {"tick", "signal", "manage", "reentry"} /\ bkEvent \in BarEvents
    /\ Len(legs) <= MaxLegs
    /\ \A k \in DOMAIN legs : legs[k].lots > 0 /\ legs[k].dir \in {"BUY", "SELL"}
    /\ \A k \in 1..Len(legs) - 1 : legs[k].n < legs[k + 1].n
    /\ gv.taken \in 0..2 /\ gv.armed \in {"none", "BUY", "SELL"}

\* "All own positions are same-direction by construction": through reversals
\* whose close is incomplete, re-entries and restarts.
OneDirection == \A k \in DOMAIN legs : legs[k].dir = Side(legs)

\* "a mid-trade restart cannot turn a FIXED ride into ADR management": the
\* flag read by Manage is the mode the open basket was started with.
ModeIsSticky == ~Flat(legs) => gv.mode = opened.mode

\* A basket banks its first target once; only a hard kill, which takes the
\* unflushed flag back, can make it do so again.
BankedOnce == opened.banks <= 1 + opened.kills

\* The legs at the broker and the flags of the terminal are of one basket.
OneBasket == OneDirection /\ ModeIsSticky /\ BankedOnce

\* A stop of the oldest leg that has reached its entry never falls behind it
\* again, whatever rule, tap, add or restart comes next.
RiskFree(l) == l.sl # 0 /\ ~IsTighter(l.dir, l.open, l.sl)
RiskFreeStays ==
    [][\A k \in DOMAIN legs' :
          ~Flat(legs) /\ legs'[k].n = legs[1].n /\ RiskFree(legs[1]) => RiskFree(legs'[k])
      ]_basketVars
=============================================================================
