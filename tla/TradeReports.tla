---------------------------- MODULE TradeReports ----------------------------
(***************************************************************************)
(* The reports read from the trades table: which rows make a basket, what  *)
(* a day and a month earned, and the balance after each basket.  The rows  *)
(* are written by the trade events of two charts.  Every event has a       *)
(* second of its own; a quiet spell lets Gap seconds pass.                 *)
(***************************************************************************)
EXTENDS Integers, Sequences, FiniteSets, Sums

CONSTANTS
    TradeSymbols,  \* subset of {"XAUUSD", "BTCUSD"}
    Profits,       \* profits a deal may close with
    DaySeconds,    \* a broker day
    HbAfterWindow, \* HB_AFTER_WINDOW_S
    Gap, MaxRows, MaxBeats, MaxGaps \* bounds of the run

ASSUME ReportsAssumption ==
    /\ TradeSymbols \subseteq {"XAUUSD", "BTCUSD"}
    /\ Profits \subseteq Int
    /\ DaySeconds \in Nat \ {0} /\ {HbAfterWindow, Gap, MaxRows, MaxBeats, MaxGaps} \subseteq Nat

VARIABLES
    tradeRows,   \* trades: [symbol, event, final, profit, ts]
    beatRows,    \* heartbeats: [ts, balance]
    legsOpen,    \* symbol -> positions of its chart
    rpNow, balance,
    after,       \* the balance right after each row
    mixed,       \* two symbols have held a basket at the same time
    rpLeft       \* beats and gaps still to come

reportVars == <<tradeRows, beatRows, legsOpen, rpNow, balance, after, mixed, rpLeft>>

ReportsInit ==
    /\ tradeRows = <<>> /\ beatRows = <<>> /\ legsOpen = [s \in TradeSymbols |-> 0]
    /\ rpNow = 0 /\ balance = 0 /\ after = <<>> /\ mixed = FALSE
    /\ rpLeft = [beats |-> MaxBeats, gaps |-> MaxGaps]

-----------------------------------------------------------------------------
(* What writes the tables *)

\* insert_trade
Row(s, event, final, profit) ==
    /\ Len(tradeRows) < MaxRows
    /\ tradeRows' = Append(tradeRows, [symbol |-> s, event |-> event, final |-> final,
                                       profit |-> profit, ts |-> rpNow])
    /\ balance' = balance + profit
    /\ after' = Append(after, balance + profit)
    /\ rpNow' = rpNow + 1
    /\ UNCHANGED <<beatRows, rpLeft>>

LegEvent(s) == IF legsOpen[s] = 0 THEN "open" ELSE "add"
LegOpens(s) ==
    /\ Row(s, LegEvent(s), TRUE, 0)
    /\ legsOpen' = [legsOpen EXCEPT ![s] = @ + 1]
    /\ mixed' = (mixed \/ \E r \in TradeSymbols \ {s} : legsOpen[r] > 0)

\* The last leg of the chart's basket is flagged final.
LegCloses(s, profit) ==
    /\ legsOpen[s] > 0
    /\ Row(s, "close", legsOpen[s] = 1, profit)
    /\ legsOpen' = [legsOpen EXCEPT ![s] = @ - 1]
    /\ UNCHANGED mixed

\* insert_heartbeat
ReportBeat ==
    /\ rpLeft.beats > 0 /\ rpLeft' = [rpLeft EXCEPT !.beats = @ - 1]
    /\ beatRows' = Append(beatRows, [ts |-> rpNow, balance |-> balance])
    /\ rpNow' = rpNow + 1
    /\ UNCHANGED <<tradeRows, legsOpen, balance, after, mixed>>

QuietSpell ==
    /\ rpLeft.gaps > 0 /\ rpLeft' = [rpLeft EXCEPT !.gaps = @ - 1]
    /\ rpNow' = rpNow + Gap
    /\ UNCHANGED <<tradeRows, beatRows, legsOpen, balance, after, mixed>>

ReportsNext ==
    \/ \E s \in TradeSymbols : LegOpens(s) \/ \E p \in Profits : LegCloses(s, p)
    \/ ReportBeat \/ QuietSpell
ReportsSpec == ReportsInit /\ [][ReportsNext]_reportVars

-----------------------------------------------------------------------------
(* Which rows make a basket, asked twice *)

FinalClose(i) == tradeRows[i].event = "close" /\ tradeRows[i].final

\* _basket_legs of the row just inserted: the entries of its symbol after the
\* symbol's last final close before it.
FinalBefore(i) == {j \in 1..(i - 1) : FinalClose(j) /\ tradeRows[j].symbol = tradeRows[i].symbol}
BasketLegs(i) ==
    {k \in DOMAIN tradeRows : /\ \A j \in FinalBefore(i) : j < k
                              /\ tradeRows[k].symbol = tradeRows[i].symbol
                              /\ tradeRows[k].event # "close"}

\* _group_baskets: one pass over the rows that were fetched, by number.  A basket
\* has the symbol of its first entry and is named by the row of its exit.
NoGroup == [symbol |-> "none", entries |-> {}, pl |-> 0]
Entered(g, i) == [symbol |-> IF g = NoGroup THEN tradeRows[i].symbol ELSE g.symbol,
                  entries |-> g.entries \union {i}, pl |-> g.pl]
\* Mutant: only the final leg of a basket earns.
Grouped_FinalOnly(g, i) ==
    IF tradeRows[i].event # "close" THEN Entered(g, i)
    ELSE IF FinalClose(i) THEN NoGroup ELSE g
Grouped(g, i) ==
    IF tradeRows[i].event # "close" THEN Entered(g, i)
    ELSE IF g = NoGroup \/ FinalClose(i) THEN NoGroup
    ELSE [g EXCEPT !.pl = @ + tradeRows[i].profit]
GroupsOf(rows) ==
    LET group[i \in 0..Len(tradeRows)] ==
            IF i = 0 THEN NoGroup
            ELSE IF i \in rows THEN Grouped(group[i - 1], i) ELSE group[i - 1]
    IN group
GroupBaskets(rows) ==
    LET group == GroupsOf(rows)
    IN [i \in {j \in rows : FinalClose(j) /\ group[j - 1] # NoGroup} |->
           [group[i - 1] EXCEPT !.pl = @ + tradeRows[i].profit]]
AllBaskets == GroupBaskets(DOMAIN tradeRows)

-----------------------------------------------------------------------------
(* The reports *)

ServerDay(ts) == ts \div DaySeconds
Those(baskets, exits) == [i \in exits |-> baskets[i]]

\* _fetch_closed_baskets: all rows up to the end of the window (its lookback of
\* 45 days is longer than any basket); the close places a basket.
ClosedBaskets(from, to) ==
    LET all == GroupBaskets({i \in DOMAIN tradeRows : tradeRows[i].ts < to})
    IN Those(all, {i \in DOMAIN all : tradeRows[i].ts \in from..(to - 1)})

\* The balance after each basket in the order of their closes: the first beat
\* after the close if it came soon, else the last one before it and what the
\* baskets since have earned.
BeatsBefore(i) ==
    CHOOSE h \in 0..Len(beatRows) :
        \A k \in DOMAIN beatRows : beatRows[k].ts < tradeRows[i].ts <=> k <= h
SoonAfter(i) == LET h == BeatsBefore(i) + 1
                IN h \in DOMAIN beatRows /\ beatRows[h].ts <= tradeRows[i].ts + HbAfterWindow
NothingCarried == [beat |-> 0, pl |-> 0, source |-> "unknown", balance |-> 0]
CarryBalance(c, i, pl) ==
    LET h == BeatsBefore(i)
        carried == (IF c.beat = h THEN c.pl ELSE 0) + pl
    IN IF SoonAfter(i)
       THEN [NothingCarried EXCEPT !.source = "after", !.balance = beatRows[h + 1].balance]
       ELSE IF h = 0
       THEN [beat |-> c.beat, pl |-> c.pl, source |-> "unknown", balance |-> 0]
       ELSE [beat |-> h, pl |-> carried,
             source |-> "before", balance |-> beatRows[h].balance + carried]
BalancesAfter(baskets) ==
    LET carry[i \in 0..Len(tradeRows)] ==
            IF i = 0 THEN NothingCarried
            ELSE IF i \in DOMAIN baskets THEN CarryBalance(carry[i - 1], i, baskets[i].pl)
            ELSE carry[i - 1]
    IN carry

\* _summarize_baskets
TotalPl(baskets) ==
    Total([i \in 1..Len(tradeRows) |-> IF i \in DOMAIN baskets THEN baskets[i].pl ELSE 0])
Wins(baskets) == Cardinality({i \in DOMAIN baskets : baskets[i].pl > 0})
OfSymbol(baskets, s) == Those(baskets, {i \in DOMAIN baskets : baskets[i].symbol = s})
Summary(baskets) == [trades |-> Cardinality(DOMAIN baskets), pl |-> TotalPl(baskets),
                     wins |-> Wins(baskets),
                     gold |-> TotalPl(OfSymbol(baskets, "XAUUSD")),
                     btc |-> TotalPl(OfSymbol(baskets, "BTCUSD"))]

\* _report_month and _report_day
MonthReport(from, to) == Summary(ClosedBaskets(from, to))
DayReport(d) == Summary(ClosedBaskets(d * DaySeconds, (d + 1) * DaySeconds))
MonthDay(from, to, d) ==
    LET month == ClosedBaskets(from, to)
    IN Summary(Those(month, {i \in DOMAIN month : ServerDay(tradeRows[i].ts) = d}))

\* The mini app's page: the last `limit` rows, grouped on their own.
TradesPage(limit) == GroupBaskets({i \in DOMAIN tradeRows : i > Len(tradeRows) - limit})

-----------------------------------------------------------------------------
(* Properties *)

ReportsTypeOK ==
    /\ \A i \in DOMAIN tradeRows :
          /\ tradeRows[i].symbol \in TradeSymbols /\ tradeRows[i].event \in {"open", "add", "close"}
          /\ tradeRows[i].profit \in Profits \union {0} /\ tradeRows[i].ts < rpNow
    /\ \A s \in TradeSymbols : legsOpen[s] \in 0..MaxRows
    /\ Len(after) = Len(tradeRows) /\ mixed \in BOOLEAN

\* "Both MUST agree on which rows are legs of a basket, in what order": asked for
\* the final close just inserted; both go by the numbers of the rows.
TwinsAgree ==
    LET n == Len(tradeRows) IN
    n > 0 /\ FinalClose(n) => /\ n \in DOMAIN AllBaskets
                              /\ AllBaskets[n].entries = BasketLegs(n)

\* While no two symbols held a basket at the same time: every profit of a settled
\* basket is in the month once, under its own symbol, and the month is the sum of
\* its days, each of which says the same when it is asked for alone.
LastDay == ServerDay(rpNow)
MonthEnd == (LastDay + 1) * DaySeconds
Month == MonthReport(0, MonthEnd)
Settled(s, i) ==
    /\ tradeRows[i].symbol = s
    /\ \E j \in DOMAIN tradeRows : FinalClose(j) /\ tradeRows[j].symbol = s /\ i <= j
Earned(s) ==
    Total([i \in 1..Len(tradeRows) |-> IF Settled(s, i) THEN tradeRows[i].profit ELSE 0])
ReportsAddUp ==
    /\ "XAUUSD" \in TradeSymbols => Month.gold = Earned("XAUUSD")
    /\ "BTCUSD" \in TradeSymbols => Month.btc = Earned("BTCUSD")
    /\ Month.pl = Total([d \in 1..(LastDay + 1) |-> DayReport(d - 1).pl])
    /\ \A d \in 0..LastDay : DayReport(d) = MonthDay(0, MonthEnd, d)

\* A balance that had to be carried over a gap of the heartbeats is the balance
\* the account had after that basket, however many baskets closed in the gap,
\* unless a leg of the basket, or of one carried before it, closed before the beat.
LegBeforeBeat(i) ==
    \E e \in AllBaskets[i].entries : \E j \in e..i :
        tradeRows[j].event = "close" /\ tradeRows[j].ts < beatRows[BeatsBefore(i)].ts
CarriedIsTrue ==
    LET said == BalancesAfter(AllBaskets)
    IN \A i \in DOMAIN AllBaskets :
          said[i].source = "before"
             => \/ said[i].balance = after[i]
                \/ \E j \in DOMAIN AllBaskets : /\ j <= i /\ BeatsBefore(j) = BeatsBefore(i)
                                             /\ LegBeforeBeat(j)

\* A page may cut a basket: only the first one of a page, and only when its
\* opening row is not on it, differs from what the whole history says.
PageIsTrue ==
    \A limit \in 0..Len(tradeRows) :
        LET page == TradesPage(limit)
        IN \A i \in DOMAIN page :
              (\/ \E j \in DOMAIN page : j < i
               \/ \E e \in page[i].entries : tradeRows[e].event = "open")
              => i \in DOMAIN AllBaskets /\ page[i] = AllBaskets[i]

\* What is said of baskets that do not overlap: the twins agree on their legs, and
\* the earnings, the balances and the pages are those of the rows.
ReportsAreTrue == ~mixed => TwinsAgree /\ ReportsAddUp /\ CarriedIsTrue /\ PageIsTrue
=============================================================================
