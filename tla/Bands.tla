------------------------------- MODULE Bands -------------------------------
(***************************************************************************)
(* The band of a basket on the dashboard: entry, stop and target, derived  *)
(* from the newest heartbeat of a chart and the rows of the trades table,  *)
(* answered on request and pushed to the event streams.  A chart posts its *)
(* trade events one by one and its heartbeats in between; both may be late *)
(* or lost.  Every leg has one lot, prices are ticks.                      *)
(***************************************************************************)
EXTENDS Integers, Sequences, FiniteSets, FiniteSetsExt, Sums

CONSTANTS
    BandCharts,    \* subset of {"XAUUSD", "BTCUSD"}
    Prices, Stops, \* prices a leg may open at; levels a stop may be moved to, 0 removes it
    StopGap, TargetGap, \* distances of the first stop and of a target on record
    PctDelta,      \* profit_target_pct of the entry, when nothing else is known and it is not 0
    OpenLookback, ClosedLookback, \* rows read for an open and for a closed band
    QueueCap,      \* maxsize of a stream's queue
    OldRows,       \* the trades of earlier sessions
    AdrModes,      \* is the entry mode ADR, which puts an open's target on record
    FirstDirection, \* of the very first leg: the other case is its mirror
    LegCap,        \* chart -> legs it may hold, a bound
    MaxFills, MaxBandBeats, MaxStopMoves, MaxBandTrouble \* bounds of the run

ASSUME BandsAssumption ==
    /\ BandCharts \subseteq {"XAUUSD", "BTCUSD"}
    /\ LegCap \in [BandCharts -> Nat] /\ FirstDirection \in {"BUY", "SELL"}
    /\ AdrModes \subseteq BOOLEAN /\ Prices \subseteq Nat \ {0} /\ Stops \subseteq Nat
    /\ {StopGap, TargetGap, PctDelta, OpenLookback, ClosedLookback, QueueCap} \subseteq Nat \ {0}
    /\ {MaxFills, MaxBandBeats, MaxStopMoves, MaxBandTrouble} \subseteq Nat

VARIABLES
    legsHeld,   \* chart -> the legs it holds: [ticket, dir, px, sl]
    bandPosts,  \* chart -> trade events on their way
    bandRows,   \* trades: [symbol, event, ticket, dir, px, sl, tp]
    heartbeats, \* latest_heartbeats: chart -> [known, legs]
    lastBeat,   \* the chart of latest_heartbeat
    answering,  \* chart -> the heartbeat between its arrival and its answer
    unread,     \* messages in the queue of the viewer's stream
    listening,  \* its queue is in chart_subscribers
    told,       \* chart -> the last band put into it: the queue is read in order
    lostRows,   \* history: charts a trade event of which was lost
    bdLeft      \* legs, beats, stop moves and troubles still to come

bandVars == <<legsHeld, bandPosts, bandRows, heartbeats, lastBeat, answering, unread, listening,
              told, lostRows, bdLeft>>

NoHeartbeat == [known |-> FALSE, legs |-> <<>>]
NoBand == [state |-> "none", dir |-> "none", entry |-> 0, sl |-> 0, tp |-> 0, tp2 |-> 0,
           row |-> 0, legs |-> 0]

BandsInit ==
    /\ legsHeld = [s \in BandCharts |-> <<>>] /\ bandPosts = [s \in BandCharts |-> <<>>]
    /\ bandRows = OldRows /\ heartbeats = [s \in BandCharts |-> NoHeartbeat] /\ lastBeat = "none"
    /\ answering = [s \in BandCharts |-> NoHeartbeat]
    /\ unread = 0 /\ listening = TRUE /\ told = [s \in BandCharts |-> NoBand]
    /\ lostRows = {}
    /\ bdLeft = [legs |-> MaxFills, beats |-> MaxBandBeats, stops |-> MaxStopMoves,
                 trouble |-> MaxBandTrouble]

Uses(what) == bdLeft[what] > 0 /\ bdLeft' = [bdLeft EXCEPT ![what] = @ - 1]

-----------------------------------------------------------------------------
(* derive_basket_band *)

Up(dir) == IF dir = "BUY" THEN 1 ELSE -1
Distance(x, y) == IF x > y THEN x - y ELSE y - x

\* recent_trades: the numbers of the last rows of a symbol.
RowsOf(rows, s) == {i \in DOMAIN rows : rows[i].symbol = s}
RecentTrades(rows, s, limit) ==
    {i \in RowsOf(rows, s) : Cardinality({j \in RowsOf(rows, s) : j > i}) < limit}
Newest(numbers) == IF numbers = {} THEN 0 ELSE Max(numbers)
EntersBasket(r) == r.event \in {"open", "add"}
Entries(rows) == {i \in DOMAIN rows : EntersBasket(rows[i])}

\* The trades of earlier sessions are closed, none of their events was lost, and
\* their tickets are none of this session's.
LastEntry(rows, s) == Newest(RowsOf(rows, s) \intersect Entries(rows))
BasketClosed(rows, s) ==
    RowsOf(rows, s) # {} =>
        LET last == rows[Newest(RowsOf(rows, s))]
        IN /\ last.event = "close"
           /\ LastEntry(rows, s) # 0 => rows[LastEntry(rows, s)].dir = last.dir
EventRows == [symbol : {"XAUUSD", "BTCUSD"}, event : {"open", "add", "close"}, ticket : Int,
              dir : {"BUY", "SELL"}, px : Int, sl : Int, tp : Int]
ASSUME OldRowsAssumption ==
    /\ OldRows \in Seq(EventRows) /\ \A s \in BandCharts : BasketClosed(OldRows, s)
    /\ \A i \in DOMAIN OldRows : OldRows[i].ticket \notin 1..MaxFills

\* The row whose target the open band shows: the entry of the first leg, else
\* the newest entry there is.
OpenRow(rows, s, first) ==
    LET recent == RecentTrades(rows, s, OpenLookback) \intersect Entries(rows)
        own == Newest({i \in recent : rows[i].ticket = first.ticket})
    IN IF own # 0 THEN own ELSE Newest(recent)

\* A target on record; else 1.5 R of the present stop; else a share of the price.
OpenBand(rows, s, legs) ==
    LET first == legs[1]
        entry == Total([k \in DOMAIN legs |-> legs[k].px]) \div Len(legs)
        r     == IF first.sl > 0 THEN Distance(entry, first.sl) ELSE 0
        row   == OpenRow(rows, s, first)
        onRecord == IF row = 0 THEN 0 ELSE rows[row].tp
        beyond(d) == entry + Up(first.dir) * d
    IN [state |-> "open", dir |-> first.dir, entry |-> entry, sl |-> first.sl,
        tp |-> IF onRecord > 0 THEN onRecord
               ELSE IF r > 0 THEN beyond((3 * r) \div 2) ELSE beyond(PctDelta),
        tp2 |-> IF r > 0 THEN beyond(2 * r) ELSE 0,
        row |-> row, legs |-> Len(legs)]

\* The newest row, and for a close the entry it is matched with: the one of its
\* ticket, which is a deal's and no position's, else the newest.
ClosedBand(rows, s) ==
    LET recent == RecentTrades(rows, s, ClosedLookback)
        last   == rows[Newest(recent)]
        match  == IF last.event # "close" THEN Newest(recent)
                  ELSE Newest(recent \intersect Entries(rows))
        from   == IF match = 0 THEN last ELSE rows[match]
        r      == IF from.sl > 0 THEN Distance(from.px, from.sl) ELSE 0
    IN [state |-> "closed", dir |-> last.dir, entry |-> from.px, sl |-> from.sl,
        tp |-> IF from.tp > 0 THEN from.tp
               ELSE IF r > 0 THEN from.px + Up(last.dir) * ((3 * r) \div 2) ELSE 0,
        tp2 |-> 0, row |-> match, legs |-> 0]

\* Without a heartbeat the symbol is gold's, whatever was asked for.
Band(rows, s, legs) ==
    IF legs # <<>> THEN OpenBand(rows, s, legs)
    ELSE IF RecentTrades(rows, s, ClosedLookback) = {} THEN NoBand ELSE ClosedBand(rows, s)

\* ui_basket, trade_event and the first message of a stream: gold falls back on
\* the newest heartbeat of any chart.
BandOf(rows, known, newest, s) ==
    IF known[s].known THEN Band(rows, s, known[s].legs)
    ELSE IF s = "XAUUSD" /\ newest # "none" THEN Band(rows, newest, known[newest].legs)
    ELSE Band(rows, "XAUUSD", <<>>)
AskedBand(s) == BandOf(bandRows, heartbeats, lastBeat, s)

-----------------------------------------------------------------------------
(* The stream *)

\* broadcast_chart_event, twice: a message about the chart and its band.  A queue
\* that is full is dropped for good.
Broadcast(s, band) ==
    LET room == QueueCap - unread
    IN IF ~listening THEN UNCHANGED <<unread, listening, told>>
       ELSE /\ unread' = IF room > 1 THEN unread + 2 ELSE QueueCap
            /\ listening' = (room > 1)
            /\ told' = IF room > 1 THEN [told EXCEPT ![s] = band] ELSE told

\* stream_chart: the queue is added and gold's band sent first.
ViewerConnects ==
    /\ ~listening /\ Uses("trouble")
    /\ listening' = TRUE /\ unread' = 0
    /\ told' = [s \in BandCharts |-> IF s = "XAUUSD" THEN AskedBand(s) ELSE NoBand]
    /\ UNCHANGED <<legsHeld, bandPosts, bandRows, heartbeats, lastBeat, answering, lostRows>>

\* The viewer catches up with its queue.
ViewerReads ==
    /\ unread > 0 /\ unread' = 0
    /\ UNCHANGED <<legsHeld, bandPosts, bandRows, heartbeats, lastBeat, answering, listening, told,
                   lostRows, bdLeft>>

-----------------------------------------------------------------------------
(* The charts *)

Posts(s, event) == bandPosts' = [bandPosts EXCEPT ![s] = Append(@, event)]
ServiceKeeps == UNCHANGED <<bandRows, heartbeats, lastBeat, answering, unread, listening,
                           told, lostRows>>

\* The target of an open is on record in ADR mode, that of an add always.
LegFills(s, dir, px, adr) ==
    /\ bdLeft.legs = MaxFills => dir = FirstDirection
    /\ Uses("legs") /\ Len(legsHeld[s]) < LegCap[s]
    /\ legsHeld[s] # <<>> => legsHeld[s][1].dir = dir
    /\ LET ticket == MaxFills - bdLeft.legs + 1
           sl == px - Up(dir) * StopGap
       IN /\ legsHeld' = [legsHeld EXCEPT ![s] = Append(@, [ticket |-> ticket, dir |-> dir,
                                                    px |-> px, sl |-> sl])]
          /\ Posts(s, [symbol |-> s, event |-> IF legsHeld[s] = <<>> THEN "open" ELSE "add",
                       ticket |-> ticket, dir |-> dir, px |-> px, sl |-> sl,
                       tp |-> IF adr \/ legsHeld[s] # <<>> THEN px + Up(dir) * TargetGap ELSE 0])
    /\ ServiceKeeps

\* CloseAll, or one leg at its stop.
LegsClose(s, left) ==
    /\ legsHeld[s] # <<>>
    /\ legsHeld' = [legsHeld EXCEPT ![s] = left]
    /\ Posts(s, [symbol |-> s, event |-> "close", ticket |-> 0, dir |-> legsHeld[s][1].dir,
                 px |-> legsHeld[s][1].px, sl |-> 0, tp |-> 0])
    /\ ServiceKeeps /\ UNCHANGED bdLeft

StopsMove(s, sl) ==
    /\ legsHeld[s] # <<>> /\ Uses("stops")
    /\ legsHeld' = [legsHeld EXCEPT ![s] = [k \in DOMAIN @ |-> [@[k] EXCEPT !.sl = sl]]]
    /\ ServiceKeeps /\ UNCHANGED bandPosts

-----------------------------------------------------------------------------
(* The service *)

\* /trade-event: inserted and told to the streams with no await in between.
EventArrives(s) ==
    /\ bandPosts[s] # <<>>
    /\ bandPosts' = [bandPosts EXCEPT ![s] = Tail(@)]
    /\ bandRows' = Append(bandRows, bandPosts[s][1])
    /\ Broadcast(s, BandOf(bandRows', heartbeats, lastBeat, s))
    /\ UNCHANGED <<legsHeld, heartbeats, lastBeat, answering, lostRows, bdLeft>>

EventLost(s) ==
    /\ bandPosts[s] # <<>> /\ Uses("trouble")
    /\ bandPosts' = [bandPosts EXCEPT ![s] = Tail(@)]
    /\ lostRows' = lostRows \union {s}
    /\ UNCHANGED <<legsHeld, bandRows, heartbeats, lastBeat, answering, unread, listening, told>>

\* /heartbeat stores what it was sent before its awaits and broadcasts after them.
BeatStores(s) ==
    /\ answering[s] = NoHeartbeat /\ Uses("beats")
    /\ heartbeats' = [heartbeats EXCEPT ![s] = [known |-> TRUE, legs |-> legsHeld[s]]]
    /\ lastBeat' = s
    /\ answering' = [answering EXCEPT ![s] = heartbeats'[s]]
    /\ UNCHANGED <<legsHeld, bandPosts, bandRows, unread, listening, told, lostRows>>

BeatBroadcasts(s) ==
    /\ answering[s] # NoHeartbeat
    /\ answering' = [answering EXCEPT ![s] = NoHeartbeat]
    /\ Broadcast(s, Band(bandRows, s, answering[s].legs))
    /\ UNCHANGED <<legsHeld, bandPosts, bandRows, heartbeats, lastBeat, lostRows, bdLeft>>

\* The streams end with the process; the rows stay.
BandsRestart ==
    /\ Uses("trouble")
    /\ heartbeats' = [s \in BandCharts |-> NoHeartbeat] /\ lastBeat' = "none"
    /\ answering' = [s \in BandCharts |-> NoHeartbeat]
    /\ unread' = 0 /\ listening' = FALSE
    /\ UNCHANGED <<legsHeld, bandPosts, bandRows, told, lostRows>>

BandsNext ==
    \/ ViewerConnects \/ ViewerReads \/ BandsRestart
    \/ \E s \in BandCharts :
          \/ EventArrives(s) \/ EventLost(s) \/ BeatStores(s) \/ BeatBroadcasts(s)
          \/ \E dir \in {"BUY", "SELL"}, px \in Prices, adr \in AdrModes : LegFills(s, dir, px, adr)
          \/ legsHeld[s] # <<>> /\ \E left \in {<<>>, Tail(legsHeld[s])} : LegsClose(s, left)
          \/ \E sl \in Stops : StopsMove(s, sl)
BandsSpec == BandsInit /\ [][BandsNext]_bandVars

-----------------------------------------------------------------------------
(* Properties *)

BandsTypeOK ==
    /\ \A s \in BandCharts : /\ Len(legsHeld[s]) <= LegCap[s]
                             /\ told[s].state \in {"none", "open", "closed"}
                             /\ told[s].row <= Len(bandRows)
    /\ unread <= QueueCap /\ listening \in BOOLEAN /\ lostRows \subseteq BandCharts
    /\ lastBeat \in BandCharts \union {"none"}

\* What is pushed is what is answered: a viewer who listens and has read every
\* message sees the band a request would get, while no heartbeat of the chart is
\* between its arrival and its answer and the chart has beaten since the start.
StreamAgrees ==
    \A s \in BandCharts :
        listening /\ unread = 0 /\ heartbeats[s].known /\ answering[s] = NoHeartbeat
           => told[s] \in (IF s = "XAUUSD" THEN {} ELSE {NoBand}) \union {AskedBand(s)}

\* While the entry of its first leg is among the rows that are read, an open band is
\* matched with it, in its direction and at its price; with one leg the target lies
\* on the side of the profit, however the stop was moved.  Before the entry has
\* arrived, the target can be that of the basket before.
TargetIsOwn ==
    \A s \in BandCharts :
        LET b == AskedBand(s)
            first == heartbeats[s].legs[1]
            recent == RecentTrades(bandRows, s, OpenLookback) \intersect Entries(bandRows)
        IN /\ heartbeats[s].known /\ b.state = "open"
           /\ \E i \in recent : bandRows[i].ticket = first.ticket
           => /\ bandRows[b.row].ticket = first.ticket
              /\ bandRows[b.row].dir = b.dir /\ bandRows[b.row].px = first.px
              /\ b.legs = 1 => (b.tp - b.entry) * Up(b.dir) > 0

\* "state == 'closed' when no positions are held, referencing the most recent
\* closed basket": once the events of a flat chart have arrived, none lost.
ClosedIsTheLast ==
    \A s \in BandCharts :
        LET b == AskedBand(s)
            own == RowsOf(bandRows, s)
        IN heartbeats[s] = [known |-> TRUE, legs |-> <<>>] /\ legsHeld[s] = <<>>
           /\ bandPosts[s] = <<>> /\ s \notin lostRows /\ own # {}
           => /\ b.state = "closed" /\ bandRows[Newest(own)].event = "close"
              /\ b.row # 0 => b.dir = bandRows[b.row].dir
=============================================================================
