---------------------------- MODULE LaneSwitch ----------------------------
(***************************************************************************)
(* Which strategy ("lane") each chart trades.  The owner, the dashboard,   *)
(* the agent and the dynamic router write what is wanted; the heartbeat of *)
(* a chart decides whether to answer a switch, awaits the command channel, *)
(* and answers what `pending_switch` holds then.  The chart applies the    *)
(* switch at its next bar.  A heartbeat that must send a notice first      *)
(* awaits that too.                                                        *)
(***************************************************************************)
EXTENDS Naturals

CONSTANTS
    Ids,          \* names that may be asked for: POST /api/switch takes any
    BitNames,     \* those that contain "bit"
    InputLane,    \* chart -> the lane of its inputs after a start
    Dwell,        \* MIN_DWELL_SECONDS, in ticks
    MaxSwitches   \* bound of the run

Gold == "XAUUSD"
Bitcoin == "BTCUSD"
Charts == {Gold, Bitcoin}
GoldLanes == {"iziGold5", "iziGold15"}
BitLanes == {"iziBit5", "iziBit15"}
Registered == GoldLanes \union BitLanes \union {"stub"}
AgentLanes == GoldLanes \union BitLanes \union {"izi5", "izi15"} \* LANE_ALLOWLIST
None == "none"

\* OnInit starts a bitcoin chart on iziBit15, whatever its inputs say, and any
\* other chart on a registered lane that is not bitcoin's, or not at all.
ASSUME LaneAssumption == /\ {Dwell, MaxSwitches} \subseteq Nat
                         /\ Registered \union AgentLanes \subseteq Ids /\ None \notin Ids
                         /\ BitNames \subseteq Ids /\ BitNames \cap Registered = BitLanes
                         /\ InputLane[Gold] \in Registered \ BitNames
                         /\ InputLane[Bitcoin] = "iziBit15"

VARIABLES
    (* kv *)
    stored,        \* active_strategy, None when cleared
    storedBtc,     \* active_strategy_btcusd, None when never set
    newsLatched,   \* news_alerted holds the event
    (* app.state *)
    pendingSwitch, \* pending_switch: one for both charts
    pendingFor,    \* pending_switches: chart -> lane
    dwellLeft,     \* ticks until MIN_DWELL_SECONDS after _last_switch_ts
    beat,          \* chart -> [pc, lane, open]: the heartbeat in flight
    (* the charts *)
    chart,         \* chart -> [lane, next, open]: next is g_pendingSwitch
    (* environment and history *)
    dynamic, newsDue, overlapped, notices, lsLeft,
    asked          \* chart -> what was asked for it, by name

laneVars == <<stored, storedBtc, newsLatched, pendingSwitch, pendingFor, dwellLeft, beat,
              chart, dynamic, newsDue, overlapped, notices, lsLeft, asked>>
world == <<newsDue, newsLatched, notices>>

NoBeat == [pc |-> "idle", lane |-> None, open |-> FALSE]

LaneInit ==
    /\ stored = None /\ storedBtc = None /\ newsLatched = FALSE
    /\ pendingSwitch = None /\ pendingFor = [c \in Charts |-> None] /\ dwellLeft = 0
    /\ beat = [c \in Charts |-> NoBeat]
    /\ chart = [c \in Charts |-> [lane |-> InputLane[c], next |-> None, open |-> FALSE]]
    /\ dynamic \in BOOLEAN /\ newsDue = FALSE
    /\ overlapped = FALSE /\ notices = 0
    /\ lsLeft = MaxSwitches /\ asked = [c \in Charts |-> {}]

\* Taps, restarts, openings and heartbeats that overlap are bounded together.
Bounded == lsLeft > 0 /\ lsLeft' = lsLeft - 1

-----------------------------------------------------------------------------
(* The router *)

\* What the market calls for, from the session, the ADX and the rank of the ATR
\* in percent: the fast lane in a burst, else the slow one.
Markets == [session : {"London open", "US data window", "rollover", "other"},
            adx : {0, 19, 24, 25}, rank : {49, 50, 85}]
Expands(m) == /\ m.session \in {"London open", "US data window"}
              /\ m.adx >= 24 /\ m.rank >= 50
Spikes(m) == m.session # "rollover" /\ m.adx >= 25 /\ m.rank >= 85
Compressed(m) == m.adx \in 1..19
Target(m) == IF (Expands(m) \/ Spikes(m)) /\ ~Compressed(m) THEN "iziGold5" ELSE "iziGold15"
Targets == {Target(m) : m \in Markets}

\* evaluate_optimal_strategy with that target: never while a basket is open,
\* never within the dwell of the last switch.
Dwelling(current, target) == target # current /\ dwellLeft > 0
Held(current, open, target) == open \/ Dwelling(current, target)
Optimal(current, open, target) == IF Held(current, open, target) THEN current ELSE target

Route(current, open, target) ==
    LET lane == Optimal(current, open, target)
        writes == lane # current /\ lane # stored
    IN /\ dwellLeft' = IF ~Held(current, open, target) /\ target # current
                       THEN Dwell ELSE dwellLeft
       /\ stored' = IF writes THEN lane ELSE stored

-----------------------------------------------------------------------------
(* The heartbeat *)

\* Mutant: the stored lane goes to the gold chart whatever it is.
Wanted_Any(c, want) ==
    IF pendingFor[c] # None THEN pendingFor[c]
    ELSE IF c = Gold THEN want
    ELSE IF storedBtc = None THEN "iziBit15" ELSE storedBtc
Wanted(c, want) ==
    IF pendingFor[c] # None THEN pendingFor[c]
    ELSE IF c = Gold THEN IF want \in BitNames THEN None ELSE want
    ELSE IF storedBtc = None THEN "iziBit15" ELSE storedBtc

\* A chart that already trades the wanted lane confirms it.
SwitchTo(c, lane, want) == IF Wanted(c, want) = lane THEN None ELSE Wanted(c, want)

Waiting(c) == beat[c].pc = "popping"
Overwrites(c) == overlapped' = (overlapped \/ \E d \in Charts \ {c} : Waiting(d))

\* From the last notice to the await on the command channel, in one piece.
Decide(c, lane, open) ==
    /\ \/ ~dynamic /\ UNCHANGED <<stored, dwellLeft>>
       \/ dynamic /\ \E target \in Targets : Route(lane, open, target)
    /\ pendingSwitch' = SwitchTo(c, lane, stored')
    /\ pendingFor' = [pendingFor EXCEPT ![c] = IF @ = lane THEN None ELSE @]
    /\ beat' = [beat EXCEPT ![c] = [pc |-> "popping", lane |-> lane, open |-> open]]
    /\ Overwrites(c)

MustTell == newsDue /\ ~newsLatched
MayOverlap == \/ \A d \in Charts : beat[d].pc = "idle"
              \/ lsLeft > 0
SpentIfOverlap == lsLeft' = IF \A d \in Charts : beat[d].pc = "idle" THEN lsLeft ELSE lsLeft - 1

BeatDecides(c) ==
    /\ beat[c].pc = "idle" /\ ~MustTell /\ MayOverlap
    /\ Decide(c, chart[c].lane, chart[c].open)
    /\ SpentIfOverlap
    /\ UNCHANGED <<storedBtc, chart, dynamic, world, asked>>

\* _news_headsup reads the latch, awaits Telegram, and writes the latch after.
BeatTells(c) ==
    /\ beat[c].pc = "idle" /\ MustTell /\ MayOverlap
    /\ beat' = [beat EXCEPT ![c] = [pc |-> "telling", lane |-> chart[c].lane,
                                    open |-> chart[c].open]]
    /\ notices' = notices + 1
    /\ overlapped' = (overlapped \/ \E d \in Charts : beat[d].pc = "telling")
    /\ SpentIfOverlap
    /\ UNCHANGED <<stored, storedBtc, newsLatched, pendingSwitch, pendingFor, dwellLeft,
                   chart, dynamic, newsDue, asked>>

BeatTold(c) ==
    /\ beat[c].pc = "telling"
    /\ newsLatched' = TRUE
    /\ Decide(c, beat[c].lane, beat[c].open)
    /\ UNCHANGED <<storedBtc, chart, dynamic, newsDue, notices, lsLeft, asked>>

\* The answer is what pending_switch holds now; it may be lost on the way.
BeatAnswers(c) ==
    /\ Waiting(c)
    /\ beat' = [beat EXCEPT ![c] = NoBeat]
    /\ chart' = [chart EXCEPT ![c].next = IF pendingSwitch = None THEN @ ELSE pendingSwitch]
    /\ UNCHANGED <<stored, storedBtc, pendingSwitch, pendingFor, dwellLeft, dynamic, world,
                   overlapped, lsLeft, asked>>

AnswerLost(c) ==
    /\ Waiting(c) /\ Bounded
    /\ beat' = [beat EXCEPT ![c] = NoBeat]
    /\ UNCHANGED <<stored, storedBtc, pendingSwitch, pendingFor, dwellLeft, chart, dynamic,
                   world, overlapped, asked>>

-----------------------------------------------------------------------------
(* The chart.  The EA is one thread: no bar while it waits for an answer. *)

\* ProcessBar applies the pending switch, whether or not a basket is open; a lane
\* that is not registered changes nothing.
ChartBar(c) ==
    /\ beat[c].pc = "idle" /\ chart[c].next # None
    /\ chart' = [chart EXCEPT ![c].lane = IF chart[c].next \in Registered THEN chart[c].next ELSE @,
                                ![c].next = None]
    /\ UNCHANGED <<stored, storedBtc, pendingSwitch, pendingFor, dwellLeft, beat, dynamic,
                   world, overlapped, lsLeft, asked>>

\* OnInit: the lane of the inputs.
ChartInit(c) ==
    /\ beat[c].pc = "idle" /\ Bounded
    /\ chart' = [chart EXCEPT ![c].lane = InputLane[c], ![c].next = None]
    /\ UNCHANGED <<stored, storedBtc, pendingSwitch, pendingFor, dwellLeft, beat, dynamic,
                   world, overlapped, asked>>

PositionChanges(c) ==
    /\ beat[c].pc = "idle" /\ Bounded
    /\ chart' = [chart EXCEPT ![c].open = ~@]
    /\ UNCHANGED <<stored, storedBtc, pendingSwitch, pendingFor, dwellLeft, beat, dynamic,
                   world, overlapped, asked>>

-----------------------------------------------------------------------------
(* Who else writes, and the world *)

Ask(c, lane) == asked' = [asked EXCEPT ![c] = @ \union ({lane} \ {None})]

\* The strat: buttons of Telegram, for the lanes of both charts.
TapStrategy(lane) ==
    /\ Bounded
    /\ pendingSwitch' = lane
    /\ LET c == IF lane \in BitLanes THEN Bitcoin ELSE Gold
       IN pendingFor' = [pendingFor EXCEPT ![c] = lane] /\ Ask(c, lane)
    /\ IF lane \in BitLanes THEN storedBtc' = lane /\ UNCHANGED stored
                            ELSE stored' = lane /\ UNCHANGED storedBtc
    /\ overlapped' = (overlapped \/ \E d \in Charts : Waiting(d))
    /\ UNCHANGED <<dwellLeft, beat, chart, dynamic, world>>

\* POST /api/switch: any name, for one key; an empty one hands authority back.
DashboardSwitch(lane) ==
    /\ Bounded
    /\ pendingSwitch' = lane /\ stored' = lane
    /\ Ask(Gold, lane)
    /\ overlapped' = (overlapped \/ \E d \in Charts : Waiting(d))
    /\ UNCHANGED <<storedBtc, pendingFor, dwellLeft, beat, chart, dynamic, world>>

\* The agent's switch_lane writes the key only, whichever chart the lane is for.
AgentSwitchesLane(lane) ==
    /\ Bounded
    /\ stored' = lane
    /\ Ask(Gold, lane)
    /\ UNCHANGED <<storedBtc, pendingSwitch, pendingFor, dwellLeft, beat, chart, dynamic,
                   world, overlapped>>

LaneServiceRestart ==
    /\ Bounded
    /\ pendingSwitch' = None /\ pendingFor' = [c \in Charts |-> None] /\ dwellLeft' = 0
    /\ beat' = [c \in Charts |-> NoBeat]
    /\ notices' = IF \E c \in Charts : beat[c].pc = "telling" THEN 0 ELSE notices
    /\ UNCHANGED <<stored, storedBtc, chart, dynamic, newsDue, newsLatched, overlapped, asked>>

TimePasses ==
    /\ dwellLeft > 0 /\ dwellLeft' = dwellLeft - 1
    /\ UNCHANGED <<stored, storedBtc, pendingSwitch, pendingFor, beat, chart, dynamic, world,
                   overlapped, lsLeft, asked>>

\* A high-impact event enters the window of the notice.
NewsComes ==
    /\ ~newsDue /\ newsDue' = TRUE /\ Bounded
    /\ UNCHANGED <<stored, storedBtc, newsLatched, pendingSwitch, pendingFor, dwellLeft, beat,
                   chart, dynamic, overlapped, notices, asked>>

BeatStep(c) == BeatDecides(c) \/ BeatTells(c) \/ BeatTold(c) \/ BeatAnswers(c)
LaneNext ==
    \/ \E c \in Charts : \/ BeatStep(c) \/ AnswerLost(c)
                         \/ ChartBar(c) \/ ChartInit(c) \/ PositionChanges(c)
    \/ \E lane \in GoldLanes \union BitLanes : TapStrategy(lane)
    \/ \E lane \in Ids \union {None} : DashboardSwitch(lane)
    \/ \E lane \in AgentLanes : AgentSwitchesLane(lane)
    \/ LaneServiceRestart \/ TimePasses \/ NewsComes

\* The timer of each EA beats, its bars close, and a handler that has awaited
\* goes on.  Strong fairness, because once the overlaps are used up a heartbeat
\* has to wait for the other chart's to end, which no chart does in reality.
LaneFairness == \A c \in Charts : SF_laneVars(BeatStep(c)) /\ SF_laneVars(ChartBar(c))
LaneSpec == LaneInit /\ [][LaneNext]_laneVars /\ LaneFairness

-----------------------------------------------------------------------------
(* Properties *)

LaneTypeOK ==
    /\ {stored, pendingSwitch} \subseteq Ids \union {None}
    /\ storedBtc \in BitLanes \union {None}
    /\ pendingFor[Gold] \in GoldLanes \union {None}
    /\ pendingFor[Bitcoin] \in BitLanes \union {None}
    /\ \A c \in Charts : chart[c].lane \in Registered

\* What a chart may trade: bitcoin iziBit15 or the lane of its buttons that was
\* tapped; gold the lane of its inputs, what the router chooses when it is on, or
\* what was asked for, of any name, as long as it does not name bitcoin.
LanesOf(c) ==
    IF c = Bitcoin THEN {"iziBit15"} \union asked[Bitcoin]
    ELSE ({InputLane[Gold]} \union asked[Gold] \union IF dynamic THEN Targets ELSE {}) \ BitNames
OwnLanes == \A c \in Charts : {chart[c].lane, chart[c].next} \subseteq LanesOf(c) \union {None}

\* A chart trades a lane nobody asked for it, or the owner hears twice of one event
\* ("ONE Telegram notice per high-impact USD event"), only when a heartbeat awaits
\* the command channel while another heartbeat or a tap writes pending_switch, or
\* two heartbeats read the news latch before either wrote it.
SafeUnlessOverlapped == ~overlapped => OwnLanes /\ notices <= 1
=============================================================================
