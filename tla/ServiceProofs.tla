--------------------------- MODULE ServiceProofs ---------------------------
(***************************************************************************)
(* Proofs about the parts around the proposal rail: the switching of       *)
(* lanes, the back-test jobs, the launcher and the agent; whom the mini    *)
(* app admits, the messages the service keeps in Telegram and the updates  *)
(* it takes from there, and the live feed of the mini app.  ServiceHolds   *)
(* puts them together.                                                     *)
(***************************************************************************)
EXTENDS MCService, NatLemmas

-----------------------------------------------------------------------------
(* Lanes                                                                   *)

Lanes == Ids \union {None}
Owned(c) == LanesOf(c) \union {None}
Beats == [pc : {"idle", "telling", "popping"}, lane : Lanes, open : BOOLEAN]
ChartStates == [lane : Registered, next : Lanes, open : BOOLEAN]

\* The types; what is wanted was asked for or chosen by the router; and what is on
\* its way to a chart when nothing overlapped: the answer of a heartbeat that awaits
\* is a lane of its chart, and a notice was sent by the heartbeat that is still at
\* it or by one that latched it.
Chosen == {None} \union asked[Gold] \union IF dynamic THEN Targets ELSE {}
WantedKnown ==
    /\ stored \in Lanes \cap Chosen /\ storedBtc \in {None} \union asked[Bitcoin]
    /\ pendingFor \in [Charts -> Lanes] /\ \A c \in Charts : pendingFor[c] \in Owned(c)
    /\ pendingFor[Gold] \in GoldLanes \union {None}
    /\ asked \in [Charts -> SUBSET Ids] /\ asked[Bitcoin] \subseteq BitLanes
    /\ dynamic \in BOOLEAN
LaneKinds ==
    /\ WantedKnown
    /\ newsLatched \in BOOLEAN /\ newsDue \in BOOLEAN /\ overlapped \in BOOLEAN
    /\ notices \in Nat
    /\ pendingSwitch \in Lanes
    /\ beat \in [Charts -> Beats] /\ chart \in [Charts -> ChartStates]
    /\ \A c \in Charts : beat[c].lane = None => beat[c].pc = "idle"
OneTells == \A c, d \in Charts : beat[c].pc = "telling" /\ beat[d].pc = "telling" => c = d
Told == /\ notices <= 1
        /\ notices = 1 => newsLatched \/ \E c \in Charts : beat[c].pc = "telling"
        /\ OneTells
OwnAnswers == \A c \in Charts : Waiting(c) => pendingSwitch \in Owned(c)
LaneInv == LaneKinds /\ (~overlapped => OwnLanes /\ OwnAnswers /\ Told)

LEMMA LaneSets ==
  /\ Charts = {Gold, Bitcoin} /\ Gold # Bitcoin
  /\ None \notin Ids /\ Registered \subseteq Ids /\ AgentLanes \subseteq Ids
  /\ GoldLanes \union BitLanes \subseteq Registered
  /\ BitLanes \subseteq BitNames /\ GoldLanes \cap BitNames = {}
  /\ Owned(Bitcoin) = {"iziBit15"} \union asked[Bitcoin] \union {None}
  /\ Owned(Gold) = (({InputLane[Gold]} \union asked[Gold]
                      \union IF dynamic THEN Targets ELSE {}) \ BitNames) \union {None}
  /\ Targets \subseteq GoldLanes
  /\ \A c \in Charts : InputLane[c] \in Registered /\ InputLane[c] \in Owned(c)
<1>1. /\ None \notin Ids /\ Registered \subseteq Ids /\ AgentLanes \subseteq Ids
      /\ BitNames \cap Registered = BitLanes
      /\ InputLane[Gold] \in Registered \ BitNames /\ InputLane[Bitcoin] = "iziBit15"
  BY LaneAssumption
<1>2. Charts = {Gold, Bitcoin} /\ Gold # Bitcoin
  BY DEF Charts, Gold, Bitcoin
<1>3. GoldLanes \union BitLanes \subseteq Registered /\ GoldLanes \cap BitLanes = {}
      /\ "iziBit15" \in BitLanes
  BY DEF GoldLanes, BitLanes, Registered
<1>4. BitLanes \subseteq BitNames /\ GoldLanes \cap BitNames = {}
  BY <1>1, <1>3
<1>5. Targets \subseteq GoldLanes
  BY DEF Targets, Target, GoldLanes
<1>6. Owned(Bitcoin) = {"iziBit15"} \union asked[Bitcoin] \union {None}
  BY <1>2 DEF Owned, LanesOf
<1>7. Owned(Gold) = (({InputLane[Gold]} \union asked[Gold]
                      \union IF dynamic THEN Targets ELSE {}) \ BitNames) \union {None}
  BY <1>2 DEF Owned, LanesOf
<1>8. \A c \in Charts : InputLane[c] \in Registered /\ InputLane[c] \in Owned(c)
  BY <1>1, <1>2, <1>3, <1>6, <1>7
<1>. QED BY <1>1, <1>2, <1>3, <1>4, <1>5, <1>6, <1>7, <1>8

\* What a chart may trade only grows, and only when somebody asks.
LEMMA OwnedSame ==
  ASSUME UNCHANGED <<asked, dynamic>>
  PROVE  \A c : Owned(c)' = Owned(c)
BY DEF Owned, LanesOf

LEMMA OwnedGrows ==
  ASSUME dynamic' = dynamic, \A c \in Charts : asked[c] \subseteq asked'[c]
  PROVE  \A c \in Charts : Owned(c) \subseteq Owned(c)'
BY LaneSets DEF Owned, LanesOf

\* What a heartbeat decides to answer is a lane of its chart.
LEMMA DecideOwn ==
  ASSUME LaneInv, NEW c \in Charts, NEW lane \in Lanes \ {None}, NEW open \in BOOLEAN,
         Decide(c, lane, open), UNCHANGED <<storedBtc, asked, dynamic>>
  PROVE  /\ WantedKnown'
         /\ pendingSwitch' \in Owned(c) /\ pendingSwitch' \in Lanes
         /\ beat' = [beat EXCEPT ![c] = [pc |-> "popping", lane |-> lane, open |-> open]]
         /\ beat' \in [Charts -> Beats]
         /\ \A d \in Charts : beat'[d].lane = None => beat'[d].pc = "idle"
         /\ overlapped' = (overlapped \/ \E d \in Charts \ {c} : Waiting(d))
<1>. USE DEF LaneInv, LaneKinds, WantedKnown
<1>1. stored' \in Lanes \cap Chosen
  <2>1. CASE ~dynamic
    BY <2>1 DEF Decide
  <2>2. CASE dynamic
    <3>1. PICK target \in Targets : Route(lane, open, target)
      BY <2>2 DEF Decide
    <3>2. stored' \in {stored, target}
      BY <3>1 DEF Route, Optimal
    <3>3. target \in Lanes \cap Chosen
      BY <2>2, LaneSets DEF Lanes, Chosen
    <3>. QED BY <3>2, <3>3
  <2>. QED BY <2>1, <2>2
<1>2. pendingSwitch' \in {None, Wanted(c, stored')}
  BY DEF Decide, SwitchTo
<1>3. Wanted(c, stored') \in Owned(c)
  <2>1. CASE pendingFor[c] # None
    BY <2>1 DEF Wanted
  <2>2. CASE pendingFor[c] = None /\ c = Gold
    <3>1. Wanted(c, stored') = IF stored' \in BitNames THEN None ELSE stored'
      BY <2>2 DEF Wanted
    <3>. QED BY <1>1, <2>2, <3>1, LaneSets DEF Chosen
  <2>3. CASE pendingFor[c] = None /\ c = Bitcoin
    BY <2>3, LaneSets DEF Wanted
  <2>. QED BY <2>1, <2>2, <2>3, LaneSets
<1>4. Owned(c) \subseteq Lanes
  BY LaneSets DEF Lanes, BitLanes, Registered
<1>5. pendingSwitch' \in Owned(c) /\ pendingSwitch' \in Lanes
  BY <1>2, <1>3, <1>4 DEF Owned
<1>6. /\ pendingFor' \in [Charts -> Lanes]
      /\ \A d \in Charts : pendingFor'[d] \in {pendingFor[d], None}
  BY LaneSets DEF Decide, Lanes
<1>7. \A d \in Charts : pendingFor'[d] \in Owned(d)'
  BY <1>6, OwnedSame DEF Owned
<1>8. WantedKnown'
  BY <1>1, <1>6, <1>7, LaneSets DEF Chosen
<1>9. /\ beat' = [beat EXCEPT ![c] = [pc |-> "popping", lane |-> lane, open |-> open]]
      /\ overlapped' = (overlapped \/ \E d \in Charts \ {c} : Waiting(d))
  BY DEF Decide, Overwrites
<1>10. [pc |-> "popping", lane |-> lane, open |-> open] \in Beats
  BY DEF Beats
<1>11. beat' \in [Charts -> Beats]
  BY <1>9, <1>10
<1>12. \A d \in Charts : beat'[d].lane = None => beat'[d].pc = "idle"
  <2>. SUFFICES ASSUME NEW d \in Charts, beat'[d].lane = None PROVE beat'[d].pc = "idle"
    OBVIOUS
  <2>1. CASE d = c
    BY <1>9, <2>1
  <2>2. CASE d # c
    BY <1>9, <2>2
  <2>. QED BY <2>1, <2>2
<1>. QED BY <1>5, <1>8, <1>9, <1>11, <1>12

LEMMA LaneStart == LaneInit => LaneInv
<1>. SUFFICES ASSUME LaneInit PROVE LaneInv
  OBVIOUS
<1>. USE DEF LaneInit
<1>1. NoBeat \in Beats
  BY DEF NoBeat, Beats, Lanes
<1>2. \A c \in Charts : [lane |-> InputLane[c], next |-> None, open |-> FALSE] \in ChartStates
  BY LaneSets DEF ChartStates, Lanes
<1>3. LaneKinds
  <2>1. \A c \in Charts : None \in Owned(c) /\ beat[c].pc = "idle"
    BY DEF Owned, NoBeat
  <2>2. beat \in [Charts -> Beats] /\ chart \in [Charts -> ChartStates]
    BY <1>1, <1>2
  <2>3. WantedKnown
    BY <2>1, LaneSets DEF WantedKnown, Lanes, Chosen
  <2>. QED BY <2>1, <2>2, <2>3 DEF LaneKinds, Lanes
<1>4. OwnLanes
  BY LaneSets DEF OwnLanes, Owned
<1>5. OwnAnswers /\ Told
  BY DEF OwnAnswers, Told, OneTells, Waiting, NoBeat
<1>. QED BY <1>3, <1>4, <1>5 DEF LaneInv

LEMMA BeatDecidesSafe ==
  ASSUME LaneInv, NEW c \in Charts, BeatDecides(c)
  PROVE  LaneInv'
<1>. DEFINE lane == chart[c].lane
            open == chart[c].open
<1>1. Decide(c, lane, open) /\ beat[c].pc = "idle" /\ UNCHANGED <<storedBtc, chart, dynamic, world, asked>>
  BY DEF BeatDecides
<1>2. lane \in Lanes \ {None} /\ open \in BOOLEAN
  BY LaneSets DEF LaneInv, LaneKinds, ChartStates, Lanes
<1>. HIDE DEF lane, open
<1>3. /\ WantedKnown'
      /\ pendingSwitch' \in Owned(c) /\ pendingSwitch' \in Lanes
      /\ beat' = [beat EXCEPT ![c] = [pc |-> "popping", lane |-> lane, open |-> open]]
      /\ beat' \in [Charts -> Beats]
      /\ \A d \in Charts : beat'[d].lane = None => beat'[d].pc = "idle"
      /\ overlapped' = (overlapped \/ \E d \in Charts \ {c} : Waiting(d))
  BY <1>1, <1>2, DecideOwn
<1>4. LaneKinds'
  BY <1>1, <1>3, LaneSets DEF LaneInv, LaneKinds, world
<1>5. ASSUME ~overlapped' PROVE (OwnLanes /\ OwnAnswers /\ Told)'
  <2>1. ~overlapped /\ \A d \in Charts \ {c} : ~Waiting(d)
    BY <1>3, <1>5 DEF LaneInv, LaneKinds
  <2>2. /\ beat'[c].pc = "popping"
        /\ \A d \in Charts \ {c} : beat'[d] = beat[d]
    BY <1>3 DEF LaneInv, LaneKinds
  <2>3. OwnLanes'
    BY <1>1, <2>1, OwnedSame DEF LaneInv, OwnLanes, Owned
  <2>4. OwnAnswers'
    BY <1>1, <1>3, <2>1, <2>2, OwnedSame DEF OwnAnswers, Waiting
  <2>5. Told'
    BY <1>1, <2>1, <2>2 DEF LaneInv, Told, OneTells, world
  <2>. QED BY <2>3, <2>4, <2>5
<1>. QED BY <1>4, <1>5 DEF LaneInv

LEMMA BeatTellsSafe ==
  ASSUME LaneInv, NEW c \in Charts, BeatTells(c)
  PROVE  LaneInv'
<1>. DEFINE b == [pc |-> "telling", lane |-> chart[c].lane, open |-> chart[c].open]
<1>1. /\ beat[c].pc = "idle" /\ ~newsLatched
      /\ beat' = [beat EXCEPT ![c] = b]
      /\ notices' = notices + 1
      /\ overlapped' = (overlapped \/ \E d \in Charts : beat[d].pc = "telling")
      /\ UNCHANGED <<stored, storedBtc, newsLatched, pendingSwitch, pendingFor, dwellLeft,
                     chart, dynamic, newsDue, asked>>
  BY DEF BeatTells, MustTell
<1>2. b \in Beats /\ b.pc = "telling" /\ b.lane # None
  BY LaneSets DEF Lanes, LaneInv, LaneKinds, ChartStates, Beats
<1>. HIDE DEF b
<1>3. LaneKinds'
  <2>1. beat' \in [Charts -> Beats]
    BY <1>1, <1>2 DEF LaneInv, LaneKinds
  <2>2. \A d \in Charts : beat'[d].lane = None => beat'[d].pc = "idle"
    BY <1>1, <1>2 DEF LaneInv, LaneKinds
  <2>3. overlapped' \in BOOLEAN /\ notices' \in Nat
    BY <1>1 DEF LaneInv, LaneKinds
  <2>4. WantedKnown'
    BY <1>1, OwnedSame DEF LaneInv, LaneKinds, WantedKnown, Chosen
  <2>. QED BY <1>1, <2>1, <2>2, <2>3, <2>4 DEF LaneInv, LaneKinds
<1>4. ASSUME ~overlapped' PROVE (OwnLanes /\ OwnAnswers /\ Told)'
  <2>1. ~overlapped /\ \A d \in Charts : beat[d].pc # "telling"
    BY <1>1, <1>4 DEF LaneInv, LaneKinds
  <2>2. beat'[c].pc = "telling" /\ \A d \in Charts \ {c} : beat'[d] = beat[d]
    BY <1>1, <1>2 DEF LaneInv, LaneKinds
  <2>3. notices = 0
    BY <1>1, <2>1 DEF LaneInv, LaneKinds, Told
  <2>4. OwnLanes'
    BY <1>1, <2>1, OwnedSame DEF LaneInv, OwnLanes, Owned
  <2>5. OwnAnswers'
    BY <1>1, <1>2, <2>1, <2>2, OwnedSame DEF LaneInv, OwnAnswers, Waiting
  <2>6. Told'
    BY <1>1, <2>1, <2>2, <2>3 DEF Told, OneTells
  <2>. QED BY <2>4, <2>5, <2>6
<1>. QED BY <1>3, <1>4 DEF LaneInv

LEMMA BeatToldSafe ==
  ASSUME LaneInv, NEW c \in Charts, BeatTold(c)
  PROVE  LaneInv'
<1>. DEFINE lane == beat[c].lane
            open == beat[c].open
<1>1. /\ Decide(c, lane, open) /\ beat[c].pc = "telling" /\ newsLatched' = TRUE
      /\ UNCHANGED <<storedBtc, chart, dynamic, newsDue, notices, asked>>
  BY DEF BeatTold
<1>2. lane \in Lanes \ {None} /\ open \in BOOLEAN
  BY <1>1 DEF LaneInv, LaneKinds, Beats
<1>. HIDE DEF lane, open
<1>3. /\ WantedKnown'
      /\ pendingSwitch' \in Owned(c) /\ pendingSwitch' \in Lanes
      /\ beat' = [beat EXCEPT ![c] = [pc |-> "popping", lane |-> lane, open |-> open]]
      /\ beat' \in [Charts -> Beats]
      /\ \A d \in Charts : beat'[d].lane = None => beat'[d].pc = "idle"
      /\ overlapped' = (overlapped \/ \E d \in Charts \ {c} : Waiting(d))
  BY <1>1, <1>2, DecideOwn
<1>4. LaneKinds'
  BY <1>1, <1>3, LaneSets DEF LaneInv, LaneKinds
<1>5. ASSUME ~overlapped' PROVE (OwnLanes /\ OwnAnswers /\ Told)'
  <2>1. ~overlapped /\ \A d \in Charts \ {c} : ~Waiting(d)
    BY <1>3, <1>5 DEF LaneInv, LaneKinds
  <2>2. /\ beat'[c].pc = "popping"
        /\ \A d \in Charts \ {c} : beat'[d] = beat[d]
    BY <1>3 DEF LaneInv, LaneKinds
  <2>3. OwnLanes'
    BY <1>1, <2>1, OwnedSame DEF LaneInv, OwnLanes, Owned
  <2>4. OwnAnswers'
    BY <1>1, <1>3, <2>1, <2>2, OwnedSame DEF OwnAnswers, Waiting
  <2>5. Told'
    BY <1>1, <2>1, <2>2 DEF LaneInv, Told, OneTells
  <2>. QED BY <2>3, <2>4, <2>5
<1>. QED BY <1>4, <1>5 DEF LaneInv

\* Steps that change one heartbeat to idle, and nothing the lanes depend on.
LEMMA BeatEnds ==
  ASSUME LaneInv, NEW c \in Charts, Waiting(c), beat' = [beat EXCEPT ![c] = NoBeat],
         UNCHANGED <<stored, storedBtc, pendingSwitch, pendingFor, dynamic, world, overlapped,
                     asked>>,
         chart' \in [Charts -> ChartStates],
         ~overlapped => OwnLanes'
  PROVE  LaneInv'
<1>. USE DEF LaneInv
<1>1. NoBeat \in Beats /\ NoBeat.pc = "idle"
  BY DEF NoBeat, Beats, Lanes
<1>2. /\ beat' \in [Charts -> Beats] /\ beat'[c].pc = "idle"
      /\ \A d \in Charts \ {c} : beat'[d] = beat[d]
  BY <1>1 DEF LaneKinds
<1>3. LaneKinds'
  BY <1>2, OwnedSame DEF LaneKinds, WantedKnown, Chosen, world
<1>4. ~overlapped => OwnAnswers'
  BY <1>2, OwnedSame DEF OwnAnswers, Waiting
<1>5. ~overlapped => Told'
  BY <1>2 DEF Told, OneTells, world, Waiting
<1>. QED BY <1>3, <1>4, <1>5

LEMMA BeatAnswersSafe ==
  ASSUME LaneInv, NEW c \in Charts, BeatAnswers(c)
  PROVE  LaneInv'
<1>. DEFINE next == IF pendingSwitch = None THEN chart[c].next ELSE pendingSwitch
<1>1. chart' = [chart EXCEPT ![c].next = next]
  BY DEF BeatAnswers
<1>2. next \in Lanes
  BY DEF LaneInv, LaneKinds, ChartStates
<1>3. ASSUME ~overlapped PROVE next \in Owned(c)
  BY <1>3 DEF BeatAnswers, LaneInv, OwnAnswers, OwnLanes, Owned
<1>. HIDE DEF next
<1>4. chart' \in [Charts -> ChartStates]
  BY <1>1, <1>2 DEF LaneInv, LaneKinds, ChartStates
<1>5. ~overlapped => OwnLanes'
  <2>1. ASSUME ~overlapped, NEW d \in Charts
        PROVE  {chart'[d].lane, chart'[d].next} \subseteq Owned(d)
    BY <1>1, <1>3, <2>1 DEF LaneInv, LaneKinds, ChartStates, OwnLanes, Owned
  <2>2. UNCHANGED <<asked, dynamic>>
    BY DEF BeatAnswers
  <2>. QED BY <2>1, <2>2, OwnedSame DEF OwnLanes, Owned
<1>. QED BY <1>4, <1>5, BeatEnds DEF BeatAnswers

LEMMA AnswerLostSafe ==
  ASSUME LaneInv, NEW c \in Charts, AnswerLost(c)
  PROVE  LaneInv'
<1>1. chart' \in [Charts -> ChartStates] /\ (~overlapped => OwnLanes')
  BY OwnedSame DEF AnswerLost, LaneInv, LaneKinds, OwnLanes, Owned
<1>. QED BY <1>1, BeatEnds DEF AnswerLost

\* A bar, a start and a position touch the chart only.
LEMMA ChartSafe ==
  ASSUME LaneInv, NEW c \in Charts, ChartBar(c) \/ ChartInit(c) \/ PositionChanges(c)
  PROVE  LaneInv'
<1>. USE DEF LaneInv
<1>1. /\ UNCHANGED <<stored, storedBtc, pendingSwitch, pendingFor, beat, dynamic, world, overlapped,
                     asked>>
      /\ chart' \in [Charts -> ChartStates]
      /\ \A d \in Charts \ {c} : chart'[d] = chart[d]
  <2>. SUFFICES ASSUME NEW st \in ChartStates, chart' = [chart EXCEPT ![c] = st]
                PROVE  /\ chart' \in [Charts -> ChartStates]
                       /\ \A d \in Charts \ {c} : chart'[d] = chart[d]
    <3>1. CASE ChartBar(c)
      <4>. DEFINE lane == IF chart[c].next \in Registered THEN chart[c].next ELSE chart[c].lane
      <4>1. [chart[c] EXCEPT !.lane = lane, !.next = None] \in ChartStates
        BY ZenonT(30) DEF LaneKinds, ChartStates, Lanes
      <4>. QED BY <3>1, <4>1 DEF ChartBar, LaneKinds
    <3>2. CASE ChartInit(c)
      <4>0. InputLane[c] \in Registered /\ None \in Lanes
        BY LaneSets DEF Lanes
      <4>1. [chart[c] EXCEPT !.lane = InputLane[c], !.next = None] \in ChartStates
        BY <4>0 DEF LaneKinds, ChartStates
      <4>. QED BY <3>2, <4>1 DEF ChartInit, LaneKinds
    <3>3. CASE PositionChanges(c)
      <4>1. [chart[c] EXCEPT !.open = ~@] \in ChartStates
        BY DEF LaneKinds, ChartStates
      <4>. QED BY <3>3, <4>1 DEF PositionChanges, LaneKinds
    <3>. QED BY <3>1, <3>2, <3>3 DEF ChartBar, ChartInit, PositionChanges
  <2>. QED BY DEF LaneKinds
<1>2. ~overlapped => {chart'[c].lane, chart'[c].next} \subseteq Owned(c)
  <2>1. CASE ChartBar(c)
    BY <2>1 DEF ChartBar, LaneKinds, ChartStates, OwnLanes, Owned
  <2>2. CASE ChartInit(c)
    BY <2>2, LaneSets DEF ChartInit, LaneKinds, ChartStates, Owned
  <2>3. CASE PositionChanges(c)
    BY <2>3 DEF PositionChanges, LaneKinds, ChartStates, OwnLanes, Owned
  <2>. QED BY <2>1, <2>2, <2>3
<1>3. ~overlapped => OwnLanes'
  BY <1>1, <1>2, OwnedSame DEF OwnLanes, Owned
<1>4. LaneKinds'
  BY <1>1, OwnedSame DEF LaneKinds, WantedKnown, Chosen, world
<1>. QED BY <1>1, <1>3, <1>4, OwnedSame DEF OwnAnswers, Waiting, Told, OneTells, world

\* Whoever writes what is wanted leaves the charts, the heartbeats and the notices.
LEMMA WantedChanges ==
  ASSUME LaneInv, UNCHANGED <<beat, chart, dynamic, world>>,
         WantedKnown', pendingSwitch' \in Lanes,
         \A c \in Charts : asked[c] \subseteq asked'[c],
         \/ UNCHANGED <<pendingSwitch, overlapped>>
         \/ overlapped' = (overlapped \/ \E d \in Charts : Waiting(d))
  PROVE  LaneInv'
<1>. USE DEF LaneInv
<1>1. LaneKinds'
  BY DEF LaneKinds, world
<1>2. ASSUME ~overlapped' PROVE ~overlapped /\ OwnAnswers'
  BY <1>2, OwnedGrows DEF LaneKinds, OwnAnswers, Waiting
<1>3. ~overlapped => OwnLanes'
  BY OwnedGrows DEF OwnLanes, Owned
<1>. QED BY <1>1, <1>2, <1>3 DEF Told, OneTells, world

\* Somebody asks for a lane of a chart.
LEMMA AskKnown ==
  ASSUME LaneInv, NEW c \in Charts, NEW lane \in Ids \union {None}, Ask(c, lane),
         c = Bitcoin => lane \in BitLanes, dynamic' = dynamic
  PROVE  /\ asked' \in [Charts -> SUBSET Ids] /\ asked'[Bitcoin] \subseteq BitLanes
         /\ \A d \in Charts : asked[d] \subseteq asked'[d]
         /\ lane \in {None} \union asked'[c]
         /\ \A d \in Charts : pendingFor[d] \in Owned(d)'
         /\ stored \in Lanes \cap Chosen' /\ storedBtc \in {None} \union asked'[Bitcoin]
<1>. USE DEF LaneInv, LaneKinds, WantedKnown
<1>1. /\ asked'[c] = asked[c] \union ({lane} \ {None}) /\ asked' \in [Charts -> SUBSET Ids]
      /\ \A d \in Charts \ {c} : asked'[d] = asked[d]
  BY DEF Ask
<1>2. asked'[Bitcoin] \subseteq BitLanes /\ \A d \in Charts : asked[d] \subseteq asked'[d]
  BY <1>1, LaneSets
<1>3. \A d \in Charts : pendingFor[d] \in Owned(d)'
  BY <1>2, OwnedGrows
<1>4. Chosen \subseteq Chosen'
  BY <1>2, LaneSets DEF Chosen
<1>. QED BY <1>1, <1>2, <1>3, <1>4, LaneSets

LEMMA TapSafe ==
  ASSUME LaneInv, NEW lane \in GoldLanes \union BitLanes, TapStrategy(lane)
  PROVE  LaneInv'
<1>. DEFINE c == IF lane \in BitLanes THEN Bitcoin ELSE Gold
<1>1. /\ pendingSwitch' = lane /\ pendingFor' = [pendingFor EXCEPT ![c] = lane] /\ Ask(c, lane)
      /\ IF lane \in BitLanes THEN storedBtc' = lane /\ UNCHANGED stored
                              ELSE stored' = lane /\ UNCHANGED storedBtc
      /\ overlapped' = (overlapped \/ \E d \in Charts : Waiting(d))
      /\ UNCHANGED <<beat, chart, dynamic, world>>
  BY DEF TapStrategy
<1>2. /\ lane \in Ids /\ lane # None /\ c \in Charts /\ (c = Bitcoin => lane \in BitLanes)
      /\ (c = Gold => lane \in GoldLanes /\ lane \notin BitNames)
      /\ (lane \in BitLanes => c = Bitcoin) /\ (lane \notin BitLanes => c = Gold)
  BY LaneSets
<1>. HIDE DEF c
<1>3. /\ asked' \in [Charts -> SUBSET Ids] /\ asked'[Bitcoin] \subseteq BitLanes
      /\ \A d \in Charts : asked[d] \subseteq asked'[d]
      /\ lane \in {None} \union asked'[c]
      /\ \A d \in Charts : pendingFor[d] \in Owned(d)'
      /\ stored \in Lanes \cap Chosen' /\ storedBtc \in {None} \union asked'[Bitcoin]
  BY <1>1, <1>2, AskKnown
<1>4. pendingFor' \in [Charts -> Lanes] /\ \A d \in Charts : pendingFor'[d] \in Owned(d)'
  <2>1. lane \in Owned(c)'
    BY <1>2, <1>3, LaneSets DEF Owned, LanesOf
  <2>. QED BY <1>1, <1>2, <1>3, <2>1 DEF LaneInv, LaneKinds, WantedKnown, Lanes
<1>5. stored' \in Lanes \cap Chosen' /\ storedBtc' \in {None} \union asked'[Bitcoin]
  <2>1. c = Gold => lane \in Lanes \cap Chosen'
    BY <1>2, <1>3 DEF Lanes, Chosen
  <2>. QED BY <1>1, <1>2, <1>3, <2>1
<1>6. pendingFor'[Gold] \in GoldLanes \union {None}
  BY <1>1, <1>2, LaneSets DEF LaneInv, LaneKinds, WantedKnown
<1>7. WantedKnown' /\ pendingSwitch' \in Lanes
  BY <1>1, <1>2, <1>3, <1>4, <1>5, <1>6 DEF LaneInv, LaneKinds, WantedKnown, Lanes
<1>. QED BY <1>1, <1>3, <1>7, WantedChanges

\* The dashboard and the agent write the key of the gold chart.
LEMMA KeySafe ==
  ASSUME LaneInv, NEW lane \in Ids \union {None}, DashboardSwitch(lane) \/ AgentSwitchesLane(lane)
  PROVE  LaneInv'
<1>1. /\ stored' = lane /\ Ask(Gold, lane)
      /\ UNCHANGED <<storedBtc, pendingFor, beat, chart, dynamic, world>>
      /\ \/ UNCHANGED <<pendingSwitch, overlapped>>
         \/ /\ pendingSwitch' = lane
            /\ overlapped' = (overlapped \/ \E d \in Charts : Waiting(d))
  BY DEF DashboardSwitch, AgentSwitchesLane
<1>2. Gold \in Charts /\ Gold # Bitcoin /\ lane \in Lanes
  BY LaneSets DEF Lanes
<1>3. /\ asked' \in [Charts -> SUBSET Ids] /\ asked'[Bitcoin] \subseteq BitLanes
      /\ \A d \in Charts : asked[d] \subseteq asked'[d]
      /\ lane \in {None} \union asked'[Gold]
      /\ \A d \in Charts : pendingFor[d] \in Owned(d)'
      /\ storedBtc \in {None} \union asked'[Bitcoin]
  BY <1>1, <1>2, AskKnown
<1>4. WantedKnown' /\ pendingSwitch' \in Lanes
  BY <1>1, <1>2, <1>3 DEF LaneInv, LaneKinds, WantedKnown, Chosen
<1>. QED BY <1>1, <1>3, <1>4, WantedChanges

LEMMA ServiceRestartSafe ==
  ASSUME LaneInv, LaneServiceRestart
  PROVE  LaneInv'
<1>. USE DEF LaneInv
<1>1. NoBeat \in Beats /\ NoBeat.pc = "idle" /\ None \in Lanes
  BY DEF NoBeat, Beats, Lanes
<1>2. /\ pendingSwitch' = None /\ pendingFor' = [c \in Charts |-> None]
      /\ beat' = [c \in Charts |-> NoBeat]
      /\ notices' = (IF \E c \in Charts : beat[c].pc = "telling" THEN 0 ELSE notices)
      /\ UNCHANGED <<stored, storedBtc, chart, dynamic, newsDue, newsLatched, overlapped, asked>>
  BY DEF LaneServiceRestart
<1>3. LaneKinds'
  <2>1. WantedKnown'
    BY <1>1, <1>2, LaneSets DEF LaneKinds, WantedKnown, Chosen, Owned
  <2>. QED BY <1>1, <1>2, <2>1 DEF LaneKinds
<1>4. OwnAnswers' /\ OneTells'
  BY <1>1, <1>2 DEF OwnAnswers, OneTells, Waiting
<1>5. ~overlapped => Told'
  BY <1>2, <1>4 DEF Told
<1>6. ~overlapped => OwnLanes'
  BY <1>2, OwnedSame DEF OwnLanes, Owned
<1>. QED BY <1>2, <1>3, <1>4, <1>5, <1>6

LEMMA LaneStep ==
  ASSUME LaneInv, [LaneNext]_laneVars
  PROVE  LaneInv'
<1>. DEFINE Quietly == UNCHANGED <<stored, storedBtc, newsLatched, pendingSwitch, pendingFor, beat,
                                   chart, dynamic, overlapped, notices, asked>>
<1>1. ASSUME Quietly, newsDue' \in BOOLEAN PROVE LaneInv'
  <2>1. LaneKinds'
    BY <1>1, OwnedSame DEF LaneInv, LaneKinds, WantedKnown, Chosen
  <2>2. (OwnLanes => OwnLanes') /\ (OwnAnswers => OwnAnswers')
    BY <1>1, OwnedSame DEF OwnLanes, OwnAnswers, Waiting, Owned
  <2>. QED BY <1>1, <2>1, <2>2 DEF LaneInv, Told, OneTells
<1>2. ASSUME TimePasses \/ NewsComes \/ UNCHANGED laneVars PROVE LaneInv'
  <2>1. Quietly /\ newsDue' \in BOOLEAN
    BY <1>2 DEF TimePasses, NewsComes, laneVars, world, LaneInv, LaneKinds
  <2>. QED BY <1>1, <2>1
<1>3. AgentLanes \subseteq Ids
  BY LaneSets
<1>. QED
  BY <1>2, <1>3, BeatDecidesSafe, BeatTellsSafe, BeatToldSafe, BeatAnswersSafe, AnswerLostSafe,
     ChartSafe, TapSafe, KeySafe, ServiceRestartSafe DEF LaneNext, BeatStep

\* While no two handlers interleave, whatever taps, names given to the dashboard or
\* the agent, routing, restarts and lost answers come: each chart trades and is told
\* only lanes that its start or the router chose or that somebody asked for it, gold
\* none that names bitcoin, and the owner is told of an event once (heartbeat and
\* _news_headsup in routers/ea.py, ui_switch, _cb_strat, switch_lane).
THEOREM LanesSafe == LaneSpec => []SafeUnlessOverlapped
<1>1. LaneInv => SafeUnlessOverlapped
  BY DEF LaneInv, SafeUnlessOverlapped, Told
<1>. QED BY <1>1, LaneStart, LaneStep, PTL DEF LaneSpec

-----------------------------------------------------------------------------
(* Back-tests                                                              *)

\* The types, the thread and its row, and the directory it has made once the
\* engine runs.
BacktestKinds ==
    /\ runRows \in Seq({"running", "done", "failed"}) /\ runDirs \subseteq RunIds
    /\ busy \in BOOLEAN /\ enoughBars \in BOOLEAN
    /\ worker \in [run : Nat, pc : {"none", "prepare", "engine", "prune", "release"}]
    /\ worker.pc = "none" => worker = NoWorker
    /\ worker.pc # "none" => worker.run \in RunIds
    /\ worker.pc \in {"prepare", "engine"} => worker.run \notin stranded
    /\ stranded \subseteq RunIds
BacktestInv ==
    /\ BacktestKinds /\ RunningRowHasWorker /\ RecentReportsKept
    /\ worker.pc = "engine" => worker.run \in runDirs

\* Fewer directories are newer than a run than runs are.
LEMMA NewerDirsFew ==
  ASSUME BacktestKinds, NEW r \in RunIds
  PROVE  Cardinality(NewerDirs(r)) <= Len(runRows) - r
<1>. DEFINE n == Len(runRows)
<1>1. n \in Nat /\ r \in 1..n /\ RunIds = 1..n
  BY DEF BacktestKinds, RunIds
<1>. HIDE DEF n
<1>2. NewerDirs(r) \subseteq (r + 1)..n
  <2>1. runDirs \subseteq 1..n
    BY <1>1 DEF BacktestKinds
  <2>. SUFFICES ASSUME NEW e \in runDirs, e > r PROVE e \in (r + 1)..n
    BY DEF NewerDirs
  <2>. QED BY <1>1, <2>1
<1>3. /\ IsFiniteSet((r + 1)..n)
      /\ Cardinality((r + 1)..n) = n - r
  <2>1. /\ IsFiniteSet((r + 1)..n)
        /\ Cardinality((r + 1)..n) = IF r + 1 > n THEN 0 ELSE n - (r + 1) + 1
    BY <1>1, FS_Interval
  <2>. QED BY <1>1, <2>1
<1>4. Cardinality(NewerDirs(r)) <= n - r
  <2>1. Cardinality(NewerDirs(r)) <= Cardinality((r + 1)..n)
    BY <1>2, <1>3, FS_Subset
  <2>. QED BY <1>3, <2>1
<1>. QED BY <1>4 DEF n

LEMMA BacktestStart == BacktestInit => BacktestInv
<1>. SUFFICES ASSUME BacktestInit PROVE BacktestInv
  OBVIOUS
<1>1. runRows = <<>> /\ runRows \in Seq({"running", "done", "failed"}) /\ RunIds = {}
  BY DEF BacktestInit, RunIds
<1>2. BacktestKinds
  BY <1>1 DEF BacktestInit, BacktestKinds, NoWorker
<1>. QED
  BY <1>1, <1>2 DEF BacktestInit, BacktestInv, RunningRowHasWorker, RecentReportsKept, NoWorker

\* One more row, of a run that starts or of one that does not.
LEMMA RowAdded ==
  ASSUME BacktestInv, runRows' = Append(runRows, "running"), UNCHANGED runDirs,
         NEW n, n = Len(runRows)
  PROVE  /\ n \in Nat /\ RunIds = 1..n /\ RunIds' = 1..(n + 1) /\ Len(runRows') = n + 1
         /\ runRows' \in Seq({"running", "done", "failed"})
         /\ runRows'[n + 1] = "running" /\ \A r \in RunIds : runRows'[r] = runRows[r]
         /\ RecentReportsKept'
<1>. USE DEF BacktestInv
<1>1. /\ n \in Nat /\ RunIds = 1..n /\ RunIds' = 1..(n + 1) /\ Len(runRows') = n + 1
      /\ runRows' \in Seq({"running", "done", "failed"})
      /\ runRows'[n + 1] = "running" /\ \A r \in RunIds : runRows'[r] = runRows[r]
  BY DEF BacktestKinds, RunIds
<1>2. RecentReportsKept'
  <2>. SUFFICES ASSUME NEW r \in 1..(n + 1), runRows'[r] = "done", (n + 1) - r < KeepRuns
                PROVE  r \in runDirs
    BY <1>1 DEF RecentReportsKept
  <2>1. r \in 1..n
    BY <1>1
  <2>2. n - r < KeepRuns
    BY <1>1, <2>1, BacktestAssumption
  <2>. QED BY <1>1, <2>1, <2>2 DEF RecentReportsKept
<1>. QED BY <1>1, <1>2

LEMMA StartRunSafe == ASSUME BacktestInv, StartRun PROVE BacktestInv'
<1>. USE DEF BacktestInv
<1>1. PICK n : n = Len(runRows)
  OBVIOUS
<1>2. /\ worker = NoWorker /\ worker' = [run |-> n + 1, pc |-> "prepare"] /\ busy' = TRUE
      /\ UNCHANGED <<runDirs, stranded, enoughBars>> /\ runRows' = Append(runRows, "running")
  BY <1>1 DEF StartRun, RunningRowHasWorker
<1>3. /\ n \in Nat /\ RunIds = 1..n /\ RunIds' = 1..(n + 1)
      /\ runRows' \in Seq({"running", "done", "failed"})
      /\ runRows'[n + 1] = "running" /\ \A r \in RunIds : runRows'[r] = runRows[r]
      /\ RecentReportsKept'
  BY <1>1, <1>2, RowAdded
<1>4. BacktestKinds'
  BY <1>2, <1>3 DEF BacktestKinds
<1>5. \A r \in RunIds : runRows[r] = "running" <=> r \in stranded
  BY <1>2 DEF RunningRowHasWorker, NoWorker
<1>6. RunningRowHasWorker'
  <2>1. busy' <=> worker' # NoWorker
    BY <1>2 DEF NoWorker
  <2>2. ASSUME NEW r \in RunIds'
        PROVE  runRows'[r] = "running" <=> worker'.run = r \/ r \in stranded'
    <3>1. CASE r = n + 1
      BY <1>2, <1>3, <3>1
    <3>2. CASE r # n + 1
      <4>1. r \in RunIds
        BY <1>3, <3>2
      <4>. QED BY <1>2, <1>3, <1>5, <3>2, <4>1
    <3>. QED BY <3>1, <3>2
  <2>. QED BY <1>2, <2>1, <2>2 DEF RunningRowHasWorker
<1>. QED BY <1>2, <1>3, <1>4, <1>6

LEMMA StartFailsSafe == ASSUME BacktestInv, StartFails PROVE BacktestInv'
<1>. USE DEF BacktestInv
<1>1. PICK n : n = Len(runRows)
  OBVIOUS
<1>2. /\ UNCHANGED <<runDirs, busy, worker, enoughBars>>
      /\ \/ UNCHANGED <<runRows, stranded>>
         \/ runRows' = Append(runRows, "running") /\ stranded' = stranded \union {n + 1}
      /\ worker = NoWorker
  BY <1>1 DEF StartFails, RunningRowHasWorker
<1>3. CASE UNCHANGED <<runRows, stranded>>
  BY <1>2, <1>3 DEF BacktestKinds, RunIds, RunningRowHasWorker, RecentReportsKept
<1>4. CASE runRows' = Append(runRows, "running") /\ stranded' = stranded \union {n + 1}
  <2>1. /\ n \in Nat /\ RunIds = 1..n /\ RunIds' = 1..(n + 1)
        /\ runRows' \in Seq({"running", "done", "failed"})
        /\ runRows'[n + 1] = "running" /\ \A r \in RunIds : runRows'[r] = runRows[r]
        /\ RecentReportsKept'
    BY <1>1, <1>2, <1>4, RowAdded
  <2>2. BacktestKinds'
    BY <1>2, <1>4, <2>1 DEF BacktestKinds, NoWorker
  <2>3. \A r \in RunIds : runRows[r] = "running" <=> r \in stranded
    BY <1>2 DEF RunningRowHasWorker, NoWorker
  <2>4. ASSUME NEW r \in RunIds' PROVE runRows'[r] = "running" <=> r \in stranded'
    <3>1. CASE r = n + 1
      BY <1>4, <2>1, <3>1
    <3>2. CASE r # n + 1
      <4>1. r \in RunIds
        BY <2>1, <3>2
      <4>. QED BY <1>4, <2>1, <2>3, <3>2, <4>1
    <3>. QED BY <3>1, <3>2
  <2>5. RunningRowHasWorker'
    BY <1>2, <2>4 DEF RunningRowHasWorker, NoWorker
  <2>. QED BY <1>2, <2>1, <2>2, <2>5 DEF NoWorker
<1>. QED BY <1>2, <1>3, <1>4

\* A row of a run is settled, or left running; no table gets longer.
LEMMA Finished ==
  ASSUME BacktestKinds, NEW r \in RunIds, NEW st \in {"done", "failed"}, Finish(r, st)
  PROVE  /\ runRows' \in Seq({"running", "done", "failed"})
         /\ RunIds' = RunIds /\ Len(runRows') = Len(runRows)
         /\ runRows'[r] = st /\ \A q \in RunIds \ {r} : runRows'[q] = runRows[q]
BY DEF Finish, BacktestKinds, RunIds

\* The thread goes from its engine, or its preparation, to its end.
LEMMA FailSafe ==
  ASSUME BacktestInv, worker.pc \in {"prepare", "engine"}, Fail(worker.run), Goto("release"),
         runDirs' \in {runDirs, runDirs \union {worker.run}}, UNCHANGED <<busy, enoughBars>>
  PROVE  BacktestInv'
<1>. USE DEF BacktestInv
<1>1. /\ worker.run \in RunIds /\ worker.run \notin stranded /\ worker # NoWorker
      /\ runRows[worker.run] = "running"
  BY DEF BacktestKinds, RunningRowHasWorker, NoWorker
<1>2. worker' = [worker EXCEPT !.pc = "release"] /\ worker'.pc = "release" /\ worker'.run = worker.run
  BY DEF Goto, BacktestKinds
<1>3. CASE Finish(worker.run, "failed") /\ UNCHANGED stranded
  <2>1. /\ runRows' \in Seq({"running", "done", "failed"})
        /\ RunIds' = RunIds /\ Len(runRows') = Len(runRows)
        /\ runRows'[worker.run] = "failed"
        /\ \A q \in RunIds \ {worker.run} : runRows'[q] = runRows[q]
    BY <1>1, <1>3, Finished
  <2>. QED BY <1>1, <1>2, <1>3, <2>1, SMTT(30)
           DEF BacktestKinds, RunningRowHasWorker, RecentReportsKept, NoWorker
<1>4. CASE stranded' = stranded \union {worker.run} /\ UNCHANGED runRows
  <2>1. RunIds' = RunIds
    BY <1>4 DEF RunIds
  <2>2. BacktestKinds' /\ RecentReportsKept'
    <3>1. runDirs' \subseteq RunIds /\ runDirs \subseteq runDirs' /\ stranded' \subseteq RunIds
      BY <1>1, <1>4 DEF BacktestKinds
    <3>2. worker' \in [run : Nat, pc : {"none", "prepare", "engine", "prune", "release"}]
      BY <1>2 DEF BacktestKinds
    <3>. QED BY <1>1, <1>2, <1>4, <2>1, <3>1, <3>2 DEF BacktestKinds, RecentReportsKept
  <2>3. ASSUME NEW r \in RunIds PROVE runRows'[r] = "running" <=> r \in stranded'
    BY <1>1, <1>4 DEF RunningRowHasWorker
  <2>4. (busy <=> worker # NoWorker)'
    BY <1>1, <1>2 DEF RunningRowHasWorker, NoWorker
  <2>5. RunningRowHasWorker'
    BY <1>2, <2>1, <2>3, <2>4 DEF RunningRowHasWorker
  <2>. QED BY <1>2, <2>2, <2>5
<1>. QED BY <1>3, <1>4 DEF Fail

LEMMA PrepareSafe == ASSUME BacktestInv, Prepare PROVE BacktestInv'
<1>. USE DEF BacktestInv
<1>1. /\ worker.pc = "prepare" /\ worker.run \in RunIds
      /\ worker' = [worker EXCEPT !.pc = "engine"]
      /\ runDirs' = runDirs \union {worker.run} /\ UNCHANGED <<runRows, busy, stranded, enoughBars>>
  BY DEF Prepare, At, Goto, BacktestKinds
<1>. QED BY <1>1 DEF BacktestKinds, RunIds, RunningRowHasWorker, RecentReportsKept, NoWorker

LEMMA EngineSafe == ASSUME BacktestInv, EngineSucceeds PROVE BacktestInv'
<1>. USE DEF BacktestInv
<1>1. /\ worker.pc = "engine" /\ worker.run \in RunIds /\ worker.run \in runDirs
      /\ worker.run \notin stranded
      /\ Finish(worker.run, "done") /\ worker' = [worker EXCEPT !.pc = "prune"]
      /\ UNCHANGED <<runDirs, busy, stranded, enoughBars>>
  BY DEF EngineSucceeds, At, Goto, BacktestKinds
<1>2. /\ runRows' \in Seq({"running", "done", "failed"})
      /\ RunIds' = RunIds /\ Len(runRows') = Len(runRows)
      /\ runRows'[worker.run] = "done"
      /\ \A q \in RunIds \ {worker.run} : runRows'[q] = runRows[q]
  BY <1>1, Finished
<1>. QED BY <1>1, <1>2 DEF BacktestKinds, RunningRowHasWorker, RecentReportsKept, NoWorker

LEMMA PruneSafe == ASSUME BacktestInv, PruneRuns PROVE BacktestInv'
<1>. USE DEF BacktestInv
<1>1. /\ worker.pc = "prune" /\ worker' = [worker EXCEPT !.pc = "release"]
      /\ runDirs' \subseteq runDirs /\ runDirs \ Stale(worker.run) \subseteq runDirs'
      /\ UNCHANGED <<runRows, busy, stranded, enoughBars>>
  BY DEF PruneRuns, At, Goto
<1>2. RunIds' = RunIds
  BY <1>1 DEF RunIds
<1>3. BacktestKinds' /\ RunningRowHasWorker'
  BY <1>1, <1>2 DEF BacktestKinds, RunningRowHasWorker, NoWorker
<1>4. RecentReportsKept'
  <2>. SUFFICES ASSUME NEW r \in RunIds, runRows[r] = "done", Len(runRows) - r < KeepRuns
                PROVE  r \in runDirs'
    BY <1>1, <1>2 DEF RecentReportsKept
  <2>1. r \in runDirs
    BY DEF RecentReportsKept
  <2>2. Cardinality(NewerDirs(r)) <= Len(runRows) - r
    BY NewerDirsFew
  <2>3. Cardinality(NewerDirs(r)) \in Nat
    <3>1. NewerDirs(r) \subseteq 1..Len(runRows) /\ Len(runRows) \in Nat
      BY DEF BacktestKinds, RunIds, NewerDirs
    <3>2. IsFiniteSet(1..Len(runRows))
      BY <3>1, FS_Interval
    <3>3. IsFiniteSet(NewerDirs(r))
      BY <3>1, <3>2, FS_Subset
    <3>. QED BY <3>3, FS_CardinalityType
  <2>4. ~(Cardinality(NewerDirs(r)) >= KeepRuns)
    <3>1. Len(runRows) \in Nat /\ r \in Nat
      BY DEF BacktestKinds, RunIds
    <3>. QED BY <2>2, <2>3, <3>1, BacktestAssumption
  <2>. QED BY <1>1, <2>1, <2>4 DEF Stale
<1>. QED BY <1>1, <1>3, <1>4

LEMMA BacktestRestartSafe == ASSUME BacktestInv, BacktestRestart PROVE BacktestInv'
<1>. USE DEF BacktestInv
<1>1. /\ busy' = FALSE /\ worker' = NoWorker /\ UNCHANGED <<runDirs, enoughBars>>
      /\ \/ runRows' = Reconciled /\ stranded' = {}
         \/ UNCHANGED runRows /\ stranded' = {r \in RunIds : runRows[r] = "running"}
  BY DEF BacktestRestart
<1>2. CASE runRows' = Reconciled /\ stranded' = {}
  <2>1. /\ runRows' \in Seq({"running", "done", "failed"})
        /\ RunIds' = RunIds /\ Len(runRows') = Len(runRows)
        /\ \A r \in RunIds : runRows'[r] = IF runRows[r] = "running" THEN "failed" ELSE runRows[r]
    BY <1>2 DEF Reconciled, BacktestKinds, RunIds
  <2>. QED BY <1>1, <1>2, <2>1, ZenonT(30)
           DEF BacktestKinds, RunningRowHasWorker, RecentReportsKept, NoWorker
<1>3. CASE UNCHANGED runRows /\ stranded' = {r \in RunIds : runRows[r] = "running"}
  <2>1. RunIds' = RunIds
    BY <1>3 DEF RunIds
  <2>. QED BY <1>1, <1>3, <2>1 DEF BacktestKinds, RunningRowHasWorker, RecentReportsKept, NoWorker
<1>. QED BY <1>1, <1>2, <1>3

LEMMA BacktestStep == ASSUME BacktestInv, [BacktestNext]_btVars PROVE BacktestInv'
<1>1. CASE ReleaseBusy
  BY <1>1 DEF ReleaseBusy, At, BacktestInv, BacktestKinds, RunIds, RunningRowHasWorker,
              RecentReportsKept, NoWorker
<1>2. CASE CandlesChange \/ RefuseRun \/ UNCHANGED btVars
  <2>1. UNCHANGED <<runRows, runDirs, busy, worker, stranded>> /\ enoughBars' \in BOOLEAN
    BY <1>2 DEF CandlesChange, RefuseRun, btVars, BacktestInv, BacktestKinds
  <2>. QED BY <2>1 DEF BacktestInv, BacktestKinds, RunIds, RunningRowHasWorker, RecentReportsKept
<1>3. CASE PrepareFails \/ EngineFails
  BY <1>3, FailSafe DEF PrepareFails, EngineFails, At
<1>. QED
  BY <1>1, <1>2, <1>3, StartRunSafe, StartFailsSafe, PrepareSafe, EngineSafe, PruneSafe,
     BacktestRestartSafe DEF BacktestNext, ThreadStep

\* No failure, timeout, prune or restart leaks the lock of the back-tests; a row is left
\* running only by a thread that did not start or whose last write failed, until a start
\* of the service settles it; and the report of a recent run is there to be opened
\* (start_run, _execute and _prune_runs in backtest_runner.py, lifespan in main.py).
THEOREM RunsAreAccounted == BacktestSpec => []RunsAccounted
<1>1. BacktestInv => RunsAccounted
  BY DEF BacktestInv, RunsAccounted
<1>. QED BY <1>1, BacktestStart, BacktestStep, PTL DEF BacktestSpec

-----------------------------------------------------------------------------
(* The launcher                                                            *)

Stages == {"idle", "stop", "down", "packages", "env", "key", "compose", "integrations", "tunnel",
           "detect", "prepare", "copy", "compile", "start", "started", "bridge", "relay", "verify"}
LauncherFlags == {"dry", "noInstall", "skipMt5", "restart", "stop"}
Launches == [pc : Stages, flags : SUBSET LauncherFlags, said : {"nothing", "fresh", "stale"}]

LauncherKinds ==
    /\ env \in [exists : BOOLEAN, key : Nat, tunnel : BOOLEAN]
    /\ stack \in [up : BOOLEAN, key : Nat, tunnel : BOOLEAN]
    /\ bridge \in [count : Nat, key : Nat]
    /\ ea \in [main : Nat, include : Nat, copied : Nat, built : Nat, at : Nat]
    /\ launch \in Launches
    /\ lnLeft \in [runs : 0..MaxRunsOfLauncher, mishaps : Nat]

\* The containers and the bridge that are there have the key of .env, which a run
\* that is past the stage of the key has, if it is not a dry one.
OneKey ==
    /\ stack.up => stack.key = env.key /\ env.key # 0
    /\ bridge.count > 0 => bridge.key = env.key /\ env.key # 0
    /\ On("compose") /\ ~Dry => env.key # 0

\* An iziBot.ex5 as new as the iziBot.mq5 of the repository was built from it,
\* because a compilation comes after a copy and an edit comes after both.
NewestBuilt ==
    /\ ea.at <= Now
    /\ ea.at >= ea.main => ea.built = ea.main
    /\ On("compile") /\ ~Dry => ea.copied = ea.main
    /\ On("idle") => launch = Idle

LauncherInv == LauncherKinds /\ OneKey /\ NewestBuilt /\ FreshHasMain

\* A stage ends in the next one or ends the run.
Moves(stages) == launch' = Idle \/ \E pc \in stages : launch' = [launch EXCEPT !.pc = pc]

LEMMA LaunchMoves ==
  ASSUME launch \in Launches, NEW stages \in SUBSET Stages, Moves(stages)
  PROVE  /\ launch' \in Launches
         /\ launch'.pc \in stages \union {"idle"}
         /\ launch' = Idle \/ (launch'.flags = launch.flags /\ launch'.said = launch.said)
         /\ launch'.said = "fresh" /\ "dry" \notin launch'.flags
              => launch.said = "fresh" /\ "dry" \notin launch.flags
<1>1. Idle \in Launches /\ Idle.pc = "idle" /\ Idle.said = "nothing"
  BY DEF Idle, Launches, Stages
<1>2. CASE launch' = Idle
  BY <1>1, <1>2
<1>3. ASSUME NEW pc \in stages, launch' = [launch EXCEPT !.pc = pc]
      PROVE  /\ launch' \in Launches /\ launch'.pc = pc
             /\ launch'.flags = launch.flags /\ launch'.said = launch.said
  BY <1>3 DEF Launches
<1>. QED BY <1>2, <1>3 DEF Moves

LEMMA LeftType ==
  ASSUME lnLeft \in [runs : 0..MaxRunsOfLauncher, mishaps : Nat], NoMishap \/ Mishap
  PROVE  lnLeft' \in [runs : 0..MaxRunsOfLauncher, mishaps : Nat]
BY DEF NoMishap, Mishap

\* Most stages leave the key, the containers and the EA alone; a terminal that is
\* killed takes the bridge along.
LEMMA StageKeeps ==
  ASSUME LauncherInv, NoMishap \/ Mishap, UNCHANGED <<env, stack, ea>>,
         bridge' = bridge \/ bridge' = NoBridge,
         Moves(Stages \ {"idle", "compose", "compile"})
  PROVE  LauncherInv'
<1>. USE DEF LauncherInv
<1>. DEFINE stages == Stages \ {"idle", "compose", "compile"}
<1>1. /\ launch' \in Launches
      /\ launch'.pc \in stages \union {"idle"}
      /\ launch' = Idle \/ (launch'.flags = launch.flags /\ launch'.said = launch.said)
      /\ launch'.said = "fresh" /\ "dry" \notin launch'.flags
           => launch.said = "fresh" /\ "dry" \notin launch.flags
  BY LaunchMoves, stages \in SUBSET Stages DEF LauncherKinds
<1>2. LauncherKinds'
  BY <1>1, LeftType DEF LauncherKinds, NoBridge
<1>3. launch'.pc \notin {"compose", "compile"}
  BY <1>1
<1>4. OneKey'
  BY <1>3 DEF OneKey, On, NoBridge
<1>5. launch'.pc = "idle" => launch' = Idle
  <2>. SUFFICES ASSUME launch'.pc = "idle", launch' # Idle PROVE FALSE
    OBVIOUS
  <2>1. PICK pc \in stages : launch' = [launch EXCEPT !.pc = pc]
    BY DEF Moves
  <2>. QED BY <2>1 DEF LauncherKinds, Launches
<1>6. NewestBuilt'
  BY <1>3, <1>5 DEF NewestBuilt, On, Now
<1>7. FreshHasMain'
  BY <1>1 DEF FreshHasMain, Dry, Given
<1>. QED BY <1>2, <1>4, <1>6, <1>7

\* The stages that do.
LEMMA QuietStages ==
  ASSUME LauncherInv,
         \/ StopAll \/ CheckPackages \/ DetectMt5 \/ StopForRestart \/ LaunchMt5 \/ StartAgain
         \/ SkipBridge \/ InstallPython \/ InstallPackage \/ StartRelay \/ Verify \/ Interrupt
  PROVE  LauncherInv'
<1>. DEFINE stages == Stages \ {"idle", "compose", "compile"}
<1>1. ASSUME NEW pc \in stages, Then(pc) PROVE Moves(stages)
  BY <1>1 DEF Then, Moves
<1>2. ASSUME End PROVE Moves(stages)
  BY <1>2 DEF End, Moves
<1>3. /\ {"down", "env", "prepare", "copy", "bridge", "started"} \subseteq stages
      /\ {"verify", "relay"} \subseteq stages
  BY DEF Stages
<1>. HIDE DEF stages
<1>4. StopMt5 => (NoMishap \/ Mishap) /\ (bridge' = bridge \/ bridge' = NoBridge)
  BY DEF StopMt5
<1>5. CASE StopAll
  BY <1>1, <1>3, <1>4, <1>5, StageKeeps DEF StopAll, stages
<1>6. CASE CheckPackages
  BY <1>1, <1>2, <1>3, <1>6, StageKeeps DEF CheckPackages, stages
<1>7. CASE DetectMt5
  BY <1>1, <1>2, <1>3, <1>7, StageKeeps DEF DetectMt5, stages
<1>8. CASE StopForRestart
  <2>1. Moves(stages)
    BY <1>1, <1>3, <1>8 DEF StopForRestart
  <2>2. (NoMishap \/ Mishap) /\ (bridge' = bridge \/ bridge' = NoBridge)
    BY <1>4, <1>8 DEF StopForRestart
  <2>. QED BY <1>8, <2>1, <2>2, StageKeeps DEF StopForRestart, stages
<1>9. CASE LaunchMt5
  <2>1. Moves(stages)
    BY <1>1, <1>3, <1>9 DEF LaunchMt5
  <2>2. (NoMishap \/ Mishap) /\ (bridge' = bridge \/ bridge' = NoBridge)
    BY <1>4, <1>9 DEF LaunchMt5
  <2>. QED BY <1>9, <2>1, <2>2, StageKeeps DEF LaunchMt5, stages
<1>10. CASE StartAgain
  BY <1>1, <1>3, <1>10, StageKeeps DEF StartAgain, stages
<1>11. CASE SkipBridge
  <2>1. Moves(stages)
    BY <1>1, <1>3, <1>11 DEF SkipBridge
  <2>. QED BY <1>11, <2>1, StageKeeps DEF SkipBridge, host, stages
<1>12. CASE InstallPython
  <2>1. Moves(stages) /\ (NoMishap \/ Mishap)
    BY <1>1, <1>3, <1>12 DEF InstallPython
  <2>. QED BY <1>12, <2>1, StageKeeps DEF InstallPython, host, stages
<1>13. CASE InstallPackage
  <2>1. Moves(stages) /\ (NoMishap \/ Mishap)
    BY <1>1, <1>3, <1>13 DEF InstallPackage
  <2>. QED BY <1>13, <2>1, StageKeeps DEF InstallPackage, host, stages
<1>14. CASE StartRelay
  BY <1>1, <1>3, <1>14, StageKeeps DEF StartRelay, stages
<1>15. CASE Verify \/ Interrupt
  BY <1>2, <1>15, StageKeeps DEF Verify, Interrupt, host, stages
<1>. QED BY <1>5, <1>6, <1>7, <1>8, <1>9, <1>10, <1>11, <1>12, <1>13, <1>14, <1>15

\* A stage that changes .env, the containers or the bridge, and not the EA.
LEMMA KeyStage ==
  ASSUME LauncherInv, NoMishap \/ Mishap, UNCHANGED ea, NEW pc \in Stages \ {"idle", "compile"},
         Then(pc) \/ End,
         env' \in [exists : BOOLEAN, key : Nat, tunnel : BOOLEAN],
         stack' \in [up : BOOLEAN, key : Nat, tunnel : BOOLEAN],
         bridge' \in [count : Nat, key : Nat],
         stack'.up => stack'.key = env'.key /\ env'.key # 0,
         bridge'.count > 0 => bridge'.key = env'.key /\ env'.key # 0,
         pc = "compose" => Dry \/ env'.key # 0
  PROVE  LauncherInv'
<1>. USE DEF LauncherInv
<1>1. Moves({pc})
  BY DEF Moves, Then, End
<1>2. /\ launch' \in Launches /\ launch'.pc \in {pc, "idle"}
      /\ launch' = Idle \/ (launch'.flags = launch.flags /\ launch'.said = launch.said)
      /\ launch'.said = "fresh" /\ "dry" \notin launch'.flags
           => launch.said = "fresh" /\ "dry" \notin launch.flags
  BY <1>1, LaunchMoves, {pc} \in SUBSET Stages DEF LauncherKinds
<1>3. LauncherKinds'
  BY <1>2, LeftType DEF LauncherKinds
<1>4. launch'.pc = "idle" => launch' = Idle
  BY DEF LauncherKinds, Launches, Then, End
<1>5. launch'.pc = "compose" => "dry" \in launch'.flags \/ env'.key # 0
  <2>1. CASE launch' = Idle
    BY <2>1 DEF Idle
  <2>2. CASE launch' # Idle
    BY <1>2, <1>4, <2>2 DEF Dry, Given
  <2>. QED BY <2>1, <2>2
<1>6. OneKey'
  BY <1>5 DEF OneKey, On, Dry, Given
<1>7. NewestBuilt'
  BY <1>2, <1>4 DEF NewestBuilt, On, Now
<1>8. FreshHasMain'
  BY <1>2 DEF FreshHasMain, Dry, Given
<1>. QED BY <1>3, <1>6, <1>7, <1>8

LEMMA KeyStages ==
  ASSUME LauncherInv,
         \/ ComposeDown \/ CopyEnv \/ GenerateKey \/ ComposeUp \/ NoTunnel \/ SyncEnv
         \/ StartTunnel \/ StartBridge
  PROVE  LauncherInv'
<1>. USE DEF LauncherInv
<1>0. {"key", "compose", "integrations", "detect", "tunnel", "relay"} \subseteq Stages \ {"idle", "compile"}
  BY DEF Stages
<1>1. CASE ComposeDown
  <2>1. /\ stack' \in [up : BOOLEAN, key : Nat, tunnel : BOOLEAN]
        /\ stack'.up => stack' = stack
    BY <1>1 DEF ComposeDown, LauncherKinds
  <2>. QED BY <1>0, <1>1, <2>1, KeyStage DEF ComposeDown, LauncherKinds, OneKey
<1>2. CASE CopyEnv
  <2>1. env' \in [exists : BOOLEAN, key : Nat, tunnel : BOOLEAN] /\ env'.key = env.key
    BY <1>2 DEF CopyEnv, LauncherKinds
  <2>. QED BY <1>0, <1>2, <2>1, KeyStage DEF CopyEnv, LauncherKinds, OneKey
<1>3. CASE GenerateKey
  <2>1. NextKey \in Nat /\ NextKey # 0
    BY LauncherAssumption DEF NextKey, LauncherKinds
  <2>2. /\ env' \in [exists : BOOLEAN, key : Nat, tunnel : BOOLEAN]
        /\ env.key # 0 => env'.key = env.key
        /\ Dry \/ env'.key # 0
    BY <1>3, <2>1 DEF GenerateKey, LauncherKinds
  <2>. QED BY <1>0, <1>3, <2>2, KeyStage DEF GenerateKey, LauncherKinds, OneKey
<1>4. CASE ComposeUp
  <2>1. /\ stack' \in [up : BOOLEAN, key : Nat, tunnel : BOOLEAN]
        /\ stack' = stack \/ (~Dry /\ stack'.key = env.key)
    BY <1>4 DEF ComposeUp, LauncherKinds
  <2>2. ~Dry => env.key # 0
    BY <1>4 DEF ComposeUp, OneKey
  <2>3. (NoMishap \/ Mishap) /\ (Then("integrations") \/ End) /\ UNCHANGED <<env, ea, bridge>>
    BY <1>4 DEF ComposeUp
  <2>. QED BY <1>0, <2>1, <2>2, <2>3, KeyStage DEF LauncherKinds, OneKey
<1>5. CASE NoTunnel
  <2>1. /\ stack' \in [up : BOOLEAN, key : Nat, tunnel : BOOLEAN]
        /\ stack'.up = stack.up /\ stack'.key = stack.key
    BY <1>5 DEF NoTunnel, LauncherKinds
  <2>. QED BY <1>0, <1>5, <2>1, KeyStage DEF NoTunnel, LauncherKinds, OneKey
<1>6. CASE SyncEnv
  <2>1. env' \in [exists : BOOLEAN, key : Nat, tunnel : BOOLEAN] /\ env'.key = env.key
    BY <1>6 DEF SyncEnv, LauncherKinds
  <2>2. (Then("detect") \/ Then("tunnel")) /\ NoMishap /\ UNCHANGED <<stack, ea, bridge>>
    BY <1>6 DEF SyncEnv
  <2>. QED BY <1>0, <2>1, <2>2, KeyStage DEF LauncherKinds, OneKey
<1>7. CASE StartTunnel
  <2>1. /\ stack' \in [up : BOOLEAN, key : Nat, tunnel : BOOLEAN]
        /\ stack'.key = env.key /\ (stack'.up => stack.up)
    BY <1>7 DEF StartTunnel, LauncherKinds
  <2>2. Then("detect") /\ (NoMishap \/ Mishap) /\ UNCHANGED <<env, ea, bridge>>
    BY <1>7 DEF StartTunnel
  <2>. QED BY <1>0, <2>1, <2>2, KeyStage DEF LauncherKinds, OneKey
<1>8. CASE StartBridge
  <2>1. /\ bridge' \in [count : Nat, key : Nat]
        /\ bridge' = bridge \/ (bridge'.key = env.key /\ env.key # 0)
    BY <1>8 DEF StartBridge, LauncherKinds
  <2>. QED BY <1>0, <1>8, <2>1, KeyStage DEF StartBridge, LauncherKinds, OneKey
<1>. QED BY <1>1, <1>2, <1>3, <1>4, <1>5, <1>6, <1>7, <1>8

\* The EA: a copy, a compilation, an edit of the owner's.
LEMMA CopySafe == ASSUME LauncherInv, CopySources PROVE LauncherInv'
<1>. USE DEF LauncherInv
<1>1. /\ \/ /\ launch' = [launch EXCEPT !.pc = "compile"]
            /\ ea' = (IF Dry THEN ea ELSE [ea EXCEPT !.copied = ea.main])
         \/ launch' = [launch EXCEPT !.pc = "start"] /\ ea' = ea
      /\ NoMishap /\ UNCHANGED <<env, stack, bridge>>
  BY DEF CopySources, Then
<1>2. /\ launch' \in Launches /\ launch'.pc \in {"compile", "start"}
      /\ launch'.flags = launch.flags /\ launch'.said = launch.said
  BY <1>1 DEF LauncherKinds, Launches, Stages
<1>3. /\ ea' \in [main : Nat, include : Nat, copied : Nat, built : Nat, at : Nat]
      /\ ea'.main = ea.main /\ ea'.include = ea.include /\ ea'.built = ea.built /\ ea'.at = ea.at
      /\ ea' = ea \/ ~Dry
      /\ ~Dry /\ launch'.pc = "compile" => ea'.copied = ea.main
  BY <1>1, <1>2 DEF LauncherKinds, Launches
<1>4. LauncherKinds'
  BY <1>1, <1>2, <1>3, LeftType DEF LauncherKinds
<1>5. OneKey'
  BY <1>1, <1>2 DEF OneKey, On
<1>6. NewestBuilt' /\ FreshHasMain'
  BY <1>2, <1>3 DEF NewestBuilt, FreshHasMain, On, Dry, Given, Now
<1>. QED BY <1>4, <1>5, <1>6

LEMMA CompileSafe == ASSUME LauncherInv, Compile PROVE LauncherInv'
<1>. USE DEF LauncherInv
<1>. DEFINE built == [ea EXCEPT !.built = ea.copied, !.at = Now]
<1>1. /\ UNCHANGED <<env, stack, bridge>> /\ (NoMishap \/ Mishap) /\ On("compile")
      /\ launch'.pc = "start" /\ launch'.flags = launch.flags /\ launch' \in Launches
      /\ ea' = ea \/ (ea' = built /\ ~Dry)
      /\ \/ launch'.said = launch.said /\ ea' = ea
         \/ Dry
         \/ launch'.said = Verdict(ea') /\ ~Dry
  <2>1. \A st \in {"fresh", "stale"} :
           /\ [launch EXCEPT !.pc = "start", !.said = st] \in Launches
           /\ [launch EXCEPT !.pc = "start", !.said = st].pc = "start"
           /\ [launch EXCEPT !.pc = "start", !.said = st].flags = launch.flags
           /\ [launch EXCEPT !.pc = "start", !.said = st].said = st
    <3>1. launch \in Launches
      BY DEF LauncherKinds
    <3>. QED BY <3>1 DEF Launches, Stages
  <2>2. /\ [launch EXCEPT !.pc = "start"] \in Launches
        /\ [launch EXCEPT !.pc = "start"].pc = "start"
        /\ [launch EXCEPT !.pc = "start"].flags = launch.flags
        /\ [launch EXCEPT !.pc = "start"].said = launch.said
    <3>1. launch \in Launches
      BY DEF LauncherKinds
    <3>. QED BY <3>1 DEF Launches, Stages
  <2>3. \A e : Verdict(e) \in {"fresh", "stale"}
    BY DEF Verdict
  <2>4. UNCHANGED <<env, stack, bridge>> /\ (NoMishap \/ Mishap) /\ On("compile")
    BY DEF Compile
  <2>5. \/ /\ ~Dry /\ ea' = built
           /\ launch' = [launch EXCEPT !.pc = "start", !.said = Verdict(built)]
        \/ /\ ~Dry /\ ea' = ea
           /\ launch' = [launch EXCEPT !.pc = "start", !.said = Verdict(ea)]
        \/ /\ Dry /\ ea' = ea
           /\ launch' = [launch EXCEPT !.pc = "start", !.said = "fresh"]
        \/ /\ ea' = ea
           /\ launch' = [launch EXCEPT !.pc = "start"]
    BY DEF Compile, Then
  <2>. HIDE DEF built
  <2>. QED BY <2>1, <2>2, <2>3, <2>4, <2>5
<1>2. Now \in Nat
  BY DEF Now, LauncherKinds
<1>3. /\ ea' \in [main : Nat, include : Nat, copied : Nat, built : Nat, at : Nat]
      /\ ea'.main = ea.main /\ ea'.include = ea.include /\ ea'.copied = ea.copied
      /\ \/ ea'.at = ea.at /\ ea'.built = ea.built
         \/ ea'.at = Now /\ ea'.built = ea.copied /\ ~Dry
  <2>1. ea \in [main : Nat, include : Nat, copied : Nat, built : Nat, at : Nat]
    BY DEF LauncherKinds
  <2>2. /\ built \in [main : Nat, include : Nat, copied : Nat, built : Nat, at : Nat]
        /\ built.main = ea.main /\ built.include = ea.include /\ built.copied = ea.copied
        /\ built.at = Now /\ built.built = ea.copied
    BY <1>2, <2>1
  <2>. HIDE DEF built
  <2>. QED BY <1>1, <2>1, <2>2
<1>. HIDE DEF built
<1>4. ~Dry => ea.copied = ea.main
  BY <1>1 DEF NewestBuilt
<1>5. LauncherKinds'
  BY <1>1, <1>3, LeftType DEF LauncherKinds
<1>6. OneKey'
  BY <1>1 DEF OneKey, On
<1>7. Now' = Now /\ (ea'.at >= ea'.main => ea'.built = ea'.main) /\ ea'.at <= Now
  BY <1>2, <1>3, <1>4 DEF NewestBuilt, Now, LauncherKinds
<1>8. NewestBuilt'
  BY <1>1, <1>7 DEF NewestBuilt, On
<1>9. FreshHasMain'
  <2>. SUFFICES ASSUME launch'.said = "fresh", ~Dry PROVE ea'.built = ea'.main
    BY <1>1 DEF FreshHasMain, Dry, Given
  <2>1. CASE launch'.said = launch.said /\ ea' = ea
    BY <2>1 DEF FreshHasMain
  <2>2. CASE launch'.said = Verdict(ea')
    BY <1>3, <1>4, <1>7, <2>2 DEF Verdict
  <2>. QED BY <1>1, <2>1, <2>2
<1>. QED BY <1>5, <1>6, <1>8, <1>9

LEMMA OwnerSafe == ASSUME LauncherInv, OwnerOrHost PROVE LauncherInv'
<1>. USE DEF LauncherInv
<1>1. On("idle") /\ Mishap /\ UNCHANGED <<env, launch>> /\ launch = Idle
  BY DEF OwnerOrHost, NewestBuilt
<1>2. UNCHANGED stack /\ (bridge' = bridge \/ bridge' = NoBridge)
  BY DEF OwnerOrHost
<1>3. \/ ea' = ea
      \/ ea' = [ea EXCEPT !.main = Now + 1] \/ ea' = [ea EXCEPT !.include = Now + 1]
  BY DEF OwnerOrHost
<1>4. Now \in Nat /\ ea.main <= Now
  BY DEF Now, LauncherKinds
<1>5. /\ ea' \in [main : Nat, include : Nat, copied : Nat, built : Nat, at : Nat]
      /\ ea'.at = ea.at /\ ea'.built = ea.built /\ ea'.main \in {ea.main, Now + 1}
      /\ ea'.at <= Now'
  BY <1>3, <1>4 DEF LauncherKinds, NewestBuilt, Now
<1>6. LauncherKinds'
  BY <1>1, <1>2, <1>5, LeftType DEF LauncherKinds, NoBridge
<1>7. OneKey'
  BY <1>1, <1>2 DEF OneKey, NoBridge, On
<1>8. NewestBuilt' /\ FreshHasMain'
  BY <1>1, <1>4, <1>5 DEF NewestBuilt, FreshHasMain, On, Idle, LauncherKinds, Dry, Given
<1>. QED BY <1>6, <1>7, <1>8

LEMMA RunSafe == ASSUME LauncherInv, NEW flags \in FlagSets, Run(flags) PROVE LauncherInv'
<1>. USE DEF LauncherInv
<1>1. /\ lnLeft' = [lnLeft EXCEPT !.runs = @ - 1] /\ lnLeft.runs > 0
      /\ launch' = [pc |-> IF "stop" \in flags THEN "stop" ELSE "packages",
                    flags |-> flags, said |-> "nothing"]
      /\ UNCHANGED <<env, stack, bridge, ea>>
  BY DEF Run, host
<1>2. launch' \in Launches /\ launch'.pc \in {"stop", "packages"} /\ launch'.said = "nothing"
  BY <1>1, LauncherAssumption DEF Launches, Stages, LauncherFlags
<1>3. lnLeft' \in [runs : 0..MaxRunsOfLauncher, mishaps : Nat]
  BY <1>1, LauncherAssumption DEF LauncherKinds
<1>4. LauncherKinds'
  BY <1>1, <1>2, <1>3 DEF LauncherKinds
<1>. QED BY <1>1, <1>2, <1>4 DEF OneKey, NewestBuilt, FreshHasMain, On, Now

LEMMA LauncherStart == ASSUME LauncherInit PROVE LauncherInv
<1>1. LauncherKinds
  BY LauncherAssumption DEF LauncherInit, LauncherKinds, NoBridge, Idle, Launches, Stages
<1>. QED
  BY <1>1 DEF LauncherInit, LauncherInv, OneKey, NewestBuilt, FreshHasMain, NoBridge, On, Idle, Now

LEMMA LauncherMoves == ASSUME LauncherInv, [LauncherNext]_launcherVars PROVE LauncherInv'
<1>1. CASE UNCHANGED launcherVars
  BY <1>1 DEF launcherVars, LauncherInv, LauncherKinds, OneKey, NewestBuilt, FreshHasMain, On, Dry,
              Given, Now
<1>. QED
  BY <1>1, QuietStages, KeyStages, CopySafe, CompileSafe, OwnerSafe, RunSafe
     DEF LauncherNext, LauncherStep

\* A bridge that runs has the key of the containers, and a launcher that calls
\* iziBot.ex5 fresh has the newest iziBot.mq5 in it, wherever earlier runs stopped
\* (ensure_env, ensure_bridge, compile_ea and verify_ea in launch.py).
THEOREM LauncherTellsTruth == LauncherSpec => []RunsWhatItSays
<1>1. LauncherInv => RunsWhatItSays
  BY DEF LauncherInv, RunsWhatItSays, KeysAgree, OneKey
<1>. QED BY <1>1, LauncherStart, LauncherMoves, PTL DEF LauncherSpec

-----------------------------------------------------------------------------
(* Agent: the slots of the grading jobs.                                   *)

\* The newest bars are bars.
MarketKinds == /\ newestBar \in [Series -> Nat]
               /\ \A s \in Series : newestBar[s] \in 1..LastBar[s]

LEMMA MarketMove == MarketKinds /\ [AgentNext]_agentVars => MarketKinds'
<1>. SUFFICES ASSUME MarketKinds, [AgentNext]_agentVars PROVE MarketKinds'
  OBVIOUS
<1>1. CASE UNCHANGED newestBar
  BY <1>1 DEF MarketKinds
<1>2. ASSUME NEW s \in Series, NextBar(s) PROVE MarketKinds'
  <2>1. /\ newestBar[s] < LastBar[s] /\ newestBar' = [newestBar EXCEPT ![s] = @ + 1]
        /\ LastBar[s] \in Nat /\ newestBar[s] \in 1..LastBar[s]
    BY <1>2, AgentAssumption DEF NextBar, MarketKinds
  <2>. QED BY <2>1 DEF MarketKinds
<1>3. UNCHANGED newestBar \/ \E s \in Series : NextBar(s)
  BY DEF AgentNext, AnalyzeStep, AnalyzeLookup, AnalyzeFromTable, AnalyzeClaim, AnalyzeSchedule,
       ScheduleFails, FactsFail, JobStep, JobStore, JobLost, JobFailed, JobAnswered, AuditDone,
       AuditFails, SupervisorStep, SuperviseAsk, SuperviseNothing, SuperviseOff, SuperviseFailed,
       SuperviseStore, ReflectAsk, ReflectStore, WorldStep, OwnerTogglesAi, CommandChanges,
       AgentTick, AgentRestart, agentVars, outside
<1>. QED BY <1>1, <1>2, <1>3

LEMMA MarketStart == AgentInit => MarketKinds
BY AgentAssumption DEF AgentInit, MarketKinds

\* The requests and who holds which slot.
SlotsInv ==
    /\ inflight \in SUBSET Bars /\ IsFiniteSet(inflight)
    /\ jobs \in [Bars -> Nat]
    /\ DOMAIN requests = Threads
    /\ \A t \in Threads : \/ requests[t] = NoRequest
                          \/ /\ requests[t].pc \in {"looked", "claimed"}
                             /\ requests[t].bar \in Bars
    /\ SlotsMatchJobs

\* A bar without a request is no bar of the market.
LEMMA RequestHasBar ==
  ASSUME SlotsInv, NEW t \in Threads, NEW pc \in {"looked", "claimed"}, In(t, pc)
  PROVE  requests[t].bar \in Bars
  BY DEF SlotsInv, In, NoRequest

\* A request that moves on without a claim gives up the claim it had, and no other.
LEMMA ClaimGoes ==
  ASSUME SlotsInv, NEW t \in Threads, NEW r, requests' = [requests EXCEPT ![t] = r],
         r = NoRequest \/ (r.pc = "looked" /\ r.bar \in Bars)
  PROVE  /\ DOMAIN requests' = Threads
         /\ \A u \in Threads : \/ requests'[u] = NoRequest
                               \/ /\ requests'[u].pc \in {"looked", "claimed"}
                                  /\ requests'[u].bar \in Bars
         /\ Claimed' = IF In(t, "claimed") THEN Claimed \ {requests[t].bar} ELSE Claimed
         /\ (\A u, v \in Threads : In(u, "claimed") /\ In(v, "claimed")
                                   /\ requests[u].bar = requests[v].bar => u = v)'
<1>1. r.pc # "claimed"
  BY DEF NoRequest
<1>2. /\ DOMAIN requests = Threads /\ DOMAIN requests' = Threads
      /\ requests'[t] = r /\ \A u \in Threads \ {t} : requests'[u] = requests[u]
  BY DEF SlotsInv
<1>3. \A u \in Threads : \/ requests'[u] = NoRequest
                         \/ /\ requests'[u].pc \in {"looked", "claimed"}
                            /\ requests'[u].bar \in Bars
  BY <1>2 DEF SlotsInv
<1>4. \A u, v \in Threads : requests[u].pc = "claimed" /\ requests[v].pc = "claimed"
                            /\ requests[u].bar = requests[v].bar => u = v
  BY DEF SlotsInv, SlotsMatchJobs, In
<1>5. \A u, v \in Threads : requests'[u].pc = "claimed" /\ requests'[v].pc = "claimed"
                            /\ requests'[u].bar = requests'[v].bar => u = v
  BY <1>1, <1>2, <1>4
<1>6. Claimed' = IF In(t, "claimed") THEN Claimed \ {requests[t].bar} ELSE Claimed
  <2>1. ASSUME NEW b \in Bars
        PROVE  b \in Claimed' <=> b \in Claimed /\ ~(In(t, "claimed") /\ requests[t].bar = b)
    BY <1>1, <1>2, <1>4 DEF Claimed, In
  <2>2. Claimed \subseteq Bars /\ Claimed' \subseteq Bars
    BY DEF Claimed
  <2>. QED BY <2>1, <2>2
<1>. QED BY <1>2, <1>3, <1>5, <1>6 DEF In

\* A slot is claimed only when no other holds it.
LEMMA ClaimSafe ==
  ASSUME SlotsInv, NEW t \in Threads, NEW b \in Bars, In(t, "looked"), SlotFree(b),
         inflight' = inflight \union {b}, Asks(t, "claimed", b, 0), UNCHANGED <<jobs, leaked>>
  PROVE  SlotsInv'
<1>1. b \notin inflight /\ Cardinality(inflight) < MaxInFlight
  BY DEF SlotFree
<1>2. /\ IsFiniteSet(inflight') /\ Cardinality(inflight') = Cardinality(inflight) + 1
      /\ Cardinality(inflight) \in Nat
  BY <1>1, FS_AddElement, FS_CardinalityType DEF SlotsInv
<1>3. Cardinality(inflight') <= MaxInFlight
  BY <1>1, <1>2 DEF MaxInFlight
<1>. DEFINE r == [pc |-> "claimed", bar |-> b, row |-> 0]
<1>4. /\ DOMAIN requests' = Threads
      /\ requests'[t].pc = "claimed" /\ requests'[t].bar = b
      /\ \A u \in Threads \ {t} : requests'[u] = requests[u]
  BY DEF SlotsInv, Asks
<1>5. \A u \in Threads : \/ requests'[u] = NoRequest
                         \/ /\ requests'[u].pc \in {"looked", "claimed"}
                            /\ requests'[u].bar \in Bars
  BY <1>4 DEF SlotsInv
<1>6. b \notin Working /\ b \notin Claimed /\ b \notin leaked
  BY <1>1 DEF SlotsInv, SlotsMatchJobs
<1>7. Claimed' = Claimed \union {b}
  <2>1. ASSUME NEW c \in Bars PROVE c \in Claimed' <=> c \in Claimed \/ c = b
    BY <1>4 DEF Claimed, In
  <2>2. Claimed \subseteq Bars /\ Claimed' \subseteq Bars
    BY DEF Claimed
  <2>. QED BY <2>1, <2>2
<1>8. (\A u, v \in Threads : In(u, "claimed") /\ In(v, "claimed")
                             /\ requests[u].bar = requests[v].bar => u = v)'
  <2>1. \A u \in Threads \ {t} : requests[u].pc = "claimed" => requests[u].bar # b
    BY <1>6 DEF Claimed, In
  <2>2. \A u, v \in Threads : requests[u].pc = "claimed" /\ requests[v].pc = "claimed"
                              /\ requests[u].bar = requests[v].bar => u = v
    BY DEF SlotsInv, SlotsMatchJobs, In
  <2>. QED BY <1>4, <2>1, <2>2 DEF In
<1>9. Working' = Working
  BY DEF Working
<1>10. SlotsMatchJobs'
  BY <1>3, <1>6, <1>7, <1>8, <1>9 DEF SlotsInv, SlotsMatchJobs
<1>. QED BY <1>2, <1>4, <1>5, <1>10 DEF SlotsInv

\* A claim ends: its slot goes to a job, is given back, or is lost.
LEMMA ClaimEnds ==
  ASSUME SlotsInv, NEW t \in Threads, In(t, "claimed"), Answered(t), NEW b, b = requests[t].bar,
         \/ jobs' = [jobs EXCEPT ![b] = @ + 1] /\ UNCHANGED <<inflight, leaked>>
         \/ inflight' = inflight \ {b} /\ UNCHANGED <<jobs, leaked>>
         \/ leaked' = leaked \union {b} /\ UNCHANGED <<inflight, jobs>>
  PROVE  SlotsInv'
<1>1. b \in Bars /\ b \in Claimed /\ b \in inflight /\ b \notin Working /\ b \notin leaked
  <2>1. b \in Bars
    BY RequestHasBar
  <2>2. b \in Claimed
    BY <2>1 DEF Claimed
  <2>. QED BY <2>1, <2>2 DEF SlotsInv, SlotsMatchJobs
<1>2. /\ DOMAIN requests' = Threads
      /\ \A u \in Threads : \/ requests'[u] = NoRequest
                            \/ /\ requests'[u].pc \in {"looked", "claimed"}
                               /\ requests'[u].bar \in Bars
      /\ Claimed' = Claimed \ {b}
      /\ (\A u, v \in Threads : In(u, "claimed") /\ In(v, "claimed")
                                /\ requests[u].bar = requests[v].bar => u = v)'
  BY ClaimGoes DEF Answered
<1>3. jobs[b] = 0
  BY <1>1 DEF Working, SlotsInv
<1>4. CASE jobs' = [jobs EXCEPT ![b] = @ + 1] /\ UNCHANGED <<inflight, leaked>>
  <2>1. /\ jobs' \in [Bars -> Nat] /\ jobs'[b] = 1
        /\ \A c \in Bars \ {b} : jobs'[c] = jobs[c]
    BY <1>1, <1>3, <1>4 DEF SlotsInv
  <2>2. Working' = Working \union {b}
    <3>1. ASSUME NEW c \in Bars PROVE c \in Working' <=> c \in Working \/ c = b
      BY <2>1 DEF Working
    <3>2. Working \subseteq Bars /\ Working' \subseteq Bars
      BY DEF Working
    <3>. QED BY <1>1, <3>1, <3>2
  <2>3. \A c \in Bars : jobs'[c] <= 1
    BY <2>1 DEF SlotsInv, SlotsMatchJobs
  <2>4. SlotsMatchJobs'
    BY <1>1, <1>2, <1>4, <2>2, <2>3 DEF SlotsInv, SlotsMatchJobs
  <2>. QED BY <1>2, <1>4, <2>1, <2>4 DEF SlotsInv
<1>5. CASE inflight' = inflight \ {b} /\ UNCHANGED <<jobs, leaked>>
  <2>1. /\ IsFiniteSet(inflight') /\ Cardinality(inflight') = Cardinality(inflight) - 1
        /\ Cardinality(inflight) \in Nat
    BY <1>1, <1>5, FS_RemoveElement, FS_CardinalityType DEF SlotsInv
  <2>2. Cardinality(inflight') <= MaxInFlight
    BY <2>1 DEF SlotsInv, SlotsMatchJobs, MaxInFlight
  <2>3. Working' = Working
    BY <1>5 DEF Working
  <2>4. SlotsMatchJobs'
    BY <1>1, <1>2, <1>5, <2>2, <2>3 DEF SlotsInv, SlotsMatchJobs
  <2>. QED BY <1>2, <1>5, <2>1, <2>4 DEF SlotsInv
<1>6. CASE leaked' = leaked \union {b} /\ UNCHANGED <<inflight, jobs>>
  <2>1. Working' = Working
    BY <1>6 DEF Working
  <2>2. SlotsMatchJobs'
    BY <1>1, <1>2, <1>6, <2>1 DEF SlotsInv, SlotsMatchJobs
  <2>. QED BY <1>2, <1>6, <2>2 DEF SlotsInv
<1>. QED BY <1>4, <1>5, <1>6

\* The slot a job gives back is its own.
LEMMA ReleaseSafe ==
  ASSUME SlotsInv, NEW b \in Bars, jobs[b] > 0, ReleaseSlot(b), UNCHANGED <<requests, leaked>>
  PROVE  SlotsInv'
<1>1. jobs' = [jobs EXCEPT ![b] = @ - 1] /\ inflight' = inflight \ {b}
  BY DEF ReleaseSlot
<1>2. b \in Working /\ b \in inflight /\ jobs[b] = 1
  BY DEF SlotsInv, SlotsMatchJobs, Working
<1>3. /\ IsFiniteSet(inflight') /\ Cardinality(inflight') = Cardinality(inflight) - 1
      /\ Cardinality(inflight) \in Nat
  BY <1>1, <1>2, FS_RemoveElement, FS_CardinalityType DEF SlotsInv
<1>4. Cardinality(inflight') <= MaxInFlight
  BY <1>3 DEF SlotsInv, SlotsMatchJobs, MaxInFlight
<1>5. jobs' \in [Bars -> Nat] /\ jobs'[b] = 0 /\ \A c \in Bars \ {b} : jobs'[c] = jobs[c]
  BY <1>1, <1>2 DEF SlotsInv
<1>6. Working' = Working \ {b}
  <2>1. ASSUME NEW c \in Bars PROVE c \in Working' <=> c \in Working /\ c # b
    BY <1>5 DEF Working
  <2>2. Working \subseteq Bars /\ Working' \subseteq Bars
    BY DEF Working
  <2>. QED BY <2>1, <2>2
<1>7. Claimed' = Claimed
  BY DEF Claimed, In
<1>8. \A c \in Bars : jobs'[c] <= 1
  BY <1>5 DEF SlotsInv, SlotsMatchJobs
<1>9. SlotsMatchJobs'
  BY <1>1, <1>2, <1>4, <1>6, <1>7, <1>8 DEF SlotsInv, SlotsMatchJobs, In
<1>. QED BY <1>1, <1>3, <1>5, <1>9 DEF SlotsInv

LEMMA SlotsStay ==
  ASSUME SlotsInv, UNCHANGED <<slots, requests>> PROVE SlotsInv'
BY DEF slots, SlotsInv, SlotsMatchJobs, Working, Claimed, In

LEMMA AnalyzeSafe == ASSUME SlotsInv, MarketKinds, AnalyzeStep PROVE SlotsInv'
<1>1. PICK t \in Threads : \/ \E s \in Series : AnalyzeLookup(t, s)
                           \/ AnalyzeFromTable(t) \/ AnalyzeClaim(t) \/ AnalyzeSchedule(t)
                           \/ ScheduleFails(t) \/ FactsFail(t)
  BY DEF AnalyzeStep
<1>2. ASSUME UNCHANGED slots, ~In(t, "claimed"), NEW r, requests' = [requests EXCEPT ![t] = r],
             r = NoRequest \/ (r.pc = "looked" /\ r.bar \in Bars)
      PROVE  SlotsInv'
  <2>1. /\ DOMAIN requests' = Threads
        /\ \A u \in Threads : \/ requests'[u] = NoRequest
                              \/ /\ requests'[u].pc \in {"looked", "claimed"}
                                 /\ requests'[u].bar \in Bars
        /\ Claimed' = Claimed
        /\ (\A u, v \in Threads : In(u, "claimed") /\ In(v, "claimed")
                                  /\ requests[u].bar = requests[v].bar => u = v)'
    BY <1>2, ClaimGoes
  <2>2. Working' = Working /\ UNCHANGED <<inflight, jobs, leaked>>
    BY <1>2 DEF Working, slots
  <2>. QED BY <2>1, <2>2 DEF SlotsInv, SlotsMatchJobs
<1>3. CASE AnalyzeFromTable(t)
  <2>1. /\ requests' = [requests EXCEPT ![t] = NoRequest] /\ UNCHANGED slots
        /\ ~In(t, "claimed")
    BY <1>3 DEF AnalyzeFromTable, Answered, In
  <2>. QED BY <2>1, <1>2
<1>4. CASE AnalyzeClaim(t)
  <2>1. requests[t].bar \in Bars
    BY <1>4, RequestHasBar DEF AnalyzeClaim
  <2>2. CASE MayStart(requests[t].bar) /\ inflight' = inflight \union {requests[t].bar}
             /\ Asks(t, "claimed", requests[t].bar, 0)
    <3>1. In(t, "looked") /\ SlotFree(requests[t].bar) /\ UNCHANGED <<jobs, leaked>>
      BY <1>4, <2>2 DEF AnalyzeClaim, MayStart
    <3>. QED BY <2>1, <2>2, <3>1, ClaimSafe
  <2>3. CASE Answered(t) /\ UNCHANGED inflight
    <3>1. /\ requests' = [requests EXCEPT ![t] = NoRequest] /\ UNCHANGED slots
          /\ ~In(t, "claimed")
      BY <1>4, <2>3 DEF AnalyzeClaim, Answered, In, slots
    <3>. QED BY <3>1, <1>2
  <2>. QED BY <1>4, <2>2, <2>3 DEF AnalyzeClaim
<1>5. CASE AnalyzeSchedule(t) \/ ScheduleFails(t) \/ FactsFail(t)
  <2>1. PICK b : b = requests[t].bar
    OBVIOUS
  <2>2. /\ In(t, "claimed") /\ Answered(t)
        /\ \/ jobs' = [jobs EXCEPT ![b] = @ + 1] /\ UNCHANGED <<inflight, leaked>>
           \/ inflight' = inflight \ {b} /\ UNCHANGED <<jobs, leaked>>
           \/ leaked' = leaked \union {b} /\ UNCHANGED <<inflight, jobs>>
    BY <1>5, <2>1 DEF AnalyzeSchedule, ScheduleFails, FactsFail
  <2>. QED BY <2>1, <2>2, ClaimEnds
<1>6. ASSUME NEW s \in Series, AnalyzeLookup(t, s) PROVE SlotsInv'
  <2>1. UNCHANGED slots /\ ThreadFree(t)
    BY <1>6 DEF AnalyzeLookup
  <2>2. UNCHANGED requests \/ Asks(t, "looked", <<s, newestBar[s]>>, LatestGrade(<<s, newestBar[s]>>))
    BY <1>6 DEF AnalyzeLookup
  <2>3. CASE UNCHANGED requests
    BY <2>1, <2>3, SlotsStay
  <2>4. CASE Asks(t, "looked", <<s, newestBar[s]>>, LatestGrade(<<s, newestBar[s]>>))
    <3>1. PICK b : b = <<s, newestBar[s]>>
      OBVIOUS
    <3>2. PICK r : /\ r.pc = "looked" /\ r.bar = b
                   /\ requests' = [requests EXCEPT ![t] = r]
      BY <2>4, <3>1 DEF Asks
    <3>3. b \in Bars
      BY <3>1 DEF MarketKinds, Bars
    <3>4. ~In(t, "claimed")
      BY <2>1 DEF ThreadFree, In, NoRequest
    <3>. QED BY <1>2, <2>1, <3>2, <3>3, <3>4
  <2>. QED BY <2>2, <2>3, <2>4
<1>. QED BY <1>1, <1>3, <1>4, <1>5, <1>6

\* Only a job that ends and a restart touch the slots otherwise.
LEMMA SlotsMove == ASSUME SlotsInv, MarketKinds, [AgentNext]_agentVars PROVE SlotsInv'
<1>1. CASE UNCHANGED <<slots, requests>>
  BY <1>1, SlotsStay
<1>2. CASE AnalyzeStep
  BY <1>2, AnalyzeSafe
<1>3. CASE JobStep
  <2>1. CASE JobStore \/ JobLost \/ AuditDone \/ AuditFails
    BY <1>1, <2>1 DEF JobStore, JobLost, AuditDone, AuditFails
  <2>2. ASSUME NEW b \in Bars, JobFailed(b) PROVE SlotsInv'
    BY <2>2, ReleaseSafe DEF JobFailed
  <2>3. ASSUME NEW b \in Bars, NEW r \in Answers, JobAnswered(b, r[1], r[2]) PROVE SlotsInv'
    BY <2>3, ReleaseSafe DEF JobAnswered
  <2>. QED BY <1>3, <2>1, <2>2, <2>3 DEF JobStep
<1>4. CASE AgentRestart
  <2>1. /\ inflight' = {} /\ leaked' = {} /\ jobs' = [b \in Bars |-> 0]
        /\ requests' = [t \in Threads |-> NoRequest]
    BY <1>4 DEF AgentRestart
  <2>2. IsFiniteSet(inflight') /\ Cardinality(inflight') = 0
    BY <2>1, FS_EmptySet
  <2>3. Working' = {} /\ Claimed' = {}
    BY <2>1 DEF Working, Claimed, In, NoRequest
  <2>4. SlotsMatchJobs'
    BY <2>1, <2>2, <2>3 DEF SlotsMatchJobs, MaxInFlight, In, NoRequest
  <2>. QED BY <2>1, <2>2, <2>4 DEF SlotsInv
<1>5. CASE SupervisorStep
  BY <1>1, <1>5
     DEF SupervisorStep, SuperviseAsk, SuperviseNothing, SuperviseOff, SuperviseFailed,
         SuperviseStore, ReflectAsk, ReflectStore, agentVars, slots
<1>6. CASE OwnerTogglesAi \/ CommandChanges \/ AgentTick \/ \E s \in Series : NextBar(s)
  BY <1>1, <1>6 DEF OwnerTogglesAi, CommandChanges, NextBar, AgentTick
<1>7. CASE UNCHANGED agentVars
  BY <1>1, <1>7 DEF agentVars, slots
<1>. QED BY <1>2, <1>3, <1>4, <1>5, <1>6, <1>7 DEF AgentNext, WorldStep

LEMMA SlotsStart == AgentInit => SlotsInv
<1>. SUFFICES ASSUME AgentInit PROVE SlotsInv
  OBVIOUS
<1>1. /\ inflight = {} /\ leaked = {} /\ jobs = [b \in Bars |-> 0]
      /\ requests = [t \in Threads |-> NoRequest]
  BY DEF AgentInit
<1>2. IsFiniteSet(inflight) /\ Cardinality(inflight) = 0
  BY <1>1, FS_EmptySet
<1>3. Working = {} /\ Claimed = {}
  BY <1>1 DEF Working, Claimed, In, NoRequest
<1>4. SlotsMatchJobs
  BY <1>1, <1>2, <1>3 DEF SlotsMatchJobs, MaxInFlight, In, NoRequest
<1>. QED BY <1>1, <1>2, <1>4 DEF SlotsInv

\* A slot is held by one running grading job of its bar or by one request that is about
\* to start it, at most two are held, and none is lost but with a request that failed
\* over the facts, on every path through a request and a job and across restarts
\* (schedule_grade and the finally block of agent_grade_job, in agent_supervisor.py).
THEOREM SlotsHeld == AgentSpec => []SlotsMatchJobs
<1>1. AgentInit => SlotsInv /\ MarketKinds
  BY SlotsStart, MarketStart
<1>2. (SlotsInv /\ MarketKinds) /\ [AgentNext]_agentVars => (SlotsInv /\ MarketKinds)'
  BY SlotsMove, MarketMove
<1>3. SlotsInv /\ MarketKinds => SlotsMatchJobs
  BY DEF SlotsInv
<1>. QED BY <1>1, <1>2, <1>3, PTL DEF AgentSpec

-----------------------------------------------------------------------------
(* Admissions                                                              *)

CredEntries == [channel : Channels \union {0}, left : 0..CredTtl]
MemberEntries == [allowed : BOOLEAN, left : 0..MemberTtl]
CheckStates == [pc : {"idle", "keep", "ask", "store"}, channel : Channels \union {0},
                allowed : BOOLEAN, left : Nat]

ViewersKinds ==
    /\ linkedChannel \in Channels \union {0} /\ memberOf \subseteq Channels
    /\ credCache \in CredEntries
    /\ memberCache \in [Channels -> MemberEntries]
    /\ checks \in [Checks -> CheckStates]
    /\ sinceLinked \in [Channels -> 0..Never] /\ sinceMember \in [Channels -> 0..Never]
    /\ admissions \subseteq Channels

\* What is cached, or on its way to be, was true when its time began to run.
LinkIsRecent ==
    /\ linkedChannel \in Channels => sinceLinked[linkedChannel] = 0
    /\ credCache.channel \in Channels /\ credCache.left > 0
         => sinceLinked[credCache.channel] + credCache.left <= CredTtl
GrantIsRecent(c, g) == g.allowed /\ g.left > 0 => sinceMember[c] + g.left <= MemberTtl
MemberIsRecent ==
    /\ \A c \in memberOf : sinceMember[c] = 0
    /\ \A c \in Channels : GrantIsRecent(c, memberCache[c])
CheckIsRecent(k) ==
    /\ k.pc = "keep" => /\ k.left <= CredTtl
                        /\ k.channel \in Channels => sinceLinked[k.channel] + k.left <= CredTtl
    /\ k.pc \in {"ask", "store"} =>
          /\ k.channel \in Channels /\ k.left <= MemberTtl /\ k.left + 1 >= MemberTtl
          /\ sinceLinked[k.channel] + k.left <= CredTtl + MemberTtl
          /\ k.allowed => k.pc = "store" /\ sinceMember[k.channel] + k.left <= MemberTtl
ChecksAreRecent == \A t \in Checks : CheckIsRecent(checks[t])

ViewersInv ==
    ViewersKinds /\ LinkIsRecent /\ MemberIsRecent /\ ChecksAreRecent /\ AdmissionIsRecent

LEMMA ViewersStart == ASSUME ViewersInit PROVE ViewersInv
<1>. USE DEF ViewersInit
<1>0. CredTtl \in Nat /\ MemberTtl \in Nat /\ Never \in Nat /\ 0 \notin Channels
  BY ViewersAssumption DEF Never
<1>1. /\ credCache \in CredEntries
      /\ memberCache \in [Channels -> MemberEntries] /\ checks \in [Checks -> CheckStates]
  BY <1>0 DEF CredEntries, MemberEntries, CheckStates, Absent, NoCheck
<1>2. ViewersKinds
  BY <1>0, <1>1 DEF ViewersKinds
<1>. QED
  BY <1>0, <1>2 DEF ViewersInv, LinkIsRecent, MemberIsRecent, GrantIsRecent, ChecksAreRecent,
                    CheckIsRecent, AdmissionIsRecent, Absent, NoCheck

\* A check goes on in a state that is recent, and nothing else moves.
LEMMA CheckGoes ==
  ASSUME ViewersInv, NEW t \in Checks, NEW k \in CheckStates, CheckIsRecent(k), Quiet,
         checks' = [checks EXCEPT ![t] = k]
  PROVE  checks' \in [Checks -> CheckStates] /\ ChecksAreRecent'
<1>1. UNCHANGED <<sinceLinked, sinceMember>>
  BY DEF Quiet
<1>2. checks' \in [Checks -> CheckStates] /\ \A u \in Checks : checks'[u] \in {checks[u], k}
  BY DEF ViewersInv, ViewersKinds
<1>3. \A u \in Checks : CheckIsRecent(checks[u])
  BY DEF ViewersInv, ChecksAreRecent
<1>. QED BY <1>1, <1>2, <1>3 DEF ChecksAreRecent, CheckIsRecent

\* What was read is of now.
LEMMA ReadSafe == ASSUME ViewersInv, NEW t \in Checks, CredentialsRead(t) PROVE ViewersInv'
<1>. USE DEF ViewersInv
<1>0. CredTtl \in Nat /\ 0 \notin Channels
  BY ViewersAssumption
<1>1. Nobody /\ Quiet /\ UNCHANGED <<credCache, memberCache>>
  BY DEF CredentialsRead
<1>2. UNCHANGED <<linkedChannel, memberOf, sinceLinked, sinceMember>>
  BY <1>1 DEF Quiet
<1>3. PICK c \in {linkedChannel, 0} :
        checks' = [checks EXCEPT ![t] = [pc |-> "keep", channel |-> c,
                                         allowed |-> FALSE, left |-> CredTtl]]
  BY DEF CredentialsRead
<1>k. PICK k : k = [pc |-> "keep", channel |-> c, allowed |-> FALSE, left |-> CredTtl]
  OBVIOUS
<1>4. k \in CheckStates /\ k.pc = "keep" /\ k.channel = c /\ k.left = CredTtl
  BY <1>0, <1>k DEF CheckStates, ViewersKinds
<1>5. c \in Channels => sinceLinked[c] = 0
  BY <1>0 DEF LinkIsRecent
<1>6. CheckIsRecent(k)
  BY <1>0, <1>4, <1>5 DEF CheckIsRecent
<1>7. checks' \in [Checks -> CheckStates] /\ ChecksAreRecent'
  BY <1>1, <1>3, <1>k, <1>4, <1>6, CheckGoes
<1>. QED
  BY <1>1, <1>2, <1>7
     DEF Nobody, ViewersKinds, LinkIsRecent, MemberIsRecent, GrantIsRecent, AdmissionIsRecent

\* The channel a request resolves to was linked within the life of the cache.
LEMMA CheckResolved ==
  ASSUME ViewersInv, NEW t \in Checks, NEW c \in Channels \union {0}, ResolvedTo(t, c), Quiet
  PROVE  /\ credCache' \in CredEntries /\ LinkIsRecent'
         /\ c # 0 => sinceLinked[c] <= CredTtl
<1>. USE DEF ViewersInv
<1>0. CredTtl \in Nat /\ CredTtl # 0 /\ 0 \notin Channels
  BY ViewersAssumption
<1>1. UNCHANGED <<linkedChannel, sinceLinked>>
  BY DEF Quiet
<1>2. CASE credCache.left > 0 /\ c = credCache.channel /\ UNCHANGED credCache
  <2>1. c # 0 => sinceLinked[c] \in Nat /\ sinceLinked[c] + credCache.left <= CredTtl
    BY <1>0, <1>2 DEF LinkIsRecent, ViewersKinds, Never
  <2>2. credCache.left \in Nat
    BY DEF ViewersKinds, CredEntries
  <2>. QED BY <1>0, <1>1, <1>2, <2>1, <2>2 DEF LinkIsRecent, ViewersKinds
<1>3. CASE /\ checks[t].pc = "keep" /\ c = checks[t].channel
           /\ credCache' = [channel |-> c, left |-> checks[t].left]
  <2>1. /\ checks[t].left \in 0..CredTtl
        /\ c \in Channels => sinceLinked[c] + checks[t].left <= CredTtl
    BY <1>0, <1>3 DEF ChecksAreRecent, CheckIsRecent, ViewersKinds, CheckStates
  <2>2. credCache' \in CredEntries /\ credCache'.channel = c /\ credCache'.left = checks[t].left
    BY <1>0, <1>3, <2>1 DEF CredEntries
  <2>3. c \in Channels => sinceLinked[c] \in Nat
    BY DEF ViewersKinds, Never
  <2>4. LinkIsRecent'
    BY <1>0, <1>1, <2>1, <2>2 DEF LinkIsRecent
  <2>. QED BY <1>0, <2>1, <2>2, <2>3, <2>4
<1>. QED BY <1>2, <1>3 DEF ResolvedTo

LEMMA ArrivesSafe == ASSUME ViewersInv, NEW t \in Checks, ViewerArrives(t) PROVE ViewersInv'
<1>. USE DEF ViewersInv
<1>0. CredTtl \in Nat /\ MemberTtl \in Nat /\ MemberTtl # 0 /\ 0 \notin Channels
  BY ViewersAssumption
<1>1. Quiet /\ memberCache' = memberCache
  BY DEF ViewerArrives
<1>2. UNCHANGED <<linkedChannel, memberOf, sinceLinked, sinceMember>>
  BY <1>1 DEF Quiet
<1>3. PICK c \in Channels \union {0} :
        /\ ResolvedTo(t, c)
        /\ \/ Nobody /\ checks' = [checks EXCEPT ![t] = NoCheck]
           \/ /\ c # 0 /\ memberCache[c].left > 0 /\ memberCache[c].allowed /\ Admit(c)
              /\ checks' = [checks EXCEPT ![t] = NoCheck]
           \/ /\ c # 0 /\ Nobody
              /\ checks' = [checks EXCEPT ![t] = [pc |-> "ask", channel |-> c,
                                                  allowed |-> FALSE, left |-> MemberTtl]]
  BY DEF ViewerArrives
<1>4. credCache' \in CredEntries /\ LinkIsRecent' /\ (c # 0 => sinceLinked[c] <= CredTtl)
  BY <1>1, <1>3, CheckResolved
<1>5. MemberIsRecent'
  BY <1>1, <1>2 DEF MemberIsRecent, GrantIsRecent
<1>6. ASSUME checks' = [checks EXCEPT ![t] = NoCheck]
      PROVE  checks' \in [Checks -> CheckStates] /\ ChecksAreRecent'
  <2>1. NoCheck \in CheckStates /\ CheckIsRecent(NoCheck)
    BY DEF NoCheck, CheckStates, CheckIsRecent
  <2>. QED BY <1>1, <1>6, <2>1, CheckGoes
<1>7. CASE Nobody /\ checks' = [checks EXCEPT ![t] = NoCheck]
  BY <1>1, <1>2, <1>4, <1>5, <1>6, <1>7 DEF Nobody, ViewersKinds, AdmissionIsRecent
<1>8. CASE /\ c # 0 /\ memberCache[c].left > 0 /\ memberCache[c].allowed /\ Admit(c)
           /\ checks' = [checks EXCEPT ![t] = NoCheck]
  <2>1. c \in Channels /\ admissions' = {c}
    BY <1>8 DEF Admit
  <2>2. /\ sinceMember[c] \in Nat /\ sinceLinked[c] \in Nat /\ memberCache[c].left \in Nat
        /\ sinceMember[c] + memberCache[c].left <= MemberTtl
    BY <1>8, <2>1 DEF MemberIsRecent, GrantIsRecent, ViewersKinds, MemberEntries, Never
  <2>3. AdmissionIsRecent'
    BY <1>0, <1>2, <1>4, <1>8, <2>1, <2>2 DEF AdmissionIsRecent
  <2>. QED BY <1>1, <1>2, <1>4, <1>5, <1>6, <1>8, <2>1, <2>3 DEF ViewersKinds
<1>9. CASE /\ c # 0 /\ Nobody
           /\ checks' = [checks EXCEPT ![t] = [pc |-> "ask", channel |-> c,
                                               allowed |-> FALSE, left |-> MemberTtl]]
  <2>k. PICK k : k = [pc |-> "ask", channel |-> c, allowed |-> FALSE, left |-> MemberTtl]
    OBVIOUS
  <2>1. /\ k \in CheckStates /\ k.pc = "ask" /\ k.channel = c /\ k.left = MemberTtl
        /\ k.allowed = FALSE
    BY <1>0, <2>k DEF CheckStates
  <2>2. CheckIsRecent(k)
    <3>1. c \in Channels /\ sinceLinked[c] \in Nat
      BY <1>9 DEF ViewersKinds, Never
    <3>. QED BY <1>0, <1>4, <1>9, <2>1, <3>1 DEF CheckIsRecent
  <2>3. checks' \in [Checks -> CheckStates] /\ ChecksAreRecent'
    BY <1>1, <1>9, <2>k, <2>1, <2>2, CheckGoes
  <2>. QED BY <1>1, <1>2, <1>4, <1>5, <1>9, <2>3 DEF Nobody, ViewersKinds, AdmissionIsRecent
<1>. QED BY <1>3, <1>7, <1>8, <1>9

LEMMA SaysSafe == ASSUME ViewersInv, NEW t \in Checks, TelegramSays(t) PROVE ViewersInv'
<1>. USE DEF ViewersInv
<1>1. /\ checks[t].pc = "ask" /\ Nobody /\ Quiet /\ UNCHANGED <<credCache, memberCache>>
  BY DEF TelegramSays
<1>2. UNCHANGED <<linkedChannel, memberOf, sinceLinked, sinceMember>>
  BY <1>1 DEF Quiet
<1>3. PICK says \in BOOLEAN :
        /\ says => checks[t].channel \in memberOf
        /\ checks' = [checks EXCEPT ![t].pc = "store", ![t].allowed = says]
  <2>. DEFINE member == checks[t].channel \in memberOf
              Stored(a) == checks' = [checks EXCEPT ![t].pc = "store", ![t].allowed = a]
  <2>1. PICK a \in {member, FALSE} : Stored(a)
    BY DEF TelegramSays
  <2>2. a \in BOOLEAN /\ (a = TRUE => member)
    <3>1. a = member \/ a = FALSE
      OBVIOUS
    <3>2. member \in BOOLEAN
      OBVIOUS
    <3>. QED BY <3>1, <3>2
  <2>3. \E says \in BOOLEAN : (says => member) /\ Stored(says)
    <3>. HIDE DEF member, Stored
    <3>1. a \in BOOLEAN
      BY <2>2
    <3>2. a => member
      BY <2>2
    <3>. QED BY <2>1, <3>1, <3>2
  <2>. QED BY <2>3
<1>k. PICK k : k = [checks[t] EXCEPT !.pc = "store", !.allowed = says]
  OBVIOUS
<1>4. checks' = [checks EXCEPT ![t] = k]
  BY <1>3, <1>k DEF ViewersKinds
<1>5. /\ k \in CheckStates /\ k.pc = "store" /\ k.channel = checks[t].channel
      /\ k.left = checks[t].left /\ k.allowed = says
  <2>1. checks[t] \in CheckStates
    BY DEF ViewersKinds
  <2>. QED BY <1>k, <2>1 DEF CheckStates
<1>6. CheckIsRecent(k)
  <2>1. CheckIsRecent(checks[t]) /\ checks[t].left \in Nat
    BY DEF ChecksAreRecent, ViewersKinds, CheckStates
  <2>2. says => sinceMember[checks[t].channel] = 0
    BY <1>3 DEF MemberIsRecent
  <2>. QED BY <1>1, <1>5, <2>1, <2>2, ViewersAssumption DEF CheckIsRecent
<1>7. checks' \in [Checks -> CheckStates] /\ ChecksAreRecent'
  BY <1>1, <1>4, <1>5, <1>6, CheckGoes
<1>. QED
  BY <1>1, <1>2, <1>7
     DEF Nobody, ViewersKinds, LinkIsRecent, MemberIsRecent, GrantIsRecent, AdmissionIsRecent

LEMMA AnsweredSafe == ASSUME ViewersInv, NEW t \in Checks, ViewerAnswered(t) PROVE ViewersInv'
<1>. USE DEF ViewersInv
<1>. DEFINE k == checks[t]
            g == [allowed |-> k.allowed, left |-> k.left]
<1>1. /\ k.pc = "store" /\ memberCache' = [memberCache EXCEPT ![k.channel] = g]
      /\ IF k.allowed THEN Admit(k.channel) ELSE Nobody
      /\ checks' = [checks EXCEPT ![t] = NoCheck]
      /\ UNCHANGED credCache /\ Quiet
  BY DEF ViewerAnswered
<1>2. UNCHANGED <<linkedChannel, memberOf, sinceLinked, sinceMember>>
  BY <1>1 DEF Quiet
<1>3. /\ k.channel \in Channels /\ k.left \in 0..MemberTtl /\ k.left + 1 >= MemberTtl
      /\ sinceLinked[k.channel] + k.left <= CredTtl + MemberTtl
      /\ k.allowed => sinceMember[k.channel] + k.left <= MemberTtl
      /\ k.allowed \in BOOLEAN
      /\ sinceLinked[k.channel] \in Nat /\ sinceMember[k.channel] \in Nat
  BY <1>1 DEF ChecksAreRecent, CheckIsRecent, ViewersKinds, CheckStates, Never
<1>4. g \in MemberEntries /\ g.allowed = k.allowed /\ g.left = k.left
  BY <1>3 DEF MemberEntries
<1>5. NoCheck \in CheckStates /\ CheckIsRecent(NoCheck)
  BY DEF NoCheck, CheckStates, CheckIsRecent
<1>. HIDE DEF k, g
<1>6. /\ memberCache' \in [Channels -> MemberEntries]
      /\ \A c \in Channels : memberCache'[c] = IF c = k.channel THEN g ELSE memberCache[c]
  BY <1>1, <1>3, <1>4 DEF ViewersKinds
<1>7. GrantIsRecent(k.channel, g)
  BY <1>3, <1>4 DEF GrantIsRecent
<1>8. MemberIsRecent'
  BY <1>2, <1>6, <1>7 DEF MemberIsRecent, GrantIsRecent
<1>9. checks' \in [Checks -> CheckStates] /\ ChecksAreRecent'
  BY <1>1, <1>5, CheckGoes
<1>11. admissions' \subseteq Channels /\ AdmissionIsRecent'
  <2>1. CASE k.allowed
    <3>1. admissions' = {k.channel}
      BY <1>1, <2>1 DEF Admit
    <3>2. sinceMember[k.channel] <= MemberTtl /\ sinceLinked[k.channel] <= CredTtl + 1
      BY <1>3, <2>1, ViewersAssumption
    <3>. QED BY <1>2, <1>3, <3>1, <3>2 DEF AdmissionIsRecent
  <2>2. CASE ~k.allowed
    BY <1>1, <2>2 DEF Nobody, AdmissionIsRecent
  <2>. QED BY <2>1, <2>2
<1>. QED BY <1>1, <1>2, <1>6, <1>8, <1>9, <1>11 DEF ViewersKinds, LinkIsRecent

LEMMA OwnerLinksSafe ==
  ASSUME ViewersInv, NEW c \in Channels \union {0}, OwnerLinks(c)
  PROVE  ViewersInv'
<1>. USE DEF ViewersInv
<1>1. /\ Nobody /\ UNCHANGED <<credCache, memberCache, checks, memberOf, sinceMember>>
      /\ linkedChannel' = c
      /\ sinceLinked' = [d \in Channels |-> IF d = c THEN 0 ELSE sinceLinked[d]]
  BY DEF OwnerLinks, OnEvent
<1>2. /\ sinceLinked' \in [Channels -> 0..Never] /\ (c \in Channels => sinceLinked'[c] = 0)
      /\ \A d \in Channels : sinceLinked[d] \in Nat /\ sinceLinked'[d] \in {0, sinceLinked[d]}
  BY <1>1, ViewersAssumption DEF ViewersKinds, Never
<1>3. ViewersKinds'
  BY <1>1, <1>2 DEF ViewersKinds, Nobody
<1>4. LinkIsRecent'
  <2>1. credCache.left \in Nat /\ CredTtl \in Nat
    BY ViewersAssumption DEF ViewersKinds, CredEntries
  <2>2. credCache.left <= CredTtl
    BY <2>1 DEF ViewersKinds, CredEntries
  <2>. QED BY <1>1, <1>2, <2>1, <2>2 DEF LinkIsRecent
<1>5. MemberIsRecent'
  BY <1>1 DEF MemberIsRecent, GrantIsRecent
<1>6. ChecksAreRecent'
  <2>. SUFFICES ASSUME NEW t \in Checks PROVE CheckIsRecent(checks[t])'
    BY DEF ChecksAreRecent
  <2>1. CheckIsRecent(checks[t]) /\ checks[t].left \in Nat
    BY DEF ChecksAreRecent, ViewersKinds, CheckStates
  <2>. QED BY <1>1, <1>2, <2>1, ViewersAssumption DEF CheckIsRecent
<1>. QED BY <1>1, <1>3, <1>4, <1>5, <1>6 DEF Nobody, AdmissionIsRecent

LEMMA MembershipSafe ==
  ASSUME ViewersInv, NEW c \in Channels, MembershipChanges(c)
  PROVE  ViewersInv'
<1>. USE DEF ViewersInv
<1>1. /\ Nobody /\ UNCHANGED <<credCache, memberCache, checks, linkedChannel, sinceLinked>>
      /\ memberOf' = (IF c \in memberOf THEN memberOf \ {c} ELSE memberOf \union {c})
      /\ sinceMember' = [sinceMember EXCEPT ![c] = 0]
  BY DEF MembershipChanges, OnEvent
<1>2. /\ sinceMember' \in [Channels -> 0..Never] /\ sinceMember'[c] = 0
      /\ \A d \in Channels : sinceMember[d] \in Nat /\ sinceMember'[d] \in {0, sinceMember[d]}
  BY <1>1, ViewersAssumption DEF ViewersKinds, Never
<1>3. ViewersKinds'
  BY <1>1, <1>2 DEF ViewersKinds, Nobody
<1>4. LinkIsRecent'
  BY <1>1 DEF LinkIsRecent
<1>5. MemberIsRecent'
  <2>1. \A d \in memberOf' : sinceMember'[d] = 0
    BY <1>1, <1>2 DEF MemberIsRecent, ViewersKinds
  <2>2. ASSUME NEW d \in Channels PROVE GrantIsRecent(d, memberCache[d])'
    <3>1. GrantIsRecent(d, memberCache[d]) /\ memberCache[d].left \in 0..MemberTtl
      BY <2>2 DEF MemberIsRecent, ViewersKinds, MemberEntries
    <3>. QED BY <1>1, <1>2, <3>1, ViewersAssumption DEF GrantIsRecent
  <2>. QED BY <2>1, <2>2 DEF MemberIsRecent
<1>6. ChecksAreRecent'
  <2>. SUFFICES ASSUME NEW t \in Checks PROVE CheckIsRecent(checks[t])'
    BY DEF ChecksAreRecent
  <2>1. CheckIsRecent(checks[t]) /\ checks[t].left \in Nat
    BY DEF ChecksAreRecent, ViewersKinds, CheckStates
  <2>. QED BY <1>1, <1>2, <2>1, ViewersAssumption DEF CheckIsRecent
<1>. QED BY <1>1, <1>3, <1>4, <1>5, <1>6 DEF Nobody, AdmissionIsRecent

LEMMA TickSafe == ASSUME ViewersInv, ViewerTick PROVE ViewersInv'
<1>. USE DEF ViewersInv
<1>0. CredTtl \in Nat /\ MemberTtl \in Nat /\ MemberTtl # 0 /\ Never \in Nat /\ Never # 0
  BY ViewersAssumption DEF Never
<1>1. /\ \A t \in Checks : ~Awaited(t)
      /\ credCache' = [credCache EXCEPT !.left = Minus(@)]
      /\ memberCache' = [c \in Channels |-> [memberCache[c] EXCEPT !.left = Minus(@)]]
      /\ checks' = [t \in Checks |-> [checks[t] EXCEPT !.left = Minus(@)]]
      /\ sinceLinked' = [c \in Channels |-> IF c = linkedChannel THEN 0 ELSE Older(sinceLinked[c])]
      /\ sinceMember' = [c \in Channels |-> IF c \in memberOf THEN 0 ELSE Older(sinceMember[c])]
      /\ Nobody /\ UNCHANGED <<linkedChannel, memberOf>>
  BY DEF ViewerTick
<1>2. \A n \in Nat : Minus(n) \in Nat /\ Minus(n) <= n /\ (Minus(n) > 0 => Minus(n) = n - 1)
                     /\ n <= Minus(n) + 1
  BY DEF Minus
<1>3. \A n \in 0..Never : Older(n) \in 0..Never /\ Older(n) <= n + 1
  BY <1>0 DEF Older
<1>4. /\ credCache' \in CredEntries /\ credCache'.channel = credCache.channel
      /\ credCache'.left = Minus(credCache.left) /\ credCache.left \in 0..CredTtl
  BY <1>0, <1>1, <1>2 DEF ViewersKinds, CredEntries
<1>5. ASSUME NEW c \in Channels
      PROVE  /\ memberCache'[c] \in MemberEntries
             /\ memberCache'[c].allowed = memberCache[c].allowed
             /\ memberCache'[c].left = Minus(memberCache[c].left)
             /\ memberCache[c].left \in 0..MemberTtl
  <2>1. memberCache[c] \in MemberEntries
    BY DEF ViewersKinds
  <2>2. memberCache'[c] = [memberCache[c] EXCEPT !.left = Minus(@)]
    BY <1>1
  <2>. QED BY <1>0, <1>2, <2>1, <2>2 DEF MemberEntries
<1>6. ASSUME NEW t \in Checks
      PROVE  /\ checks'[t] \in CheckStates
             /\ checks'[t].pc = checks[t].pc /\ checks'[t].channel = checks[t].channel
             /\ checks'[t].allowed = checks[t].allowed
             /\ checks'[t].left = Minus(checks[t].left) /\ checks[t].left \in Nat
  <2>1. checks[t] \in CheckStates
    BY DEF ViewersKinds
  <2>2. checks'[t] = [checks[t] EXCEPT !.left = Minus(@)]
    BY <1>1
  <2>. QED BY <1>0, <1>2, <2>1, <2>2 DEF CheckStates
<1>7. ASSUME NEW c \in Channels
      PROVE  /\ sinceLinked[c] \in 0..Never /\ sinceLinked'[c] \in 0..Never
             /\ sinceLinked'[c] <= sinceLinked[c] + 1 /\ (c = linkedChannel => sinceLinked'[c] = 0)
             /\ sinceMember[c] \in 0..Never /\ sinceMember'[c] \in 0..Never
             /\ sinceMember'[c] <= sinceMember[c] + 1 /\ (c \in memberOf => sinceMember'[c] = 0)
  BY <1>0, <1>1, <1>3 DEF ViewersKinds
<1>8. ViewersKinds'
  <2>1. memberCache' \in [Channels -> MemberEntries]
    BY <1>1, <1>5
  <2>2. checks' \in [Checks -> CheckStates]
    BY <1>1, <1>6
  <2>3. sinceLinked' \in [Channels -> 0..Never] /\ sinceMember' \in [Channels -> 0..Never]
    BY <1>1, <1>7
  <2>. QED BY <1>1, <1>4, <2>1, <2>2, <2>3 DEF ViewersKinds, Nobody
<1>9. LinkIsRecent'
  <2>. SUFFICES ASSUME credCache.channel \in Channels, credCache'.left > 0
                PROVE  sinceLinked'[credCache.channel] + credCache'.left <= CredTtl
    BY <1>1, <1>4, <1>7 DEF LinkIsRecent
  <2>1. credCache.left > 0 /\ credCache'.left = credCache.left - 1
    BY <1>2, <1>4
  <2>2. sinceLinked[credCache.channel] + credCache.left <= CredTtl
    BY <2>1 DEF LinkIsRecent
  <2>. QED BY <1>0, <1>4, <1>7, <2>1, <2>2
<1>10. MemberIsRecent'
  <2>1. \A c \in memberOf' : sinceMember'[c] = 0
    BY <1>1, <1>7 DEF ViewersKinds
  <2>2. ASSUME NEW c \in Channels PROVE GrantIsRecent(c, memberCache[c])'
    <3>. SUFFICES ASSUME memberCache'[c].allowed, memberCache'[c].left > 0
                  PROVE  sinceMember'[c] + memberCache'[c].left <= MemberTtl
      BY DEF GrantIsRecent
    <3>1. memberCache[c].left > 0 /\ memberCache'[c].left = memberCache[c].left - 1
      BY <1>2, <1>5
    <3>2. sinceMember[c] + memberCache[c].left <= MemberTtl
      BY <1>5, <3>1 DEF MemberIsRecent, GrantIsRecent
    <3>. QED BY <1>0, <1>5, <1>7, <3>1, <3>2
  <2>. QED BY <2>1, <2>2 DEF MemberIsRecent
<1>11. ChecksAreRecent'
  <2>. SUFFICES ASSUME NEW t \in Checks PROVE CheckIsRecent(checks[t])'
    BY DEF ChecksAreRecent
  <2>1. CheckIsRecent(checks[t]) /\ ~Awaited(t)
    BY <1>1 DEF ChecksAreRecent
  <2>2. CredTtl # 0
    BY ViewersAssumption
  <2>3. CASE checks[t].pc = "keep"
    <3>1. checks[t].left = CredTtl /\ checks'[t].left = CredTtl - 1
      BY <1>0, <1>6, <2>1, <2>2, <2>3 DEF Awaited, CheckIsRecent, Minus
    <3>. QED BY <1>0, <1>6, <1>7, <2>1, <2>2, <2>3, <3>1 DEF CheckIsRecent
  <2>4. CASE checks[t].pc \in {"ask", "store"}
    <3>1. checks[t].left = MemberTtl /\ checks'[t].left = MemberTtl - 1
      BY <1>0, <1>6, <2>1, <2>4 DEF Awaited, CheckIsRecent, Minus
    <3>2. checks[t].channel \in Channels
      BY <2>1, <2>4 DEF CheckIsRecent
    <3>. QED BY <1>0, <1>6, <1>7, <2>1, <2>4, <3>1, <3>2 DEF CheckIsRecent
  <2>. QED BY <1>6, <2>3, <2>4 DEF CheckIsRecent
<1>. QED BY <1>1, <1>8, <1>9, <1>10, <1>11 DEF Nobody, AdmissionIsRecent

LEMMA ViewersStep == ASSUME ViewersInv, [ViewersNext]_viewersVars PROVE ViewersInv'
<1>1. CASE UNCHANGED viewersVars
  BY <1>1 DEF viewersVars, ViewersInv, ViewersKinds, LinkIsRecent, MemberIsRecent, GrantIsRecent,
              ChecksAreRecent, CheckIsRecent, AdmissionIsRecent
<1>. QED
  BY <1>1, ReadSafe, ArrivesSafe, SaysSafe, AnsweredSafe, OwnerLinksSafe, MembershipSafe, TickSafe
     DEF ViewersNext

\* Whoever is admitted was a member of that channel no longer ago than an answer
\* of Telegram is kept, and it was linked no longer ago than the credentials are,
\* with one check added (_resolve_credentials and _check_membership of miniapp.py).
THEOREM AdmissionsAreRecent == ViewersSpec => []AdmissionIsRecent
<1>1. ViewersInv => AdmissionIsRecent
  BY DEF ViewersInv
<1>. QED BY <1>1, ViewersStart, ViewersStep, PTL DEF ViewersSpec

-----------------------------------------------------------------------------
(* The poller                                                              *)

PollKinds ==
    /\ stops \in Nat /\ confirmed \in Nat /\ arrived \in 0..MaxUpdates
    /\ poller \in [pc : {"ask", "handle"}, offset : Nat \ {0}, batch : Seq(1..MaxUpdates)]
    /\ handled \in [1..MaxUpdates -> Nat]

\* Since its tasks were last started the service has carried out no update that
\* lies at or above the offset, and what it has in hand lies there, in order.
OnceSoFar ==
    /\ \A u \in 1..MaxUpdates : handled[u] <= stops + 1
    /\ \A u \in 1..MaxUpdates : u >= poller.offset => handled[u] <= stops
    /\ \A k \in 1..Len(poller.batch) : poller.batch[k] >= poller.offset
    /\ \A j, k \in 1..Len(poller.batch) : j < k => poller.batch[j] < poller.batch[k]

PollInv == PollKinds /\ OnceSoFar

LEMMA PollStart == ASSUME TelegramInit PROVE PollInv
<1>1. poller = [pc |-> "ask", offset |-> 1, batch |-> <<>>] /\ stops = 0
  BY DEF TelegramInit, FreshPoller
<1>2. PollKinds
  BY <1>1, TelegramAssumption DEF TelegramInit, PollKinds
<1>. QED BY <1>1, <1>2 DEF TelegramInit, PollInv, OnceSoFar

\* What getUpdates brings lies at or above the offset, in order.
LEMMA AskSafe == ASSUME PollInv, PollAsks PROVE PollInv'
<1>. USE DEF PollInv
<1>1. UNCHANGED <<stops, arrived, handled>> /\ confirmed' = Below(poller.offset)
  BY DEF PollAsks, OnlyPoller, processSide
<1>2. Below(poller.offset) \in Nat /\ Below(poller.offset) + 1 >= poller.offset
  BY DEF Below, PollKinds
<1>3. CASE UNCHANGED poller
  BY <1>1, <1>2, <1>3 DEF PollKinds, OnceSoFar
<1>4. CASE /\ Below(poller.offset) < arrived
           /\ poller' = [poller EXCEPT !.pc = "handle",
                                       !.batch = Range1(Below(poller.offset) + 1, arrived)]
  <2>. DEFINE first == Below(poller.offset) + 1
              size == arrived - first + 1
              batch == [n \in 1..size |-> first + n - 1]
  <2>1. size \in Nat /\ first <= arrived /\ first \in Nat \ {0} /\ MaxUpdates \in Nat
    BY <1>2, <1>4, TelegramAssumption DEF PollKinds
  <2>2. Range1(first, arrived) = batch
    BY <2>1 DEF Range1
  <2>3. \A k \in 1..size : batch[k] \in 1..MaxUpdates /\ batch[k] >= first
    <3>1. arrived \in Nat /\ arrived <= MaxUpdates
      BY <2>1 DEF PollKinds
    <3>. HIDE DEF first
    <3>2. \A k \in 1..size : first + k - 1 \in 1..MaxUpdates /\ first + k - 1 >= first
      BY <2>1, <3>1
    <3>. QED BY <3>2
  <2>4. \A j, k \in 1..size : j < k => batch[j] < batch[k]
    BY <2>1
  <2>5. batch \in Seq(1..MaxUpdates) /\ Len(batch) = size
    BY <2>1, <2>3
  <2>. HIDE DEF batch, size
  <2>6. poller' = [poller EXCEPT !.pc = "handle", !.batch = batch]
    BY <1>4, <2>2
  <2>7. /\ poller' \in [pc : {"ask", "handle"}, offset : Nat \ {0}, batch : Seq(1..MaxUpdates)]
        /\ poller'.offset = poller.offset /\ poller'.batch = batch
    BY <2>5, <2>6 DEF PollKinds
  <2>8. PollKinds'
    BY <1>1, <1>2, <2>7 DEF PollKinds
  <2>9. \A k \in 1..size : batch[k] >= poller.offset
    BY <1>2, <2>1, <2>3 DEF PollKinds
  <2>. QED BY <1>1, <2>4, <2>5, <2>7, <2>8, <2>9 DEF OnceSoFar
<1>. QED BY <1>3, <1>4 DEF PollAsks

\* The update that is carried out lay at or above the offset and now lies below.
LEMMA HandleSafe == ASSUME PollInv, PollHandles PROVE PollInv'
<1>. USE DEF PollInv
<1>. DEFINE u == Head(poller.batch)
            rest == Tail(poller.batch)
<1>1. UNCHANGED <<stops, arrived, confirmed>> /\ handled' = [handled EXCEPT ![u] = @ + 1]
  BY DEF PollHandles, OnlyPoller, processSide, Carried
<1>2. poller.batch \in Seq(1..MaxUpdates) /\ poller.batch # <<>>
  BY DEF PollHandles, PollKinds
<1>3. /\ u \in 1..MaxUpdates /\ u = poller.batch[1] /\ rest \in Seq(1..MaxUpdates)
      /\ Len(poller.batch) \in Nat \ {0} /\ Len(rest) = Len(poller.batch) - 1
      /\ \A k \in 1..Len(rest) : rest[k] = poller.batch[k + 1]
  <2>. DEFINE batch == poller.batch
  <2>1. batch \in Seq(1..MaxUpdates) /\ batch # <<>>
    BY <1>2
  <2>. HIDE DEF batch
  <2>2. /\ Head(batch) \in 1..MaxUpdates /\ Tail(batch) \in Seq(1..MaxUpdates)
        /\ Len(batch) \in Nat \ {0} /\ Len(Tail(batch)) = Len(batch) - 1
    BY <2>1, EmptySeq, LenProperties, HeadTailProperties
  <2>3. Head(batch) = batch[1]
    BY <2>1
  <2>4. \A k \in 1..Len(Tail(batch)) : Tail(batch)[k] = batch[k + 1]
    BY <2>1, HeadTailProperties
  <2>. QED BY <2>2, <2>3, <2>4 DEF batch
<1>4. u >= poller.offset /\ \A k \in 1..Len(rest) : rest[k] >= u + 1
  <2>1. u >= poller.offset
    BY <1>3 DEF OnceSoFar
  <2>2. \A k \in 1..Len(rest) : k + 1 \in 1..Len(poller.batch) /\ 1 < k + 1
    BY <1>3
  <2>3. \A k \in 1..Len(rest) : poller.batch[1] < poller.batch[k + 1]
    BY <1>3, <2>2 DEF OnceSoFar
  <2>. HIDE DEF u, rest
  <2>4. \A k \in 1..Len(rest) : rest[k] \in 1..MaxUpdates
    BY <1>3, ElementOfSeq
  <2>5. u \in Nat /\ 1..MaxUpdates \subseteq Nat
    BY <1>3, TelegramAssumption
  <2>6. ASSUME NEW k \in 1..Len(rest) PROVE rest[k] >= u + 1
    <3>1. rest[k] \in Nat /\ u < rest[k]
      BY <1>3, <2>3, <2>4, <2>5
    <3>. QED BY <2>5, <3>1
  <2>. QED BY <2>1, <2>6
<1>5. \A j, k \in 1..Len(rest) : j < k => rest[j] < rest[k]
  <2>1. \A k \in 1..Len(rest) : k + 1 \in 1..Len(poller.batch)
    BY <1>3
  <2>2. \A j, k \in 1..Len(poller.batch) : j < k => poller.batch[j] < poller.batch[k]
    BY DEF OnceSoFar
  <2>. HIDE DEF u, rest
  <2>3. ASSUME NEW j \in 1..Len(rest), NEW k \in 1..Len(rest), j < k
        PROVE  rest[j] < rest[k]
    <3>1. j + 1 < k + 1
      BY <2>3, <1>3
    <3>2. poller.batch[j + 1] < poller.batch[k + 1]
      BY <2>1, <2>2, <3>1
    <3>. QED BY <1>3, <3>2
  <2>. QED BY <2>3
<1>. HIDE DEF u, rest
<1>6. /\ handled' \in [1..MaxUpdates -> Nat] /\ handled'[u] = handled[u] + 1
      /\ \A v \in 1..MaxUpdates : v # u => handled'[v] = handled[v]
  BY <1>1, <1>3 DEF PollKinds
<1>7. \A v \in 1..MaxUpdates : /\ handled'[v] <= stops + 1
                               /\ v >= u + 1 => handled'[v] <= stops
  <2>1. handled[u] <= stops /\ u \in Nat /\ stops \in Nat /\ handled[u] \in Nat
    <3>1. stops \in Nat /\ handled \in [1..MaxUpdates -> Nat]
      BY DEF PollKinds
    <3>2. u \in Nat /\ handled[u] \in Nat
      BY <1>3, <3>1, TelegramAssumption
    <3>. QED BY <1>3, <1>4, <3>1, <3>2 DEF OnceSoFar
  <2>2. ASSUME NEW v \in 1..MaxUpdates, v # u, v >= u + 1 PROVE handled[v] <= stops
    <3>1. v >= poller.offset
      BY <1>3, <1>4, <2>1, <2>2 DEF PollKinds
    <3>. QED BY <3>1 DEF OnceSoFar
  <2>. QED BY <1>6, <2>1, <2>2 DEF OnceSoFar
<1>8. poller' = [poller EXCEPT !.offset = u + 1, !.batch = rest]
      \/ poller' = [poller EXCEPT !.offset = u + 1, !.batch = <<>>, !.pc = "ask"]
  BY DEF PollHandles, Past, u, rest
<1>9. /\ poller' \in [pc : {"ask", "handle"}, offset : Nat \ {0}, batch : Seq(1..MaxUpdates)]
      /\ poller'.offset = u + 1 /\ poller'.batch \in {rest, <<>>}
  <2>1. u + 1 \in Nat \ {0} /\ <<>> \in Seq(1..MaxUpdates)
    BY <1>3, TelegramAssumption
  <2>2. poller \in [pc : {"ask", "handle"}, offset : Nat \ {0}, batch : Seq(1..MaxUpdates)]
    BY DEF PollKinds
  <2>3. CASE poller' = [poller EXCEPT !.offset = u + 1, !.batch = rest]
    BY <1>3, <2>1, <2>2, <2>3
  <2>4. CASE poller' = [poller EXCEPT !.offset = u + 1, !.batch = <<>>, !.pc = "ask"]
    BY <2>1, <2>2, <2>4
  <2>. QED BY <1>8, <2>3, <2>4
<1>10. PollKinds'
  BY <1>1, <1>6, <1>9 DEF PollKinds
<1>11. CASE poller'.batch = rest
  BY <1>1, <1>4, <1>5, <1>7, <1>9, <1>10, <1>11 DEF OnceSoFar
<1>12. CASE poller'.batch = <<>>
  BY <1>1, <1>7, <1>9, <1>10, <1>12 DEF OnceSoFar
<1>. QED BY <1>9, <1>11, <1>12

\* New tasks begin at the first update that is not confirmed.
LEMMA FreshSafe ==
  ASSUME PollInv, poller' = FreshPoller, stops' = stops + 1,
         UNCHANGED <<confirmed, arrived, handled>>
  PROVE  PollInv'
<1>1. /\ poller' \in [pc : {"ask", "handle"}, offset : Nat \ {0}, batch : Seq(1..MaxUpdates)]
      /\ poller'.batch = <<>> /\ Len(poller'.batch) = 0
  BY DEF FreshPoller
<1>2. PollKinds'
  BY <1>1 DEF PollInv, PollKinds
<1>3. \A u \in 1..MaxUpdates : handled[u] <= stops' /\ handled[u] <= stops' + 1
  BY DEF PollInv, PollKinds, OnceSoFar
<1>. QED BY <1>1, <1>2, <1>3 DEF PollInv, OnceSoFar

LEMMA PollMoves == ASSUME PollInv, [TelegramNext]_telegramVars PROVE PollInv'
<1>1. CASE UNCHANGED <<pollSide, stops>>
  BY <1>1 DEF pollSide, PollInv, PollKinds, OnceSoFar
<1>2. CASE BatchEnds
  <2>1. poller' = [poller EXCEPT !.pc = "ask"] /\ UNCHANGED <<confirmed, arrived, handled, stops>>
    BY <1>2 DEF BatchEnds, OnlyPoller, processSide
  <2>2. /\ poller' \in [pc : {"ask", "handle"}, offset : Nat \ {0}, batch : Seq(1..MaxUpdates)]
        /\ poller'.batch = poller.batch /\ poller'.offset = poller.offset
    BY <2>1 DEF PollInv, PollKinds
  <2>. QED BY <2>1, <2>2 DEF PollInv, PollKinds, OnceSoFar
<1>3. CASE UpdateArrives
  BY <1>3, TelegramAssumption
     DEF UpdateArrives, OnlyPoller, processSide, PollInv, PollKinds, OnceSoFar
<1>4. CASE ApplyTelegram \/ TelegramRestart
  BY <1>4, FreshSafe DEF ApplyTelegram, TelegramRestart
<1>5. CASE TickerStep
  BY <1>1, <1>5
     DEF TickerStep, TickStarts, TickPosts, TickPostsChannel, TickPersists, TickEdits,
         TickEditsChannel, TickFreezes, TickFreezesChannel, TickClears, OnlyTicker, processSide
<1>6. CASE PinnedStep
  BY <1>1, <1>6 DEF PinnedStep, PinStarts, EditorPins, OrphanPins, OnlyPin, processSide
<1>7. CASE BasketOpensOrCloses
  BY <1>1, <1>7 DEF BasketOpensOrCloses, processSide
<1>8. CASE UNCHANGED telegramVars
  BY <1>1, <1>8 DEF telegramVars, pollSide
<1>. QED
  BY <1>2, <1>3, <1>4, <1>5, <1>6, <1>7, <1>8, AskSafe, HandleSafe DEF TelegramNext, PollerStep

-----------------------------------------------------------------------------
(* Messages                                                                *)

Posts == [kind : {"owner", "channel", "pinned"}, chat : Nat, live : BOOLEAN]
TickerPcs == {"idle", "post", "postChannel", "persist", "edit", "editChannel", "freeze",
              "freezeChannel", "clear"}
Ticks == [pc : TickerPcs, chat : Nat]
PinStates == [pc : {"idle", "send", "edit", "save", "version"}, chat : Nat, id : Nat]
TickerIds == [owner : Nat, channel : Nat]

\* No message and no thread knows a chat that comes later.
PostKinds ==
    /\ posts \in Seq(Posts) /\ client \in Nat \ {0}
    /\ \A m \in DOMAIN posts : posts[m].chat <= client
    /\ tick \in Ticks /\ tick.chat <= client
    /\ pinner \in PinStates /\ pinner.chat <= client
    /\ orphan \in PinStates /\ orphan.chat <= client
    /\ pinned \in [id : Nat, version : Nat] /\ helpVersion \in Nat
    /\ strays \in [live : Nat, pin : Nat]

PostIds == 1..Len(posts)

LEMMA IdsOfPosts == ASSUME PostKinds PROVE DOMAIN posts = PostIds /\ Len(posts) \in Nat
  BY DEF PostKinds, PostIds

\* A message is sent under the next id, and the others stay as they are.
LEMMA SentGrows ==
  ASSUME PostKinds, NEW kind \in {"owner", "channel", "pinned"}, NEW chat \in Nat,
         Sent(kind, chat)
  PROVE  /\ posts' \in Seq(Posts) /\ Len(posts') = NewId /\ NewId \in Nat \ {0}
         /\ DOMAIN posts' = 1..NewId /\ DOMAIN posts = 1..Len(posts) /\ NewId \notin DOMAIN posts
         /\ \A m \in DOMAIN posts' : m \in DOMAIN posts \/ m = NewId
         /\ \A m \in DOMAIN posts : m \in DOMAIN posts' /\ posts'[m] = posts[m]
         /\ posts'[NewId].kind = kind /\ posts'[NewId].chat = chat /\ posts'[NewId].live
<1>. DEFINE post == [kind |-> kind, chat |-> chat, live |-> TRUE]
<1>1. post \in Posts /\ post.kind = kind /\ post.chat = chat /\ post.live
  BY DEF Posts
<1>2. posts' = Append(posts, post) /\ posts \in Seq(Posts)
  BY DEF Sent, PostKinds
<1>. HIDE DEF post
<1>3. /\ posts' \in Seq(Posts) /\ Len(posts') = Len(posts) + 1 /\ Len(posts) \in Nat
      /\ posts'[Len(posts) + 1] = post
      /\ \A m \in 1..Len(posts) : posts'[m] = posts[m]
  BY <1>1, <1>2, AppendProperties
<1>4. DOMAIN posts' = 1..(Len(posts) + 1) /\ DOMAIN posts = 1..Len(posts)
  BY <1>2, <1>3
<1>. QED BY <1>1, <1>3, <1>4 DEF NewId

\* An edit changes whether one message is live.
LEMMA EditedKeeps ==
  ASSUME PostKinds, NEW id \in DOMAIN posts, NEW live \in BOOLEAN, Edited(id, live)
  PROVE  /\ posts' \in Seq(Posts) /\ DOMAIN posts' = DOMAIN posts /\ Len(posts') = Len(posts)
         /\ \A m \in DOMAIN posts : /\ posts'[m].kind = posts[m].kind
                                    /\ posts'[m].chat = posts[m].chat
                                    /\ m # id => posts'[m].live = posts[m].live
         /\ posts'[id].live = live
<1>1. posts \in Seq(Posts) /\ DOMAIN posts = 1..Len(posts) /\ Len(posts) \in Nat
  BY DEF PostKinds
<1>2. posts[id] \in Posts
  BY <1>1, ElementOfSeq
<1>. DEFINE post == [posts[id] EXCEPT !.live = live]
<1>3. post \in Posts /\ post.kind = posts[id].kind /\ post.chat = posts[id].chat /\ post.live = live
  BY <1>2 DEF Posts
<1>4. posts' = [posts EXCEPT ![id] = post]
  BY DEF Edited
<1>. HIDE DEF post
<1>5. posts' \in Seq(Posts) /\ Len(posts') = Len(posts)
  BY <1>1, <1>3, <1>4, ExceptSeq
<1>6. DOMAIN posts' = DOMAIN posts /\ posts'[id] = post
      /\ \A m \in DOMAIN posts : m # id => posts'[m] = posts[m]
  BY <1>4
<1>. QED BY <1>3, <1>5, <1>6

-----------------------------------------------------------------------------
(* Counting messages                                                       *)

LEMMA CountsKeep ==
  ASSUME NEW S, IsFiniteSet(S), NEW T, T \subseteq S
  PROVE  /\ IsFiniteSet(T) /\ Cardinality(T) <= Cardinality(S)
         /\ Cardinality(T) \in Nat /\ Cardinality(S) \in Nat
<1>1. IsFiniteSet(T) /\ Cardinality(T) <= Cardinality(S)
  BY FS_Subset
<1>. QED BY <1>1, FS_CardinalityType

LEMMA CountsOneMore ==
  ASSUME NEW S, IsFiniteSet(S), NEW x, NEW T, T \subseteq S \union {x}
  PROVE  /\ IsFiniteSet(T) /\ Cardinality(T) <= Cardinality(S) + 1
         /\ Cardinality(T) \in Nat /\ Cardinality(S) \in Nat
<1>1. Cardinality(S) \in Nat
  BY FS_CardinalityType
<1>2. IsFiniteSet(S \union {x}) /\ Cardinality(S \union {x}) <= Cardinality(S) + 1
  BY <1>1, FS_AddElement
<1>3. /\ IsFiniteSet(T) /\ Cardinality(T) <= Cardinality(S \union {x})
      /\ Cardinality(T) \in Nat /\ Cardinality(S \union {x}) \in Nat
  BY <1>2, CountsKeep
<1>. QED BY <1>1, <1>2, <1>3

LEMMA CountsSwap ==
  ASSUME NEW S, IsFiniteSet(S), NEW x, NEW y \in S, NEW T, T \subseteq (S \ {y}) \union {x}
  PROVE  Cardinality(T) <= Cardinality(S) /\ Cardinality(T) \in Nat
<1>1. IsFiniteSet(S \ {y}) /\ Cardinality(S \ {y}) = Cardinality(S) - 1
  BY FS_RemoveElement
<1>2. Cardinality(S) \in Nat
  BY FS_CardinalityType
<1>3. Cardinality(T) <= Cardinality(S \ {y}) + 1 /\ Cardinality(T) \in Nat
  BY <1>1, CountsOneMore
<1>. QED BY <1>1, <1>2, <1>3

-----------------------------------------------------------------------------
(* The LIVE message                                                        *)

OwnerPost(id) == id \in DOMAIN posts /\ posts[id].kind = "owner"
ChannelPost(id) == id \in DOMAIN posts /\ posts[id].kind = "channel"
IdsPoint ==
    /\ ids \in TickerIds /\ savedIds \in TickerIds
    /\ ids.owner # 0 => OwnerPost(ids.owner)
    /\ ids.channel # 0 => ChannelPost(ids.channel)
    /\ savedIds.owner # 0 => OwnerPost(savedIds.owner)
    /\ savedIds.channel # 0 => ChannelPost(savedIds.channel)
    /\ tick.pc = "post" => ids.owner = 0
    /\ tick.pc = "freeze" /\ ids.owner # 0 => posts[ids.owner].chat <= tick.chat

\* LIVE messages that the ticker does not know, and whether what it does now will
\* leave it one more: it posts or edits in a chat that was replaced, or is about
\* to forget a message that it could not freeze.
LeftLive == {m \in DOMAIN posts : posts[m].kind = "owner" /\ posts[m].live /\ m # ids.owner}
PostsElsewhere == tick.pc = "post" /\ tick.chat # client
LiveElsewhere ==
    /\ ids.owner # 0 /\ posts[ids.owner].chat # client
    /\ posts[ids.owner].live \/ (tick.pc = "edit" /\ Exists(ids.owner, tick.chat))
ForgetsLive ==
    tick.pc \in {"freezeChannel", "clear"} /\ ids.owner # 0 /\ posts[ids.owner].live
WillBeLeft == PostsElsewhere \/ LiveElsewhere \/ ForgetsLive
StraysLive == /\ Cardinality(LeftLive) <= strays.live
              /\ WillBeLeft => Cardinality(LeftLive) + 1 <= strays.live

TickerInv == PostKinds /\ IdsPoint /\ StraysLive

LEMMA LeftCount == ASSUME PostKinds PROVE IsFiniteSet(LeftLive) /\ Cardinality(LeftLive) \in Nat
<1>1. LeftLive \subseteq 1..Len(posts) /\ Len(posts) \in Int /\ 1 \in Int
  BY IdsOfPosts DEF LeftLive, PostIds
<1>2. IsFiniteSet(1..Len(posts))
  BY <1>1, FS_Interval
<1>. QED BY <1>1, <1>2, CountsKeep

\* No message is left behind, or a stray is counted for the one that is.
LEMMA NoneLeft ==
  ASSUME TickerInv, LeftLive' \subseteq LeftLive, strays'.live \in Nat,
         strays'.live >= strays.live,
         WillBeLeft' => WillBeLeft \/ strays'.live >= strays.live + 1
  PROVE  StraysLive'
<1>1. Cardinality(LeftLive') <= Cardinality(LeftLive) /\ Cardinality(LeftLive') \in Nat
      /\ Cardinality(LeftLive) \in Nat /\ strays.live \in Nat
  BY LeftCount, CountsKeep DEF TickerInv, PostKinds
<1>. QED BY <1>1 DEF TickerInv, StraysLive

LEMMA OneLeft ==
  ASSUME TickerInv, NEW m, LeftLive' \subseteq LeftLive \union {m}, strays'.live \in Nat,
         strays'.live >= strays.live, ~WillBeLeft',
         WillBeLeft \/ strays'.live >= strays.live + 1
  PROVE  StraysLive'
<1>1. Cardinality(LeftLive') <= Cardinality(LeftLive) + 1 /\ Cardinality(LeftLive') \in Nat
      /\ Cardinality(LeftLive) \in Nat /\ strays.live \in Nat
  BY LeftCount, CountsOneMore DEF TickerInv, PostKinds
<1>. QED BY <1>1 DEF TickerInv, StraysLive

\* Steps that leave the posts and the ids.
LEMMA QuietLeft ==
  ASSUME TickerInv, UNCHANGED <<posts, ids>> PROVE LeftLive' = LeftLive
  BY DEF LeftLive

LEMMA TickKinds ==
  ASSUME PostKinds, UNCHANGED <<client, helpVersion, pinSide>>,
         posts' \in Seq(Posts), \A m \in DOMAIN posts' : posts'[m].chat <= client,
         tick' \in Ticks, tick'.chat <= client, strays' \in [live : Nat, pin : Nat]
  PROVE  PostKinds'
  BY DEF PostKinds, pinSide

LEMMA Ticked ==
  ASSUME PostKinds, NEW pc \in TickerPcs, TickGoto(pc)
  PROVE  tick' \in Ticks /\ tick'.pc = pc /\ tick'.chat = tick.chat /\ tick'.chat <= client
  BY DEF PostKinds, TickGoto, Ticks

LEMMA TickEnded ==
  ASSUME PostKinds, TickEnds
  PROVE  tick' \in Ticks /\ tick'.pc = "idle" /\ tick'.chat = 0 /\ tick'.chat <= client
  BY DEF PostKinds, TickEnds, Ticks, TickerPcs, NoTick

LEMMA Strayed ==
  ASSUME PostKinds, Stray("live")
  PROVE  strays' \in [live : Nat, pin : Nat] /\ strays'.live = strays.live + 1
         /\ strays'.live >= strays.live /\ strays'.live \in Nat
<1>1. strays \in [live : Nat, pin : Nat]
  BY DEF PostKinds
<1>2. strays' \in [live : Nat, pin : Nat] /\ strays'.live = strays.live + 1
  BY <1>1 DEF Stray
<1>. QED BY <1>1, <1>2

LEMMA TickStartsSafe == ASSUME TickerInv, TickStarts PROVE TickerInv'
<1>1. /\ UNCHANGED <<posts, ids, savedIds, strays, client, helpVersion, pinSide>>
      /\ tick' \in {[pc |-> "post", chat |-> client], [pc |-> "edit", chat |-> client],
                    [pc |-> "freeze", chat |-> client]}
      /\ tick'.pc = "post" => ids.owner = 0
  BY DEF TickStarts, OnlyTicker, processSide, NoStray
<1>2. tick' \in Ticks /\ tick'.chat = client /\ tick'.pc \in {"post", "edit", "freeze"}
  BY <1>1 DEF Ticks, TickerPcs, TickerInv, PostKinds
<1>3. PostKinds'
  BY <1>1, <1>2, TickKinds DEF TickerInv, PostKinds
<1>4. IdsPoint'
  BY <1>1, <1>2 DEF TickerInv, IdsPoint, PostKinds, OwnerPost, ChannelPost
<1>5. WillBeLeft' => WillBeLeft
  BY <1>1, <1>2 DEF WillBeLeft, PostsElsewhere, LiveElsewhere, ForgetsLive, Exists
<1>6. StraysLive'
  BY <1>1, <1>5, QuietLeft, NoneLeft DEF TickerInv, PostKinds
<1>. QED BY <1>3, <1>4, <1>6 DEF TickerInv

LEMMA TickPostsSafe == ASSUME TickerInv, TickPosts PROVE TickerInv'
<1>1. /\ UNCHANGED <<savedIds, client, helpVersion, pinSide>>
      /\ tick.pc = "post" /\ ids.owner = 0 /\ tick.chat \in Nat /\ tick.chat <= client
  BY DEF TickPosts, Ticking, OnlyTicker, processSide, TickerInv, IdsPoint, PostKinds, Ticks
<1>2. CASE /\ Sent("owner", tick.chat) /\ ids' = [ids EXCEPT !.owner = NewId]
           /\ TickGoto("postChannel") /\ NoStray
  <2>1. /\ posts' \in Seq(Posts) /\ NewId \in Nat \ {0} /\ NewId \notin DOMAIN posts
        /\ NewId \in DOMAIN posts'
        /\ \A m \in DOMAIN posts' : m \in DOMAIN posts \/ m = NewId
        /\ \A m \in DOMAIN posts : m \in DOMAIN posts' /\ posts'[m] = posts[m]
        /\ posts'[NewId].kind = "owner" /\ posts'[NewId].chat = tick.chat
    BY <1>1, <1>2, SentGrows DEF TickerInv
  <2>2. tick' \in Ticks /\ tick'.pc = "postChannel" /\ tick'.chat <= client
    BY <1>2, Ticked DEF TickerInv, TickerPcs
  <2>3. UNCHANGED strays
    BY <1>2 DEF NoStray
  <2>4. \A m \in DOMAIN posts' : posts'[m].chat <= client
    BY <1>1, <2>1 DEF TickerInv, PostKinds
  <2>5. PostKinds'
    BY <1>1, <2>1, <2>2, <2>3, <2>4, TickKinds DEF TickerInv, PostKinds
  <2>6. ids' \in TickerIds /\ ids'.owner = NewId /\ ids'.channel = ids.channel
    BY <1>2, <2>1 DEF TickerInv, IdsPoint, TickerIds
  <2>7. IdsPoint'
    BY <1>1, <2>1, <2>2, <2>6 DEF TickerInv, IdsPoint, OwnerPost, ChannelPost
  <2>8. LeftLive' \subseteq LeftLive
    BY <1>1, <2>1, <2>6 DEF LeftLive, TickerInv, PostKinds
  <2>9. WillBeLeft' => WillBeLeft
    BY <1>1, <2>1, <2>2, <2>6 DEF WillBeLeft, PostsElsewhere, LiveElsewhere, ForgetsLive
  <2>10. StraysLive'
    BY <2>3, <2>8, <2>9, NoneLeft DEF TickerInv, PostKinds
  <2>. QED BY <2>5, <2>7, <2>10 DEF TickerInv
<1>3. CASE Sent("owner", tick.chat) /\ TickEnds /\ Stray("live") /\ UNCHANGED ids
  <2>1. /\ posts' \in Seq(Posts) /\ NewId \notin DOMAIN posts
        /\ \A m \in DOMAIN posts' : m \in DOMAIN posts \/ m = NewId
        /\ \A m \in DOMAIN posts : m \in DOMAIN posts' /\ posts'[m] = posts[m]
        /\ posts'[NewId].chat = tick.chat
    BY <1>1, <1>3, SentGrows DEF TickerInv
  <2>2. tick' \in Ticks /\ tick'.pc = "idle" /\ tick'.chat <= client
    BY <1>3, TickEnded DEF TickerInv
  <2>3. strays' \in [live : Nat, pin : Nat] /\ strays'.live = strays.live + 1
        /\ strays'.live >= strays.live /\ strays'.live \in Nat
    BY <1>3, Strayed DEF TickerInv
  <2>4. \A m \in DOMAIN posts' : posts'[m].chat <= client
    BY <1>1, <2>1 DEF TickerInv, PostKinds
  <2>5. PostKinds'
    BY <1>1, <2>1, <2>2, <2>3, <2>4, TickKinds DEF TickerInv
  <2>6. IdsPoint'
    BY <1>1, <1>3, <2>1, <2>2 DEF TickerInv, IdsPoint, OwnerPost, ChannelPost
  <2>7. LeftLive' \subseteq LeftLive \union {NewId}
    BY <1>3, <2>1 DEF LeftLive
  <2>8. ~WillBeLeft'
    BY <1>1, <1>3, <2>2 DEF WillBeLeft, PostsElsewhere, LiveElsewhere, ForgetsLive
  <2>9. StraysLive'
    BY <2>3, <2>7, <2>8, OneLeft
  <2>. QED BY <2>5, <2>6, <2>9 DEF TickerInv
<1>4. CASE TickEnds /\ NoStray /\ UNCHANGED <<posts, ids>>
  <2>1. tick' \in Ticks /\ tick'.pc = "idle" /\ tick'.chat <= client /\ UNCHANGED strays
    BY <1>4, TickEnded DEF TickerInv, NoStray
  <2>2. PostKinds'
    BY <1>1, <1>4, <2>1, TickKinds DEF TickerInv, PostKinds
  <2>3. IdsPoint'
    BY <1>1, <1>4, <2>1 DEF TickerInv, IdsPoint, OwnerPost, ChannelPost
  <2>4. ~WillBeLeft'
    BY <1>1, <1>4, <2>1 DEF WillBeLeft, PostsElsewhere, LiveElsewhere, ForgetsLive
  <2>5. StraysLive'
    BY <1>4, <2>1, <2>4, QuietLeft, NoneLeft DEF TickerInv, PostKinds
  <2>. QED BY <2>2, <2>3, <2>5 DEF TickerInv
<1>. QED BY <1>2, <1>3, <1>4 DEF TickPosts

\* Steps that leave the LIVE messages of the owner as they are.
KeepsOwner ==
    /\ posts' \in Seq(Posts) /\ \A m \in DOMAIN posts' : posts'[m].chat <= client
    /\ \A m \in DOMAIN posts' : posts'[m].kind = "owner" => m \in DOMAIN posts
    /\ \A m \in DOMAIN posts : /\ m \in DOMAIN posts' /\ posts'[m].kind = posts[m].kind
                               /\ posts'[m].chat = posts[m].chat
                               /\ posts[m].kind = "owner" => posts'[m].live = posts[m].live

LEMMA SentElsewhere ==
  ASSUME PostKinds, NEW kind \in {"channel", "pinned"}, NEW chat \in Nat, chat <= client,
         Sent(kind, chat)
  PROVE  KeepsOwner /\ NewId \in DOMAIN posts' /\ posts'[NewId].kind = kind /\ NewId \in Nat
<1>1. /\ posts' \in Seq(Posts) /\ NewId \in Nat \ {0} /\ NewId \notin DOMAIN posts
      /\ NewId \in DOMAIN posts'
      /\ \A m \in DOMAIN posts' : m \in DOMAIN posts \/ m = NewId
      /\ \A m \in DOMAIN posts : m \in DOMAIN posts' /\ posts'[m] = posts[m]
      /\ posts'[NewId].kind = kind /\ posts'[NewId].chat = chat
  BY SentGrows
<1>. QED BY <1>1 DEF KeepsOwner, PostKinds

LEMMA EditedElsewhere ==
  ASSUME PostKinds, NEW id, ChannelPost(id), NEW live \in BOOLEAN, Edited(id, live)
  PROVE  KeepsOwner
<1>1. id \in DOMAIN posts /\ posts[id].kind = "channel"
  BY DEF ChannelPost
<1>2. /\ posts' \in Seq(Posts) /\ DOMAIN posts' = DOMAIN posts
      /\ \A m \in DOMAIN posts : /\ posts'[m].kind = posts[m].kind
                                 /\ posts'[m].chat = posts[m].chat
                                 /\ m # id => posts'[m].live = posts[m].live
  BY <1>1, EditedKeeps
<1>. QED BY <1>1, <1>2 DEF KeepsOwner, PostKinds

LEMMA NothingSent == ASSUME PostKinds, UNCHANGED posts PROVE KeepsOwner
  BY DEF KeepsOwner, PostKinds

LEMMA KeptIds ==
  ASSUME PostKinds, IdsPoint, KeepsOwner, UNCHANGED ids, savedIds' \in {savedIds, ids, NoIds},
         tick'.pc \notin {"post", "freeze"}
  PROVE  IdsPoint' /\ LeftLive' = LeftLive
<1>1. savedIds' \in TickerIds
  BY DEF IdsPoint, NoIds, TickerIds
<1>2. savedIds'.owner \in {savedIds.owner, ids.owner, 0}
      /\ savedIds'.channel \in {savedIds.channel, ids.channel, 0}
  BY DEF NoIds
<1>3. \A id : OwnerPost(id) => OwnerPost(id)'
  BY DEF KeepsOwner, OwnerPost
<1>4. \A id : ChannelPost(id) => ChannelPost(id)'
  BY DEF KeepsOwner, ChannelPost
<1>5. IdsPoint'
  BY <1>1, <1>2, <1>3, <1>4 DEF IdsPoint
<1>6. LeftLive' = LeftLive
  BY DEF KeepsOwner, LeftLive
<1>. QED BY <1>5, <1>6

\* A step of a tick that leaves the LIVE messages of the owner alone.
LEMMA QuietTick ==
  ASSUME TickerInv, KeepsOwner, UNCHANGED <<ids, strays, client, helpVersion, pinSide>>,
         savedIds' \in {savedIds, ids, NoIds},
         tick' \in Ticks, tick'.chat <= client,
         \/ tick'.pc \in {"idle", "persist"}
         \/ tick.pc = "freezeChannel" /\ tick'.pc = "clear"
  PROVE  TickerInv'
<1>1. PostKinds'
  BY TickKinds DEF TickerInv, KeepsOwner, PostKinds
<1>2. IdsPoint' /\ LeftLive' = LeftLive
  BY KeptIds DEF TickerInv
<1>3. ids.owner # 0 => /\ posts'[ids.owner].chat = posts[ids.owner].chat
                       /\ posts'[ids.owner].live = posts[ids.owner].live
  BY DEF TickerInv, IdsPoint, OwnerPost, KeepsOwner
<1>4. WillBeLeft' => WillBeLeft
  BY <1>3 DEF WillBeLeft, PostsElsewhere, LiveElsewhere, ForgetsLive
<1>5. StraysLive'
  BY <1>2, <1>4, NoneLeft DEF TickerInv, PostKinds
<1>. QED BY <1>1, <1>2, <1>5 DEF TickerInv

LEMMA TickPostsChannelSafe == ASSUME TickerInv, TickPostsChannel PROVE TickerInv'
<1>1. /\ UNCHANGED <<savedIds, strays, client, helpVersion, pinSide>> /\ TickGoto("persist")
      /\ tick.pc = "postChannel"
  BY DEF TickPostsChannel, Ticking, OnlyTicker, processSide, NoStray
<1>2. tick' \in Ticks /\ tick'.pc = "persist" /\ tick'.chat <= client
  BY <1>1, Ticked DEF TickerInv, TickerPcs
<1>3. CASE UNCHANGED <<posts, ids>>
  BY <1>1, <1>2, <1>3, NothingSent, QuietTick DEF TickerInv
<1>4. CASE Sent("channel", 0) /\ ids' = [ids EXCEPT !.channel = NewId]
  <2>1. /\ KeepsOwner /\ NewId \in DOMAIN posts' /\ posts'[NewId].kind = "channel"
        /\ NewId \in Nat
    BY <1>4, SentElsewhere DEF TickerInv, PostKinds
  <2>2. PostKinds'
    BY <1>1, <1>2, <2>1, TickKinds DEF TickerInv, KeepsOwner, PostKinds
  <2>3. PICK id : id = NewId
    OBVIOUS
  <2>4. ids' \in TickerIds /\ ids'.owner = ids.owner /\ ids'.channel = id
    BY <1>4, <2>1, <2>3 DEF TickerInv, IdsPoint, TickerIds
  <2>5. /\ \A k : (OwnerPost(k) => OwnerPost(k)') /\ (ChannelPost(k) => ChannelPost(k)')
        /\ ChannelPost(id)'
    BY <2>1, <2>3 DEF KeepsOwner, OwnerPost, ChannelPost
  <2>6. IdsPoint'
    BY <1>1, <1>2, <2>4, <2>5 DEF TickerInv, IdsPoint
  <2>7. LeftLive' = LeftLive
    BY <2>1, <2>4 DEF KeepsOwner, LeftLive
  <2>8. ids.owner # 0 => /\ posts'[ids.owner].chat = posts[ids.owner].chat
                         /\ posts'[ids.owner].live = posts[ids.owner].live
    BY <2>1 DEF TickerInv, IdsPoint, OwnerPost, KeepsOwner
  <2>9. WillBeLeft' => WillBeLeft
    BY <1>1, <1>2, <2>4, <2>8 DEF WillBeLeft, PostsElsewhere, LiveElsewhere, ForgetsLive
  <2>10. StraysLive'
    BY <1>1, <2>7, <2>9, NoneLeft DEF TickerInv, PostKinds
  <2>. QED BY <2>2, <2>6, <2>10 DEF TickerInv
<1>. QED BY <1>3, <1>4 DEF TickPostsChannel

LEMMA TickPersistsSafe == ASSUME TickerInv, TickPersists PROVE TickerInv'
<1>1. /\ UNCHANGED <<posts, ids, strays, client, helpVersion, pinSide>> /\ TickEnds
      /\ savedIds' \in {savedIds, ids}
  BY DEF TickPersists, OnlyTicker, processSide, NoStray
<1>2. tick' \in Ticks /\ tick'.pc = "idle" /\ tick'.chat <= client
  BY <1>1, TickEnded DEF TickerInv
<1>. QED BY <1>1, <1>2, NothingSent, QuietTick DEF TickerInv

LEMMA TickEditsChannelSafe == ASSUME TickerInv, TickEditsChannel PROVE TickerInv'
<1>1. /\ UNCHANGED <<ids, savedIds, strays, client, helpVersion, pinSide>> /\ TickGoto("persist")
  BY DEF TickEditsChannel, OnlyTicker, processSide, NoStray
<1>2. tick' \in Ticks /\ tick'.pc = "persist" /\ tick'.chat <= client
  BY <1>1, Ticked DEF TickerInv, TickerPcs
<1>3. UNCHANGED posts \/ (ids.channel # 0 /\ Edited(ids.channel, TRUE))
  BY DEF TickEditsChannel
<1>4. KeepsOwner
  BY <1>3, NothingSent, EditedElsewhere DEF TickerInv, IdsPoint
<1>. QED BY <1>1, <1>2, <1>4, QuietTick

LEMMA TickFreezesChannelSafe == ASSUME TickerInv, TickFreezesChannel PROVE TickerInv'
<1>1. /\ UNCHANGED <<ids, savedIds, strays, client, helpVersion, pinSide>> /\ TickGoto("clear")
      /\ tick.pc = "freezeChannel"
  BY DEF TickFreezesChannel, OnlyTicker, processSide, NoStray, Ticking
<1>2. tick' \in Ticks /\ tick'.pc = "clear" /\ tick'.chat <= client
  BY <1>1, Ticked DEF TickerInv, TickerPcs
<1>3. UNCHANGED posts \/ (ids.channel # 0 /\ Edited(ids.channel, FALSE))
  BY DEF TickFreezesChannel
<1>4. KeepsOwner
  BY <1>3, NothingSent, EditedElsewhere DEF TickerInv, IdsPoint
<1>. QED BY <1>1, <1>2, <1>4, QuietTick

LEMMA TickEditsSafe == ASSUME TickerInv, TickEdits PROVE TickerInv'
<1>1. /\ UNCHANGED <<ids, savedIds, strays, client, helpVersion, pinSide>> /\ tick.pc = "edit"
  BY DEF TickEdits, OnlyTicker, processSide, NoStray, Ticking
<1>2. CASE UNCHANGED posts /\ TickEnds
  <2>1. tick' \in Ticks /\ tick'.pc = "idle" /\ tick'.chat <= client
    BY <1>2, TickEnded DEF TickerInv
  <2>. QED BY <1>1, <1>2, <2>1, NothingSent, QuietTick DEF TickerInv
<1>3. CASE /\ Exists(ids.owner, tick.chat) /\ Edited(ids.owner, TRUE)
           /\ TickGoto("editChannel")
  <2>1. /\ ids.owner \in DOMAIN posts /\ posts[ids.owner].chat = tick.chat
        /\ ids.owner # 0
    BY <1>3, IdsOfPosts DEF Exists, TickerInv, PostIds
  <2>2. /\ posts' \in Seq(Posts) /\ DOMAIN posts' = DOMAIN posts
        /\ \A m \in DOMAIN posts : /\ posts'[m].kind = posts[m].kind
                                   /\ posts'[m].chat = posts[m].chat
                                   /\ m # ids.owner => posts'[m].live = posts[m].live
    BY <1>3, <2>1, EditedKeeps DEF TickerInv
  <2>3. tick' \in Ticks /\ tick'.pc = "editChannel" /\ tick'.chat <= client
    BY <1>3, Ticked DEF TickerInv, TickerPcs
  <2>4. PostKinds'
    BY <1>1, <2>2, <2>3, TickKinds DEF TickerInv, PostKinds
  <2>5. IdsPoint'
    BY <1>1, <2>2, <2>3 DEF TickerInv, IdsPoint, OwnerPost, ChannelPost
  <2>6. LeftLive' = LeftLive
    BY <1>1, <2>2 DEF LeftLive
  <2>7. WillBeLeft' => WillBeLeft
    BY <1>1, <1>3, <2>1, <2>2, <2>3 DEF WillBeLeft, PostsElsewhere, LiveElsewhere, ForgetsLive
  <2>8. StraysLive'
    BY <1>1, <2>6, <2>7, NoneLeft DEF TickerInv, PostKinds
  <2>. QED BY <2>4, <2>5, <2>8 DEF TickerInv
<1>. QED BY <1>2, <1>3 DEF TickEdits

LEMMA TickFreezesSafe == ASSUME TickerInv, TickFreezes PROVE TickerInv'
<1>1. /\ UNCHANGED <<ids, savedIds, client, helpVersion, pinSide>> /\ tick.pc = "freeze"
      /\ TickGoto("freezeChannel")
  BY DEF TickFreezes, OnlyTicker, processSide, Ticking
<1>2. tick' \in Ticks /\ tick'.pc = "freezeChannel" /\ tick'.chat <= client
  BY <1>1, Ticked DEF TickerInv, TickerPcs
<1>3. CASE Exists(ids.owner, tick.chat) /\ Edited(ids.owner, FALSE) /\ NoStray
  <2>1. /\ ids.owner \in DOMAIN posts /\ ids.owner # 0
    BY <1>3, IdsOfPosts DEF Exists, TickerInv, PostIds
  <2>2. /\ posts' \in Seq(Posts) /\ DOMAIN posts' = DOMAIN posts
        /\ \A m \in DOMAIN posts : /\ posts'[m].kind = posts[m].kind
                                   /\ posts'[m].chat = posts[m].chat
                                   /\ m # ids.owner => posts'[m].live = posts[m].live
        /\ posts'[ids.owner].live = FALSE
    BY <1>3, <2>1, EditedKeeps DEF TickerInv
  <2>3. PostKinds'
    BY <1>1, <1>2, <1>3, <2>2, TickKinds DEF TickerInv, PostKinds, NoStray
  <2>4. IdsPoint'
    BY <1>1, <1>2, <2>2 DEF TickerInv, IdsPoint, OwnerPost, ChannelPost
  <2>5. LeftLive' = LeftLive
    BY <1>1, <2>2 DEF LeftLive
  <2>6. ~WillBeLeft'
    BY <1>1, <1>2, <2>2 DEF WillBeLeft, PostsElsewhere, LiveElsewhere, ForgetsLive
  <2>7. StraysLive'
    BY <1>3, <2>5, <2>6, NoneLeft DEF TickerInv, PostKinds, NoStray
  <2>. QED BY <2>3, <2>4, <2>7 DEF TickerInv
<1>4. CASE UNCHANGED posts /\ ~Exists(ids.owner, tick.chat) /\ NoStray
  <2>1. PostKinds'
    BY <1>1, <1>2, <1>4, TickKinds DEF TickerInv, PostKinds, NoStray
  <2>2. IdsPoint' /\ LeftLive' = LeftLive
    BY <1>1, <1>2, <1>4, NothingSent, KeptIds DEF TickerInv
  <2>3. ids.owner # 0 => posts[ids.owner].chat < tick.chat
    <3>1. SUFFICES ASSUME ids.owner # 0 PROVE posts[ids.owner].chat < tick.chat
      OBVIOUS
    <3>2. /\ ids.owner \in DOMAIN posts /\ posts[ids.owner].chat <= tick.chat
          /\ posts[ids.owner].chat # tick.chat
      BY <1>1, <1>4, <3>1 DEF TickerInv, IdsPoint, OwnerPost, Exists
    <3>3. posts[ids.owner] \in Posts
      BY <3>2, IdsOfPosts, ElementOfSeq DEF TickerInv, PostKinds, PostIds
    <3>4. posts[ids.owner].chat \in Nat /\ tick.chat \in Nat
      BY <3>3 DEF Posts, TickerInv, PostKinds, Ticks
    <3>. QED BY <3>2, <3>4
  <2>4. ids.owner # 0 => posts[ids.owner].chat # client
    BY <2>3 DEF TickerInv, PostKinds, Ticks
  <2>5. WillBeLeft' => WillBeLeft
    BY <1>1, <1>2, <1>4, <2>4 DEF WillBeLeft, PostsElsewhere, LiveElsewhere, ForgetsLive
  <2>6. StraysLive'
    BY <1>4, <2>2, <2>5, NoneLeft DEF TickerInv, PostKinds, NoStray
  <2>. QED BY <2>1, <2>2, <2>6 DEF TickerInv
<1>5. CASE UNCHANGED posts /\ Stray("live")
  <2>1. strays' \in [live : Nat, pin : Nat] /\ strays'.live = strays.live + 1
        /\ strays'.live >= strays.live /\ strays'.live \in Nat
    BY <1>5, Strayed DEF TickerInv
  <2>2. PostKinds'
    BY <1>1, <1>2, <1>5, <2>1, TickKinds DEF TickerInv, PostKinds
  <2>3. IdsPoint' /\ LeftLive' = LeftLive
    BY <1>1, <1>2, <1>5, NothingSent, KeptIds DEF TickerInv
  <2>4. strays'.live >= strays.live + 1
    BY <2>1
  <2>5. StraysLive'
    BY <2>1, <2>3, <2>4, NoneLeft
  <2>. QED BY <2>2, <2>3, <2>5 DEF TickerInv
<1>. QED BY <1>3, <1>4, <1>5 DEF TickFreezes

\* The message that is forgotten was frozen, or its stray is counted.
LEMMA TickClearsSafe == ASSUME TickerInv, TickClears PROVE TickerInv'
<1>1. /\ UNCHANGED <<posts, strays, client, helpVersion, pinSide>> /\ tick.pc = "clear"
      /\ ids' = NoIds /\ savedIds' \in {savedIds, NoIds} /\ TickEnds
  BY DEF TickClears, OnlyTicker, processSide, Ticking, NoStray
<1>2. tick' \in Ticks /\ tick'.pc = "idle" /\ tick'.chat <= client
  BY <1>1, TickEnded DEF TickerInv
<1>3. PostKinds'
  BY <1>1, <1>2, TickKinds DEF TickerInv, PostKinds
<1>4. ids'.owner = 0 /\ ids'.channel = 0 /\ ids' \in TickerIds
  BY <1>1 DEF NoIds, TickerIds
<1>5. IdsPoint'
  BY <1>1, <1>2, <1>4 DEF TickerInv, IdsPoint, OwnerPost, ChannelPost, NoIds
<1>6. ~WillBeLeft'
  BY <1>2, <1>4 DEF WillBeLeft, PostsElsewhere, LiveElsewhere, ForgetsLive
<1>7. CASE ids.owner # 0 /\ posts[ids.owner].live
  <2>1. LeftLive' \subseteq LeftLive \union {ids.owner}
    BY <1>1 DEF LeftLive
  <2>2. WillBeLeft
    BY <1>1, <1>7 DEF WillBeLeft, ForgetsLive
  <2>3. StraysLive'
    <3>1. strays'.live = strays.live /\ strays.live \in Nat
      BY <1>1 DEF TickerInv, PostKinds
    <3>2. strays'.live \in Nat /\ strays'.live >= strays.live
      BY <3>1
    <3>. QED BY <1>6, <2>1, <2>2, <3>2, OneLeft
  <2>. QED BY <1>3, <1>5, <2>3 DEF TickerInv
<1>8. CASE ~(ids.owner # 0 /\ posts[ids.owner].live)
  <2>1. LeftLive' \subseteq LeftLive
    BY <1>1, <1>8, IdsOfPosts DEF LeftLive, TickerInv, PostIds
  <2>2. StraysLive'
    BY <1>1, <1>6, <2>1, NoneLeft DEF TickerInv, PostKinds
  <2>. QED BY <1>3, <1>5, <2>2 DEF TickerInv
<1>. QED BY <1>7, <1>8

\* The threads of the pinned message.
PinStrayed == strays' \in [live : Nat, pin : Nat] /\ strays'.live = strays.live

LEMMA QuietPin ==
  ASSUME TickerInv, KeepsOwner, UNCHANGED <<ids, savedIds, tick, client>>, PinStrayed,
         pinned' \in [id : Nat, version : Nat], helpVersion' \in Nat,
         pinner' \in PinStates, pinner'.chat <= client,
         orphan' \in PinStates, orphan'.chat <= client
  PROVE  TickerInv'
<1>1. PostKinds'
  BY DEF TickerInv, PostKinds, KeepsOwner, PinStrayed
<1>2. \A k : (OwnerPost(k) => OwnerPost(k)') /\ (ChannelPost(k) => ChannelPost(k)')
  BY DEF KeepsOwner, OwnerPost, ChannelPost
<1>3. ids.owner # 0 => /\ ids.owner \in DOMAIN posts /\ ids.owner \in DOMAIN posts'
                       /\ posts'[ids.owner].chat = posts[ids.owner].chat
                       /\ posts'[ids.owner].live = posts[ids.owner].live
  BY DEF TickerInv, IdsPoint, OwnerPost, KeepsOwner
<1>4. IdsPoint'
  BY <1>2, <1>3 DEF TickerInv, IdsPoint
<1>5. LeftLive' = LeftLive
  BY DEF KeepsOwner, LeftLive
<1>6. WillBeLeft' => WillBeLeft
  BY <1>3 DEF WillBeLeft, PostsElsewhere, LiveElsewhere, ForgetsLive, Exists
<1>7. StraysLive'
  BY <1>5, <1>6, NoneLeft DEF TickerInv, PostKinds, PinStrayed
<1>. QED BY <1>1, <1>4, <1>7 DEF TickerInv

LEMMA PinStepKeeps ==
  ASSUME PostKinds, NEW p \in PinStates, p.chat <= client, NEW next, PinStep(p, next)
  PROVE  KeepsOwner /\ PinStrayed /\ pinned' \in [id : Nat, version : Nat]
<1>1. UNCHANGED posts \/ Sent("pinned", p.chat)
  BY DEF PinStep, PinSends, PinEdits, PinSaves, PinVersion
<1>2. KeepsOwner
  BY <1>1, NothingSent, SentElsewhere DEF PinStates
<1>3. UNCHANGED strays \/ Stray("pin")
  BY DEF PinStep, PinSends, PinEdits, PinSaves, PinVersion, NoStray
<1>4. PinStrayed
  BY <1>3 DEF PinStrayed, PostKinds, Stray
<1>5. \/ UNCHANGED pinned \/ pinned' = [pinned EXCEPT !.id = 0]
      \/ pinned' = [pinned EXCEPT !.id = p.id] \/ pinned' = [pinned EXCEPT !.version = helpVersion]
  BY DEF PinStep, PinSends, PinEdits, PinSaves, PinVersion
<1>6. pinned' \in [id : Nat, version : Nat]
  <2>1. pinned \in [id : Nat, version : Nat] /\ helpVersion \in Nat /\ p.id \in Nat
    BY DEF PostKinds, PinStates
  <2>. QED BY <1>5, <2>1
<1>. QED BY <1>2, <1>4, <1>6

PinNexts(p) == {NoPin, [p EXCEPT !.pc = "version"], [p EXCEPT !.pc = "save", !.id = NewId]}

LEMMA PinNextKinds ==
  ASSUME PostKinds, NEW p \in PinStates, p.chat <= client, NEW next \in PinNexts(p)
  PROVE  next \in PinStates /\ next.chat <= client
<1>1. NewId \in Nat /\ 0 <= client
  BY IdsOfPosts DEF NewId, PostKinds
<1>2. CASE next = NoPin
  BY <1>1, <1>2 DEF NoPin, PinStates
<1>3. CASE next = [p EXCEPT !.pc = "version"]
  BY <1>3 DEF PinStates
<1>4. CASE next = [p EXCEPT !.pc = "save", !.id = NewId]
  <2>. HIDE DEF NewId
  <2>. QED BY <1>1, <1>4 DEF PinStates
<1>. QED BY <1>2, <1>3, <1>4 DEF PinNexts

LEMMA PinnedLeavesTicker == ASSUME TickerInv, PinnedStep PROVE TickerInv'
<1>1. UNCHANGED <<ids, savedIds, tick, client, helpVersion>>
  BY DEF PinnedStep, PinStarts, EditorPins, OrphanPins, OnlyPin, tickerSide, processSide
<1>2. /\ pinner \in PinStates /\ pinner.chat <= client /\ orphan \in PinStates
      /\ orphan.chat <= client /\ client \in Nat /\ pinned.id \in Nat /\ helpVersion \in Nat
  BY DEF TickerInv, PostKinds
<1>3. CASE PinStarts
  <2>1. UNCHANGED <<posts, strays, orphan, pinned>>
    BY <1>3 DEF PinStarts, NoStray
  <2>2. pinner' \in {[pc |-> "send", chat |-> client, id |-> 0],
                     [pc |-> "edit", chat |-> client, id |-> pinned.id]}
    BY <1>3 DEF PinStarts
  <2>3. pinner' \in PinStates /\ pinner'.chat <= client
    BY <1>2, <2>2 DEF PinStates
  <2>4. KeepsOwner /\ PinStrayed /\ pinned' \in [id : Nat, version : Nat]
    BY <2>1, NothingSent DEF TickerInv, PostKinds, PinStrayed
  <2>. QED BY <1>1, <1>2, <2>1, <2>3, <2>4, QuietPin
<1>4. CASE EditorPins
  <2>1. PICK next \in PinNexts(pinner) :
           PinStep(pinner, next) /\ pinner' = next /\ UNCHANGED orphan
    BY <1>4 DEF EditorPins, PinNexts
  <2>2. /\ KeepsOwner /\ PinStrayed /\ pinned' \in [id : Nat, version : Nat]
        /\ pinner' \in PinStates /\ pinner'.chat <= client
    BY <1>2, <2>1, PinStepKeeps, PinNextKinds DEF TickerInv
  <2>. QED BY <1>1, <1>2, <2>1, <2>2, QuietPin
<1>5. CASE OrphanPins
  <2>1. PICK next \in PinNexts(orphan) :
           PinStep(orphan, next) /\ orphan' = next /\ UNCHANGED pinner
    BY <1>5 DEF OrphanPins, PinNexts
  <2>2. /\ KeepsOwner /\ PinStrayed /\ pinned' \in [id : Nat, version : Nat]
        /\ orphan' \in PinStates /\ orphan'.chat <= client
    BY <1>2, <2>1, PinStepKeeps, PinNextKinds DEF TickerInv
  <2>. QED BY <1>1, <1>2, <2>1, <2>2, QuietPin
<1>. QED BY <1>3, <1>4, <1>5 DEF PinnedStep

\* A new chat counts a stray for the message that stays behind in the old one.
LEMMA ApplyLeavesTicker == ASSUME TickerInv, ApplyTelegram PROVE TickerInv'
<1>1. /\ UNCHANGED <<posts, ids, savedIds, tick, pinned, helpVersion>>
      /\ client' \in {client, client + 1} /\ orphan' = pinner /\ pinner' = NoPin
      /\ strays' = [live |-> strays.live + (IF client' # client THEN 1 ELSE 0),
                    pin |-> strays.pin + (IF client' # client THEN 1 ELSE 0)
                            + (IF pinner.pc # "idle" THEN 1 ELSE 0)]
  BY DEF ApplyTelegram, tickerSide
<1>2. strays' \in [live : Nat, pin : Nat] /\ client' \in Nat \ {0} /\ client <= client'
      /\ strays'.live >= strays.live /\ (client' # client => strays'.live >= strays.live + 1)
  BY <1>1 DEF TickerInv, PostKinds
<1>3. \A m \in DOMAIN posts : posts[m].chat <= client'
  <2>1. \A m \in DOMAIN posts : posts[m] \in Posts
    BY IdsOfPosts, ElementOfSeq DEF TickerInv, PostKinds, PostIds
  <2>2. \A m \in DOMAIN posts : posts[m].chat \in Nat /\ posts[m].chat <= client
    BY <2>1 DEF Posts, TickerInv, PostKinds
  <2>. QED BY <1>2, <2>2 DEF TickerInv, PostKinds
<1>4. /\ tick.chat <= client' /\ pinner.chat <= client' /\ NoPin.chat <= client'
      /\ NoPin \in PinStates
  BY <1>2 DEF TickerInv, PostKinds, Ticks, PinStates, NoPin
<1>5. PostKinds'
  BY <1>1, <1>2, <1>3, <1>4 DEF TickerInv, PostKinds
<1>6. IdsPoint'
  BY <1>1 DEF TickerInv, IdsPoint, OwnerPost, ChannelPost
<1>7. LeftLive' = LeftLive
  BY <1>1 DEF LeftLive
<1>8. client' = client => (WillBeLeft' => WillBeLeft)
  BY <1>1 DEF WillBeLeft, PostsElsewhere, LiveElsewhere, ForgetsLive, Exists
<1>9. strays'.live \in Nat
  BY <1>2
<1>10. StraysLive'
  BY <1>2, <1>7, <1>8, <1>9, NoneLeft
<1>. QED BY <1>5, <1>6, <1>10 DEF TickerInv

\* The messages that a restart forgets.
Unsaved == {p \in {1, 2} : InHand(IF p = 1 THEN pinner ELSE orphan)}

LEMMA UnsavedCount == IsFiniteSet(Unsaved) /\ Cardinality(Unsaved) \in Nat
<1>1. IsFiniteSet({1}) /\ IsFiniteSet({1, 2})
  <2>1. IsFiniteSet({1})
    BY FS_Singleton
  <2>2. IsFiniteSet({1} \union {2})
    BY <2>1, FS_AddElement
  <2>3. {1} \union {2} = {1, 2}
    OBVIOUS
  <2>. QED BY <2>1, <2>2, <2>3
<1>2. Unsaved \subseteq {1, 2}
  BY DEF Unsaved
<1>. QED BY <1>1, <1>2, CountsKeep

\* The ids that are read back are those of before, or a stray is counted for the
\* message that was known only to the process.
LEMMA RestartLeavesTicker == ASSUME TickerInv, TelegramRestart PROVE TickerInv'
<1>1. /\ UNCHANGED <<posts, savedIds, pinned, client>>
      /\ helpVersion' \in {helpVersion, helpVersion + 1}
      /\ ids' = (IF savedIds.owner = 0 THEN NoIds ELSE savedIds)
      /\ tick' = NoTick /\ pinner' = NoPin /\ orphan' = NoPin
  BY DEF TelegramRestart
<1>. DEFINE unsaved == Cardinality(Unsaved)
<1>2. strays' = [live |-> strays.live + (IF ids'.owner # ids.owner THEN 1 ELSE 0),
                 pin |-> strays.pin + unsaved]
  BY DEF TelegramRestart, Unsaved
<1>3. unsaved \in Nat
  BY UnsavedCount
<1>. HIDE DEF unsaved
<1>4. /\ strays' \in [live : Nat, pin : Nat] /\ strays'.live \in Nat /\ strays.live \in Nat
      /\ strays'.live >= strays.live
      /\ ids'.owner # ids.owner => strays'.live = strays.live + 1
      /\ ids'.owner # ids.owner => strays'.live >= strays.live + 1
  BY <1>2, <1>3 DEF TickerInv, PostKinds
<1>5. tick' \in Ticks /\ tick'.pc = "idle" /\ tick'.chat <= client /\ NoPin \in PinStates
      /\ NoPin.chat <= client
  BY <1>1 DEF Ticks, TickerPcs, NoTick, NoPin, PinStates, TickerInv, PostKinds
<1>6. PostKinds'
  BY <1>1, <1>4, <1>5 DEF TickerInv, PostKinds
<1>7. /\ ids' \in TickerIds /\ (ids'.owner # 0 => ids' = savedIds)
      /\ (ids'.channel # 0 => ids' = savedIds)
  BY <1>1 DEF TickerInv, IdsPoint, NoIds, TickerIds
<1>8. IdsPoint'
  BY <1>1, <1>5, <1>7 DEF TickerInv, IdsPoint, OwnerPost, ChannelPost
<1>9. LeftLive' \subseteq LeftLive \union {ids.owner}
  BY <1>1 DEF LeftLive
<1>10. CASE ids'.owner = ids.owner
  <2>1. LeftLive' = LeftLive
    BY <1>1, <1>10 DEF LeftLive
  <2>2. WillBeLeft' => WillBeLeft
    BY <1>1, <1>5, <1>10 DEF WillBeLeft, PostsElsewhere, LiveElsewhere, ForgetsLive
  <2>3. StraysLive'
    BY <1>4, <2>1, <2>2, NoneLeft
  <2>. QED BY <1>6, <1>8, <2>3 DEF TickerInv
<1>11. CASE ids'.owner # ids.owner /\ ~WillBeLeft'
  <2>1. StraysLive'
    BY <1>4, <1>9, <1>11, OneLeft
  <2>. QED BY <1>6, <1>8, <2>1 DEF TickerInv
<1>12. CASE ids'.owner # ids.owner /\ WillBeLeft'
  <2>1. ids'.owner # 0 /\ posts[ids'.owner].live
    BY <1>1, <1>5, <1>12 DEF WillBeLeft, PostsElsewhere, LiveElsewhere, ForgetsLive
  <2>2. OwnerPost(savedIds.owner) /\ ids' = savedIds
    BY <1>7, <2>1 DEF TickerInv, IdsPoint
  <2>3. savedIds.owner \in LeftLive
    BY <1>12, <2>1, <2>2 DEF OwnerPost, LeftLive
  <2>4. LeftLive' \subseteq (LeftLive \ {savedIds.owner}) \union {ids.owner}
    BY <1>1, <2>2 DEF LeftLive
  <2>5. IsFiniteSet(LeftLive) /\ Cardinality(LeftLive) \in Nat
    BY LeftCount DEF TickerInv
  <2>6. Cardinality(LeftLive') <= Cardinality(LeftLive) /\ Cardinality(LeftLive') \in Nat
    BY <2>3, <2>4, <2>5, CountsSwap
  <2>7. Cardinality(LeftLive) <= strays.live
    BY DEF TickerInv, StraysLive
  <2>8. Cardinality(LeftLive') + 1 <= strays'.live /\ Cardinality(LeftLive') <= strays'.live
    BY <1>4, <1>12, <2>5, <2>6, <2>7
  <2>9. StraysLive'
    BY <2>8 DEF StraysLive
  <2>. QED BY <1>6, <1>8, <2>9 DEF TickerInv
<1>. QED BY <1>10, <1>11, <1>12

LEMMA TickerStart == ASSUME TelegramInit PROVE TickerInv
<1>1. posts = <<>> /\ client = 1 /\ ids = NoIds /\ savedIds = NoIds /\ tick = NoTick
      /\ pinner = NoPin /\ orphan = NoPin /\ strays = [live |-> 0, pin |-> 0]
      /\ pinned = [id |-> 0, version |-> 0] /\ helpVersion = 1
  BY DEF TelegramInit
<1>2. NoIds \in TickerIds /\ NoTick \in Ticks /\ NoPin \in PinStates
      /\ posts \in Seq(Posts) /\ DOMAIN posts = {}
  BY <1>1, EmptySeq DEF NoIds, TickerIds, NoTick, Ticks, TickerPcs, NoPin, PinStates
<1>3. PostKinds
  BY <1>1, <1>2 DEF PostKinds, NoTick, NoPin
<1>4. IdsPoint
  BY <1>1, <1>2 DEF IdsPoint, NoIds, NoTick
<1>5. LeftLive = {} /\ ~WillBeLeft
  BY <1>1, <1>2 DEF LeftLive, WillBeLeft, PostsElsewhere, LiveElsewhere, ForgetsLive, NoIds, NoTick
<1>6. StraysLive
  BY <1>1, <1>5, FS_EmptySet DEF StraysLive
<1>. QED BY <1>3, <1>4, <1>6 DEF TickerInv

LEMMA TickerMoves == ASSUME TickerInv, [TelegramNext]_telegramVars PROVE TickerInv'
<1>1. CASE UNCHANGED <<posts, tickerSide, pinSide, client, helpVersion, strays>>
  <2>1. KeepsOwner /\ PinStrayed
    BY <1>1, NothingSent DEF TickerInv, PostKinds, PinStrayed
  <2>. QED BY <1>1, <2>1, QuietPin DEF TickerInv, PostKinds, tickerSide, pinSide
<1>2. CASE PollerStep \/ BasketOpensOrCloses \/ UpdateArrives \/ UNCHANGED telegramVars
  BY <1>1, <1>2
     DEF PollerStep, PollAsks, PollHandles, BatchEnds, BasketOpensOrCloses, UpdateArrives,
         OnlyPoller, processSide, NoStray, telegramVars, tickerSide, pinSide
<1>. QED
  BY <1>2, TickStartsSafe, TickPostsSafe, TickPostsChannelSafe, TickPersistsSafe, TickEditsSafe,
     TickEditsChannelSafe, TickFreezesSafe, TickFreezesChannelSafe, TickClearsSafe,
     PinnedLeavesTicker, ApplyLeavesTicker, RestartLeavesTicker DEF TelegramNext, TickerStep

-----------------------------------------------------------------------------
(* The pinned message                                                      *)

PinPoint ==
    /\ pinner.pc # "idle" => pinner.chat = client
    /\ pinner.pc = "save" => Exists(pinner.id, pinner.chat)
    /\ orphan.pc = "save" => Exists(orphan.id, orphan.chat)

\* The pinned messages; whether the editor has one, or is about to; and what the
\* thread that was left behind may still cost: a message of its own, and one that
\* the editor sends because that thread saves a message of another chat or
\* forgets the present one.
Pins == {m \in DOMAIN posts : posts[m].kind = "pinned"}
Current == pinned.id # 0 /\ Exists(pinned.id, client)
Holds == \/ pinner.pc = "save"
         \/ pinner.pc = "edit" /\ Exists(pinner.id, client) /\ Current
         \/ pinner.pc \in {"idle", "version"} /\ Current
Owes == IF orphan.pc = "send" THEN (IF orphan.chat = client THEN 1 ELSE 2)
        ELSE IF orphan.pc = "edit" \/ (orphan.pc = "save" /\ orphan.chat # client) THEN 1
        ELSE 0
StraysPins == /\ Cardinality(Pins) + Owes <= strays.pin + 1
              /\ ~Holds => Cardinality(Pins) + Owes <= strays.pin

PinInv == PinPoint /\ StraysPins

LEMMA PinsCount == ASSUME PostKinds PROVE IsFiniteSet(Pins) /\ Cardinality(Pins) \in Nat
<1>1. Pins \subseteq 1..Len(posts) /\ Len(posts) \in Int /\ 1 \in Int
  BY IdsOfPosts DEF Pins, PostIds
<1>2. IsFiniteSet(1..Len(posts))
  BY <1>1, FS_Interval
<1>. QED BY <1>1, <1>2, CountsKeep

\* The numbers of the count before a step.
LEMMA PinNumbers ==
  ASSUME TickerInv
  PROVE  Cardinality(Pins) \in Nat /\ Owes \in 0..2 /\ strays.pin \in Nat
  BY PinsCount DEF TickerInv, PostKinds, Owes

\* Messages keep their chats and kinds, and none is pinned.
KeepsPins ==
    /\ \A m \in DOMAIN posts' : posts'[m].kind = "pinned" => m \in DOMAIN posts
    /\ \A m \in DOMAIN posts : /\ m \in DOMAIN posts' /\ posts'[m].kind = posts[m].kind
                               /\ posts'[m].chat = posts[m].chat

LEMMA KeptPins ==
  ASSUME TickerInv, PinInv, KeepsPins, UNCHANGED <<pinSide, client>>, strays'.pin = strays.pin
  PROVE  PinInv'
<1>1. UNCHANGED <<pinned, pinner, orphan, client>>
  BY DEF pinSide
<1>2. \A id, chat : Exists(id, chat) => Exists(id, chat)'
  BY DEF KeepsPins, Exists
<1>3. PinPoint'
  BY <1>1, <1>2 DEF PinInv, PinPoint
<1>4. Pins' = Pins
  BY DEF KeepsPins, Pins
<1>5. Owes' = Owes /\ (Holds => Holds')
  BY <1>1, <1>2 DEF Owes, Holds, Current
<1>6. StraysPins'
  BY <1>4, <1>5, PinNumbers DEF PinInv, StraysPins
<1>. QED BY <1>3, <1>6 DEF PinInv

LEMMA TickerKeepsPins == ASSUME TickerInv, TickerStep PROVE KeepsPins /\ strays'.pin = strays.pin
<1>1. \/ UNCHANGED posts
      \/ Sent("owner", tick.chat) \/ Sent("channel", 0)
      \/ Exists(ids.owner, tick.chat) /\ (Edited(ids.owner, TRUE) \/ Edited(ids.owner, FALSE))
      \/ ids.channel # 0 /\ (Edited(ids.channel, TRUE) \/ Edited(ids.channel, FALSE))
  <2>1. CASE TickStarts \/ TickPersists \/ TickClears
    BY <2>1 DEF TickStarts, TickPersists, TickClears
  <2>2. CASE TickPosts \/ TickPostsChannel
    BY <2>2 DEF TickPosts, TickPostsChannel
  <2>3. CASE TickEdits \/ TickFreezes
    BY <2>3 DEF TickEdits, TickFreezes
  <2>4. CASE TickEditsChannel \/ TickFreezesChannel
    BY <2>4 DEF TickEditsChannel, TickFreezesChannel
  <2>. QED BY <2>1, <2>2, <2>3, <2>4 DEF TickerStep
<1>2. ASSUME UNCHANGED posts PROVE KeepsPins
  BY <1>2 DEF KeepsPins
<1>3. ASSUME NEW kind \in {"owner", "channel"}, NEW chat \in Nat, Sent(kind, chat)
      PROVE  KeepsPins
  <2>1. /\ \A m \in DOMAIN posts' : m \in DOMAIN posts \/ m = NewId
        /\ \A m \in DOMAIN posts : m \in DOMAIN posts' /\ posts'[m] = posts[m]
        /\ posts'[NewId].kind = kind
    BY <1>3, SentGrows DEF TickerInv
  <2>. QED BY <1>3, <2>1 DEF KeepsPins
<1>4. ASSUME NEW id \in DOMAIN posts, NEW live \in BOOLEAN, Edited(id, live) PROVE KeepsPins
  <2>1. /\ DOMAIN posts' = DOMAIN posts
        /\ \A m \in DOMAIN posts : /\ posts'[m].kind = posts[m].kind
                                   /\ posts'[m].chat = posts[m].chat
    BY <1>4, EditedKeeps DEF TickerInv
  <2>. QED BY <2>1 DEF KeepsPins
<1>5. tick.chat \in Nat /\ (ids.channel # 0 => ids.channel \in DOMAIN posts)
  BY DEF TickerInv, PostKinds, Ticks, IdsPoint, ChannelPost
<1>6. KeepsPins
  BY <1>1, <1>2, <1>3, <1>4, <1>5 DEF Exists
<1>7. NoStray \/ Stray("live")
  BY DEF TickerStep, TickStarts, TickPosts, TickPostsChannel, TickPersists, TickEdits,
         TickEditsChannel, TickFreezes, TickFreezesChannel, TickClears
<1>8. strays'.pin = strays.pin
  BY <1>7 DEF NoStray, Stray, TickerInv, PostKinds
<1>. QED BY <1>6, <1>8

\* A pinned message that is sent, and one that is not.
LEMMA PinSent ==
  ASSUME TickerInv, NEW chat \in Nat, Sent("pinned", chat)
  PROVE  /\ NewId \in DOMAIN posts' /\ NewId # 0 /\ posts'[NewId].chat = chat
         /\ \A id, c : Exists(id, c) => Exists(id, c)'
         /\ Cardinality(Pins') <= Cardinality(Pins) + 1 /\ Cardinality(Pins') \in Nat
<1>1. /\ NewId \in Nat \ {0} /\ NewId \in DOMAIN posts' /\ posts'[NewId].chat = chat
      /\ \A m \in DOMAIN posts' : m \in DOMAIN posts \/ m = NewId
      /\ \A m \in DOMAIN posts : m \in DOMAIN posts' /\ posts'[m] = posts[m]
  BY SentGrows DEF TickerInv
<1>2. Pins' \subseteq Pins \union {NewId}
  BY <1>1 DEF Pins
<1>3. Cardinality(Pins') <= Cardinality(Pins) + 1 /\ Cardinality(Pins') \in Nat
  BY <1>2, PinsCount, CountsOneMore DEF TickerInv
<1>. QED BY <1>1, <1>3 DEF Exists

LEMMA PinUnsent ==
  ASSUME UNCHANGED posts PROVE Pins' = Pins /\ \A id, c : Exists(id, c) <=> Exists(id, c)'
  BY DEF Pins, Exists

LEMMA PinStrays ==
  ASSUME TickerInv, Stray("pin") PROVE strays'.pin = strays.pin + 1
  BY DEF TickerInv, PostKinds, Stray

\* The ways a step of a thread can end.
Posted(p, next) == /\ Sent("pinned", p.chat) /\ next = [p EXCEPT !.pc = "save", !.id = NewId]
                   /\ NoStray /\ UNCHANGED pinned
PostLost(p, next) == Sent("pinned", p.chat) /\ next = NoPin /\ Stray("pin") /\ UNCHANGED pinned
PostFailed(next) == next = NoPin /\ NoStray /\ UNCHANGED <<posts, pinned>>
EditDone(p, next) == /\ Exists(p.id, p.chat) /\ next = [p EXCEPT !.pc = "version"]
                     /\ NoStray /\ UNCHANGED <<posts, pinned>>
EditMisses(p, next) == /\ ~Exists(p.id, p.chat) /\ next = NoPin /\ NoStray
                       /\ pinned' = [pinned EXCEPT !.id = 0] /\ UNCHANGED posts
EditFails(p, next) == /\ Exists(p.id, p.chat) /\ next = NoPin /\ Stray("pin")
                      /\ pinned' = [pinned EXCEPT !.id = 0] /\ UNCHANGED posts
PinSaved(p, next) == /\ next = [p EXCEPT !.pc = "version"] /\ pinned' = [pinned EXCEPT !.id = p.id]
                     /\ NoStray /\ UNCHANGED posts
PinUnsaved(next) == next = NoPin /\ Stray("pin") /\ UNCHANGED <<posts, pinned>>
VersionTried(next) == /\ next = NoPin /\ NoStray /\ UNCHANGED posts
                      /\ pinned' \in {pinned, [pinned EXCEPT !.version = helpVersion]}

LEMMA PinStepCases ==
  ASSUME NEW p, NEW next, PinStep(p, next)
  PROVE  \/ p.pc = "send" /\ (Posted(p, next) \/ PostLost(p, next) \/ PostFailed(next))
         \/ p.pc = "edit" /\ (EditDone(p, next) \/ EditMisses(p, next) \/ EditFails(p, next))
         \/ p.pc = "save" /\ (PinSaved(p, next) \/ PinUnsaved(next))
         \/ p.pc = "version" /\ VersionTried(next)
<1>1. CASE PinSends(p, next)
  BY <1>1 DEF PinSends, Posted, PostLost, PostFailed
<1>2. CASE PinEdits(p, next)
  BY <1>2 DEF PinEdits, EditDone, EditMisses, EditFails
<1>3. CASE PinSaves(p, next)
  BY <1>3 DEF PinSaves, PinSaved, PinUnsaved
<1>4. CASE PinVersion(p, next)
  BY <1>4 DEF PinVersion, VersionTried
<1>. QED BY <1>1, <1>2, <1>3, <1>4 DEF PinStep

\* The editor.
LEMMA EditorSafe == ASSUME TickerInv, PinInv, EditorPins PROVE PinInv'
<1>1. PICK next \in PinNexts(pinner) : PinStep(pinner, next) /\ pinner' = next /\ UNCHANGED orphan
  BY DEF EditorPins, PinNexts
<1>2. UNCHANGED <<client, helpVersion>>
  BY DEF EditorPins, OnlyPin, processSide
<1>3. /\ pinner \in PinStates /\ pinned \in [id : Nat, version : Nat] /\ pinner.chat \in Nat
      /\ (pinner.pc # "idle" => pinner.chat = client) /\ pinner.id \in Nat
  BY DEF TickerInv, PostKinds, PinInv, PinPoint, PinStates
<1>4. Owes' = Owes
  BY <1>1, <1>2 DEF Owes
<1>5. /\ Cardinality(Pins) \in Nat /\ Owes \in Nat /\ strays.pin \in Nat
      /\ Cardinality(Pins) + Owes <= strays.pin + 1
      /\ ~Holds => Cardinality(Pins) + Owes <= strays.pin
  BY PinNumbers DEF PinInv, StraysPins
<1>6. CASE pinner.pc = "send" /\ Posted(pinner, next)
  <2>1. PICK id : id = NewId
    OBVIOUS
  <2>2. /\ pinner' = [pinner EXCEPT !.pc = "save", !.id = id] /\ UNCHANGED strays
        /\ Sent("pinned", pinner.chat)
    BY <1>1, <1>6, <2>1 DEF Posted, NoStray
  <2>3. /\ pinner'.pc = "save" /\ pinner'.id = id /\ pinner'.chat = pinner.chat
    BY <1>3, <2>2 DEF PinStates
  <2>4. /\ id \in DOMAIN posts' /\ posts'[id].chat = pinner.chat
        /\ \A k, c : Exists(k, c) => Exists(k, c)'
        /\ Cardinality(Pins') <= Cardinality(Pins) + 1 /\ Cardinality(Pins') \in Nat
    BY <1>3, <2>1, <2>2, PinSent
  <2>5. PinPoint'
    BY <1>1, <1>2, <1>3, <1>6, <2>3, <2>4 DEF PinInv, PinPoint, Exists
  <2>6. ~Holds /\ Holds'
    BY <1>6, <2>3 DEF Holds
  <2>7. StraysPins'
    BY <1>4, <1>5, <2>2, <2>4, <2>6 DEF StraysPins
  <2>. QED BY <2>5, <2>7 DEF PinInv
<1>7. CASE pinner.pc = "send" /\ PostLost(pinner, next)
  <2>1. /\ pinner'.pc = "idle" /\ strays'.pin = strays.pin + 1
    BY <1>1, <1>7, PinStrays DEF PostLost, NoPin
  <2>2. /\ \A k, c : Exists(k, c) => Exists(k, c)'
        /\ Cardinality(Pins') <= Cardinality(Pins) + 1 /\ Cardinality(Pins') \in Nat
    BY <1>3, <1>7, PinSent DEF PostLost
  <2>3. PinPoint'
    BY <1>1, <2>1, <2>2 DEF PinInv, PinPoint
  <2>4. ~Holds
    BY <1>7 DEF Holds
  <2>5. StraysPins'
    BY <1>4, <1>5, <2>1, <2>2, <2>4 DEF StraysPins
  <2>. QED BY <2>3, <2>5 DEF PinInv
<1>8. CASE pinner.pc = "send" /\ PostFailed(next)
  <2>1. pinner'.pc = "idle" /\ UNCHANGED <<strays, posts>>
    BY <1>1, <1>8 DEF PostFailed, NoPin, NoStray
  <2>2. PinPoint' /\ Pins' = Pins
    BY <1>1, <2>1, PinUnsent DEF PinInv, PinPoint
  <2>3. ~Holds
    BY <1>8 DEF Holds
  <2>4. StraysPins'
    BY <1>4, <1>5, <2>1, <2>2, <2>3 DEF StraysPins
  <2>. QED BY <2>2, <2>4 DEF PinInv
<1>9. CASE pinner.pc = "edit" /\ EditDone(pinner, next)
  <2>1. /\ pinner' = [pinner EXCEPT !.pc = "version"] /\ UNCHANGED <<strays, posts, pinned>>
        /\ Exists(pinner.id, pinner.chat)
    BY <1>1, <1>9 DEF EditDone, NoStray
  <2>2. pinner'.pc = "version" /\ pinner'.id = pinner.id /\ pinner'.chat = pinner.chat
    BY <1>3, <2>1 DEF PinStates
  <2>3. Pins' = Pins /\ \A k, c : Exists(k, c) <=> Exists(k, c)'
    BY <2>1, PinUnsent
  <2>4. PinPoint'
    BY <1>1, <1>2, <1>3, <1>9, <2>1, <2>2 DEF PinInv, PinPoint, Exists
  <2>5. StraysPins'
    <3>1. Holds => Holds'
      BY <1>2, <1>9, <2>1, <2>2, <2>3 DEF Holds, Current
    <3>. QED BY <1>4, <1>5, <2>1, <2>3, <3>1 DEF StraysPins
  <2>. QED BY <2>4, <2>5 DEF PinInv
<1>10. CASE pinner.pc = "edit" /\ EditMisses(pinner, next)
  <2>1. pinner'.pc = "idle" /\ UNCHANGED <<strays, posts>> /\ ~Exists(pinner.id, client)
    BY <1>1, <1>3, <1>10 DEF EditMisses, NoPin, NoStray
  <2>2. PinPoint' /\ Pins' = Pins
    BY <1>1, <2>1, PinUnsent DEF PinInv, PinPoint
  <2>3. ~Holds
    BY <1>10, <2>1 DEF Holds
  <2>4. StraysPins'
    BY <1>4, <1>5, <2>1, <2>2, <2>3 DEF StraysPins
  <2>. QED BY <2>2, <2>4 DEF PinInv
<1>11. CASE pinner.pc = "edit" /\ EditFails(pinner, next)
  <2>1. pinner'.pc = "idle" /\ UNCHANGED posts /\ strays'.pin = strays.pin + 1
    BY <1>1, <1>11, PinStrays DEF EditFails, NoPin
  <2>2. PinPoint' /\ Pins' = Pins
    BY <1>1, <2>1, PinUnsent DEF PinInv, PinPoint
  <2>3. StraysPins'
    BY <1>4, <1>5, <2>1, <2>2 DEF StraysPins
  <2>. QED BY <2>2, <2>3 DEF PinInv
<1>12. CASE pinner.pc = "save" /\ PinSaved(pinner, next)
  <2>1. /\ pinner' = [pinner EXCEPT !.pc = "version"] /\ UNCHANGED <<strays, posts>>
        /\ pinned'.id = pinner.id
    BY <1>1, <1>3, <1>12 DEF PinSaved, NoStray
  <2>6. pinner'.pc = "version" /\ pinner'.chat = pinner.chat
    BY <1>3, <2>1 DEF PinStates
  <2>2. PinPoint' /\ Pins' = Pins
    BY <1>1, <1>2, <1>3, <1>12, <2>1, <2>6, PinUnsent DEF PinInv, PinPoint
  <2>3. Exists(pinner.id, client) /\ pinner.id # 0
    BY <1>3, <1>12, IdsOfPosts DEF PinInv, PinPoint, Exists, TickerInv, PostIds
  <2>4. Holds'
    BY <1>2, <2>1, <2>3, <2>6 DEF Holds, Current, Exists
  <2>5. StraysPins'
    BY <1>4, <1>5, <2>1, <2>2, <2>4 DEF StraysPins
  <2>. QED BY <2>2, <2>5 DEF PinInv
<1>13. CASE pinner.pc = "save" /\ PinUnsaved(next)
  <2>1. pinner'.pc = "idle" /\ UNCHANGED posts /\ strays'.pin = strays.pin + 1
    BY <1>1, <1>13, PinStrays DEF PinUnsaved, NoPin
  <2>2. PinPoint' /\ Pins' = Pins
    BY <1>1, <2>1, PinUnsent DEF PinInv, PinPoint
  <2>3. StraysPins'
    BY <1>4, <1>5, <2>1, <2>2 DEF StraysPins
  <2>. QED BY <2>2, <2>3 DEF PinInv
<1>14. CASE pinner.pc = "version" /\ VersionTried(next)
  <2>1. pinner'.pc = "idle" /\ UNCHANGED <<strays, posts>> /\ pinned'.id = pinned.id
    BY <1>1, <1>3, <1>14 DEF VersionTried, NoPin, NoStray
  <2>2. PinPoint' /\ Pins' = Pins
    BY <1>1, <2>1, PinUnsent DEF PinInv, PinPoint
  <2>3. Holds => Holds'
    BY <1>2, <1>14, <2>1 DEF Holds, Current, Exists
  <2>4. StraysPins'
    BY <1>4, <1>5, <2>1, <2>2, <2>3 DEF StraysPins
  <2>. QED BY <2>2, <2>4 DEF PinInv
<1>. QED BY <1>1, <1>6, <1>7, <1>8, <1>9, <1>10, <1>11, <1>12, <1>13, <1>14, PinStepCases

LEMMA PaidFor ==
  ASSUME NEW n \in Nat, NEW o \in Nat, NEW n1 \in Nat, NEW o1 \in Nat, n1 <= n + 1, o1 + 1 <= o
  PROVE  n1 + o1 <= n + o /\ n1 + o1 \in Nat
  OBVIOUS

\* The thread that was left behind pays for what it does.
LEMMA OrphanSafe == ASSUME TickerInv, PinInv, OrphanPins PROVE PinInv'
<1>1. PICK next \in PinNexts(orphan) : PinStep(orphan, next) /\ orphan' = next /\ UNCHANGED pinner
  BY DEF OrphanPins, PinNexts
<1>2. UNCHANGED <<client, helpVersion>>
  BY DEF OrphanPins, OnlyPin, processSide
<1>3. /\ orphan \in PinStates /\ pinned \in [id : Nat, version : Nat] /\ orphan.chat \in Nat
      /\ orphan.id \in Nat
  BY DEF TickerInv, PostKinds, PinStates
<1>4. /\ Cardinality(Pins) \in Nat /\ Owes \in 0..2 /\ strays.pin \in Nat /\ Owes' \in 0..2
      /\ Cardinality(Pins) + Owes <= strays.pin + 1
      /\ ~Holds => Cardinality(Pins) + Owes <= strays.pin
  BY PinNumbers DEF PinInv, StraysPins, Owes
<1>5. ASSUME \A id, c : Exists(id, c) => Exists(id, c)', UNCHANGED pinned PROVE Holds => Holds'
  BY <1>1, <1>2, <1>5 DEF Holds, Current
<1>6. CASE orphan.pc = "send" /\ Posted(orphan, next)
  <2>1. PICK id : id = NewId
    OBVIOUS
  <2>2. /\ orphan' = [orphan EXCEPT !.pc = "save", !.id = id] /\ UNCHANGED <<strays, pinned>>
        /\ Sent("pinned", orphan.chat)
    BY <1>1, <1>6, <2>1 DEF Posted, NoStray
  <2>3. /\ orphan'.pc = "save" /\ orphan'.id = id /\ orphan'.chat = orphan.chat
    BY <1>3, <2>2 DEF PinStates
  <2>4. /\ id \in DOMAIN posts' /\ posts'[id].chat = orphan.chat
        /\ \A k, c : Exists(k, c) => Exists(k, c)'
        /\ Cardinality(Pins') <= Cardinality(Pins) + 1 /\ Cardinality(Pins') \in Nat
    BY <1>3, <2>1, <2>2, PinSent
  <2>5. PinPoint'
    BY <1>1, <1>2, <2>3, <2>4 DEF PinInv, PinPoint, Exists
  <2>6. Owes' + 1 <= Owes
    BY <1>2, <1>6, <2>3 DEF Owes
  <2>7. Holds => Holds'
    BY <1>5, <2>2, <2>4
  <2>8. StraysPins'
    BY <1>4, <2>2, <2>4, <2>6, <2>7 DEF StraysPins
  <2>. QED BY <2>5, <2>8 DEF PinInv
<1>7. CASE orphan.pc = "send" /\ PostLost(orphan, next)
  <2>1. orphan'.pc = "idle" /\ strays'.pin = strays.pin + 1 /\ UNCHANGED pinned
    BY <1>1, <1>7, PinStrays DEF PostLost, NoPin
  <2>2. /\ \A k, c : Exists(k, c) => Exists(k, c)'
        /\ Cardinality(Pins') <= Cardinality(Pins) + 1 /\ Cardinality(Pins') \in Nat
    BY <1>3, <1>7, PinSent DEF PostLost
  <2>3. PinPoint'
    BY <1>1, <1>2, <2>1, <2>2 DEF PinInv, PinPoint
  <2>4. Owes' + 1 <= Owes
    BY <1>7, <2>1 DEF Owes
  <2>5. Holds => Holds'
    BY <1>5, <2>1, <2>2
  <2>6. StraysPins'
    <3>1. /\ Cardinality(Pins') + Owes' <= Cardinality(Pins) + Owes
          /\ Cardinality(Pins') + Owes' \in Nat
      <4>1. Owes \in Nat /\ Owes' \in Nat
        BY <1>4
      <4>. QED BY <1>4, <2>2, <2>4, <4>1, PaidFor
    <3>2. Cardinality(Pins') + Owes' <= strays.pin + 1
      BY <1>4, <3>1
    <3>. QED BY <1>4, <2>1, <3>1, <3>2 DEF StraysPins
  <2>. QED BY <2>3, <2>6 DEF PinInv
<1>8. CASE orphan.pc = "send" /\ PostFailed(next)
  <2>1. orphan'.pc = "idle" /\ UNCHANGED <<strays, posts, pinned>>
    BY <1>1, <1>8 DEF PostFailed, NoPin, NoStray
  <2>2. Pins' = Pins /\ \A k, c : Exists(k, c) <=> Exists(k, c)'
    BY <2>1, PinUnsent
  <2>3. PinPoint'
    BY <1>1, <1>2, <2>1, <2>2 DEF PinInv, PinPoint
  <2>4. Owes' <= Owes /\ (Holds => Holds')
    BY <1>4, <1>5, <2>1, <2>2 DEF Owes
  <2>5. StraysPins'
    BY <1>4, <2>1, <2>2, <2>4 DEF StraysPins
  <2>. QED BY <2>3, <2>5 DEF PinInv
<1>9. CASE orphan.pc = "edit" /\ EditDone(orphan, next)
  <2>1. /\ orphan' = [orphan EXCEPT !.pc = "version"] /\ UNCHANGED <<strays, posts, pinned>>
        /\ Exists(orphan.id, orphan.chat)
    BY <1>1, <1>9 DEF EditDone, NoStray
  <2>2. orphan'.pc = "version" /\ orphan'.id = orphan.id /\ orphan'.chat = orphan.chat
    BY <1>3, <2>1 DEF PinStates
  <2>3. Pins' = Pins /\ \A k, c : Exists(k, c) <=> Exists(k, c)'
    BY <2>1, PinUnsent
  <2>4. PinPoint'
    BY <1>1, <1>2, <2>1, <2>2, <2>3 DEF PinInv, PinPoint, Exists
  <2>5. Owes' <= Owes /\ (Holds => Holds')
    BY <1>2, <1>5, <1>9, <2>1, <2>2, <2>3 DEF Owes
  <2>6. StraysPins'
    BY <1>4, <2>1, <2>3, <2>5 DEF StraysPins
  <2>. QED BY <2>4, <2>6 DEF PinInv
<1>10. CASE orphan.pc = "edit" /\ (EditMisses(orphan, next) \/ EditFails(orphan, next))
  <2>1. orphan'.pc = "idle" /\ UNCHANGED posts
    BY <1>1, <1>10 DEF EditMisses, EditFails, NoPin
  <2>2. strays'.pin \in Nat /\ strays'.pin >= strays.pin
    BY <1>4, <1>10, PinStrays DEF EditMisses, EditFails, NoStray
  <2>3. Pins' = Pins /\ \A k, c : Exists(k, c) <=> Exists(k, c)'
    BY <2>1, PinUnsent
  <2>4. PinPoint'
    BY <1>1, <1>2, <2>1, <2>3 DEF PinInv, PinPoint
  <2>5. Owes = 1 /\ Owes' = 0
    BY <1>10, <2>1 DEF Owes
  <2>6. StraysPins'
    BY <1>4, <2>2, <2>3, <2>5 DEF StraysPins
  <2>. QED BY <2>4, <2>6 DEF PinInv
<1>11. CASE orphan.pc = "save" /\ PinSaved(orphan, next)
  <2>1. orphan'.pc = "version" /\ UNCHANGED <<strays, posts>> /\ pinned'.id = orphan.id
    BY <1>1, <1>3, <1>11 DEF PinSaved, PinStates, NoStray
  <2>2. Pins' = Pins /\ \A k, c : Exists(k, c) <=> Exists(k, c)'
    BY <2>1, PinUnsent
  <2>3. PinPoint'
    BY <1>1, <1>2, <2>1, <2>2 DEF PinInv, PinPoint
  <2>4. Owes' = 0
    BY <2>1 DEF Owes
  <2>5. CASE orphan.chat = client
    <3>1. Exists(orphan.id, client) /\ orphan.id # 0
      BY <1>11, <2>5, IdsOfPosts DEF PinInv, PinPoint, Exists, TickerInv, PostIds
    <3>2. Current'
      BY <1>2, <2>1, <3>1 DEF Current, Exists
    <3>3. Holds => Holds'
      BY <1>1, <1>2, <2>2, <3>2 DEF Holds
    <3>4. StraysPins'
      BY <1>4, <2>1, <2>2, <2>4, <3>3 DEF StraysPins
    <3>. QED BY <2>3, <3>4 DEF PinInv
  <2>6. CASE orphan.chat # client
    <3>1. Owes = 1
      BY <1>11, <2>6 DEF Owes
    <3>2. StraysPins'
      BY <1>4, <2>1, <2>2, <2>4, <3>1 DEF StraysPins
    <3>. QED BY <2>3, <3>2 DEF PinInv
  <2>. QED BY <2>5, <2>6
<1>12. CASE orphan.pc = "save" /\ PinUnsaved(next)
  <2>1. orphan'.pc = "idle" /\ UNCHANGED <<posts, pinned>> /\ strays'.pin = strays.pin + 1
    BY <1>1, <1>12, PinStrays DEF PinUnsaved, NoPin
  <2>2. Pins' = Pins /\ \A k, c : Exists(k, c) <=> Exists(k, c)'
    BY <2>1, PinUnsent
  <2>3. PinPoint' /\ Owes' = 0
    BY <1>1, <1>2, <2>1, <2>2 DEF PinInv, PinPoint, Owes
  <2>4. StraysPins'
    BY <1>4, <2>1, <2>2, <2>3 DEF StraysPins
  <2>. QED BY <2>3, <2>4 DEF PinInv
<1>13. CASE orphan.pc = "version" /\ VersionTried(next)
  <2>1. orphan'.pc = "idle" /\ UNCHANGED <<strays, posts>> /\ pinned'.id = pinned.id
    BY <1>1, <1>3, <1>13 DEF VersionTried, NoPin, NoStray
  <2>2. Pins' = Pins /\ \A k, c : Exists(k, c) <=> Exists(k, c)'
    BY <2>1, PinUnsent
  <2>3. PinPoint' /\ Owes' = 0
    BY <1>1, <1>2, <2>1, <2>2 DEF PinInv, PinPoint, Owes
  <2>4. Holds => Holds'
    BY <1>1, <1>2, <2>1, <2>2 DEF Holds, Current
  <2>5. StraysPins'
    BY <1>4, <2>1, <2>2, <2>3, <2>4 DEF StraysPins
  <2>. QED BY <2>3, <2>5 DEF PinInv
<1>. QED BY <1>1, <1>6, <1>7, <1>8, <1>9, <1>10, <1>11, <1>12, <1>13, PinStepCases

LEMMA PinStartsSafe == ASSUME TickerInv, PinInv, PinStarts PROVE PinInv'
<1>1. /\ UNCHANGED <<posts, pinned, orphan, strays, client>> /\ pinner.pc = "idle"
  BY DEF PinStarts, OnlyPin, processSide, NoStray
<1>2. \/ pinned.id = 0 /\ pinner' = [pc |-> "send", chat |-> client, id |-> 0]
      \/ pinned.id # 0 /\ pinner' = [pc |-> "edit", chat |-> client, id |-> pinned.id]
  BY DEF PinStarts
<1>3. PinPoint'
  BY <1>1, <1>2 DEF PinInv, PinPoint, Exists
<1>4. Pins' = Pins /\ Owes' = Owes
  BY <1>1 DEF Pins, Owes
<1>5. Holds => Holds'
  BY <1>1, <1>2 DEF Holds, Current, Exists
<1>6. StraysPins'
  BY <1>1, <1>4, <1>5, PinNumbers DEF PinInv, StraysPins
<1>. QED BY <1>3, <1>6 DEF PinInv

\* The strays of new tasks pay for the thread that is left behind.
LEMMA ApplyKeepsPins == ASSUME TickerInv, PinInv, ApplyTelegram PROVE PinInv'
<1>1. /\ UNCHANGED <<posts, pinned>> /\ client' \in {client, client + 1}
      /\ orphan.pc = "idle" /\ orphan' = pinner /\ pinner' = NoPin
      /\ strays'.pin = strays.pin + (IF client' # client THEN 1 ELSE 0)
                       + (IF pinner.pc # "idle" THEN 1 ELSE 0)
  BY DEF ApplyTelegram
<1>2. Pins' = Pins /\ \A k, c : Exists(k, c) <=> Exists(k, c)'
  BY <1>1, PinUnsent
<1>3. PinPoint'
  BY <1>1, <1>2 DEF PinInv, PinPoint, NoPin
<1>4. /\ Cardinality(Pins) \in Nat /\ Owes = 0 /\ strays.pin \in Nat
      /\ Cardinality(Pins) <= strays.pin + 1
      /\ ~Holds => Cardinality(Pins) <= strays.pin
  BY <1>1, PinNumbers DEF PinInv, StraysPins, Owes
<1>5. pinner.pc # "idle" => pinner.chat = client
  BY DEF PinInv, PinPoint
<1>6. pinner.pc \in {"idle", "send", "edit", "save", "version"} /\ client \in Nat
  BY DEF TickerInv, PostKinds, PinStates
<1>7. client' = client => (Current' <=> Current)
  BY <1>1, <1>2 DEF Current
<1>8. Current' => Holds'
  BY <1>1 DEF Holds, NoPin
<1>9. CASE pinner.pc \in {"idle", "version"}
  <2>1. Owes' = 0
    BY <1>1, <1>9 DEF Owes
  <2>2. client' = client => (Holds => Holds')
    BY <1>7, <1>8, <1>9 DEF Holds
  <2>3. StraysPins'
    BY <1>1, <1>2, <1>4, <1>9, <2>1, <2>2 DEF StraysPins
  <2>. QED BY <1>3, <2>3 DEF PinInv
<1>10. CASE pinner.pc = "send"
  <2>1. Owes' = (IF client' = client THEN 1 ELSE 2) /\ ~Holds
    BY <1>1, <1>5, <1>10 DEF Owes, Holds
  <2>2. StraysPins'
    BY <1>1, <1>2, <1>4, <1>10, <2>1 DEF StraysPins
  <2>. QED BY <1>3, <2>2 DEF PinInv
<1>11. CASE pinner.pc = "edit"
  <2>1. Owes' = 1
    BY <1>1, <1>11 DEF Owes
  <2>2. client' = client => (Holds => Holds')
    BY <1>7, <1>8, <1>11 DEF Holds
  <2>3. StraysPins'
    BY <1>1, <1>2, <1>4, <1>11, <2>1, <2>2 DEF StraysPins
  <2>. QED BY <1>3, <2>3 DEF PinInv
<1>12. CASE pinner.pc = "save"
  <2>1. Owes' = (IF client' = client THEN 0 ELSE 1)
    BY <1>1, <1>5, <1>12 DEF Owes
  <2>2. StraysPins'
    BY <1>1, <1>2, <1>4, <1>12, <2>1 DEF StraysPins
  <2>. QED BY <1>3, <2>2 DEF PinInv
<1>. QED BY <1>6, <1>9, <1>10, <1>11, <1>12

\* A message that was sent and not saved is counted as a stray.
LEMMA RestartKeepsPins == ASSUME TickerInv, PinInv, TelegramRestart PROVE PinInv'
<1>1. /\ UNCHANGED <<posts, pinned, client>> /\ pinner' = NoPin /\ orphan' = NoPin
      /\ strays'.pin = strays.pin + Cardinality(Unsaved)
  BY DEF TelegramRestart, Unsaved
<1>2. Pins' = Pins /\ \A k, c : Exists(k, c) <=> Exists(k, c)'
  BY <1>1, PinUnsent
<1>3. PinPoint'
  BY <1>1 DEF PinPoint, NoPin
<1>4. Owes' = 0 /\ (Current => Holds')
  BY <1>1, <1>2 DEF Owes, NoPin, Holds, Current
<1>5. /\ Cardinality(Pins) \in Nat /\ Owes \in Nat /\ strays.pin \in Nat
      /\ Cardinality(Pins) + Owes <= strays.pin + 1
      /\ ~Holds => Cardinality(Pins) + Owes <= strays.pin
  BY PinNumbers DEF PinInv, StraysPins
<1>6. Holds /\ ~Current => Cardinality(Unsaved) >= 1
  <2>1. SUFFICES ASSUME Holds, ~Current PROVE Cardinality(Unsaved) >= 1
    OBVIOUS
  <2>2. pinner.pc = "save"
    BY <2>1 DEF Holds
  <2>3. Exists(pinner.id, client) /\ pinner.id # 0
    BY <2>2, IdsOfPosts DEF PinInv, PinPoint, Exists, TickerInv, PostIds
  <2>4. pinned.id # pinner.id
    BY <2>1, <2>3 DEF Current
  <2>5. 1 \in Unsaved
    BY <2>2, <2>4 DEF Unsaved, InHand
  <2>6. Cardinality(Unsaved) # 0
    BY <2>5, UnsavedCount, FS_EmptySet
  <2>. QED BY <2>6, UnsavedCount
<1>7. StraysPins'
  BY <1>1, <1>2, <1>4, <1>5, <1>6, UnsavedCount DEF StraysPins
<1>. QED BY <1>3, <1>7 DEF PinInv

LEMMA PinBegins == ASSUME TelegramInit PROVE PinInv
<1>1. posts = <<>> /\ pinner = NoPin /\ orphan = NoPin /\ strays = [live |-> 0, pin |-> 0]
  BY DEF TelegramInit
<1>2. Pins = {}
  BY <1>1 DEF Pins
<1>3. Cardinality(Pins) = 0 /\ Owes = 0
  BY <1>1, <1>2, FS_EmptySet DEF Owes, NoPin
<1>4. StraysPins
  BY <1>1, <1>3 DEF StraysPins
<1>. QED BY <1>1, <1>4 DEF PinInv, PinPoint, NoPin

LEMMA PinMoves == ASSUME TickerInv, PinInv, [TelegramNext]_telegramVars PROVE PinInv'
<1>1. ASSUME UNCHANGED <<posts, pinSide, client, strays>> PROVE PinInv'
  <2>1. KeepsPins /\ strays'.pin = strays.pin
    BY <1>1 DEF KeepsPins
  <2>. QED BY <1>1, <2>1, KeptPins
<1>2. CASE TickerStep
  <2>1. UNCHANGED <<pinSide, client>>
    BY <1>2 DEF TickerStep, TickStarts, TickPosts, TickPostsChannel, TickPersists, TickEdits,
                TickEditsChannel, TickFreezes, TickFreezesChannel, TickClears, OnlyTicker,
                processSide
  <2>. QED BY <1>2, <2>1, TickerKeepsPins, KeptPins
<1>3. CASE PinnedStep
  BY <1>3, PinStartsSafe, EditorSafe, OrphanSafe DEF PinnedStep
<1>4. CASE PollerStep \/ BasketOpensOrCloses \/ UpdateArrives \/ UNCHANGED telegramVars
  BY <1>1, <1>4
     DEF PollerStep, PollAsks, PollHandles, BatchEnds, BasketOpensOrCloses, UpdateArrives,
         OnlyPoller, processSide, NoStray, telegramVars, pinSide
<1>. QED BY <1>2, <1>3, <1>4, ApplyKeepsPins, RestartKeepsPins DEF TelegramNext

LEMMA OnceOnly == TickerInv /\ PinInv /\ PollInv => NothingTwice
<1>1. SUFFICES ASSUME TickerInv, PinInv, PollInv PROVE NothingTwice
  OBVIOUS
<1>2. OneLive
  <2>1. LiveOnes \subseteq LeftLive \union {ids.owner}
    BY DEF LiveOnes, LeftLive
  <2>2. /\ Cardinality(LiveOnes) <= Cardinality(LeftLive) + 1 /\ Cardinality(LiveOnes) \in Nat
        /\ Cardinality(LeftLive) \in Nat
    BY <1>1, <2>1, LeftCount, CountsOneMore DEF TickerInv
  <2>3. Cardinality(LeftLive) <= strays.live /\ strays.live \in Nat
    BY <1>1 DEF TickerInv, StraysLive, PostKinds
  <2>. QED BY <2>2, <2>3 DEF OneLive
<1>3. OnePinned
  <2>1. Cardinality(Pins) <= strays.pin + 1
    BY <1>1, PinNumbers DEF PinInv, StraysPins
  <2>. QED BY <1>1, <2>1, PinNumbers DEF OnePinned, Pins
<1>4. CarriedOutOnce
  <2>1. \A u \in 1..MaxUpdates : handled[u] <= 1 + stops
    BY <1>1 DEF PollInv, PollKinds, OnceSoFar
  <2>. QED BY <1>1, <2>1 DEF CarriedOutOnce, PollInv, PollKinds
<1>. QED BY <1>2, <1>3, <1>4 DEF NothingTwice

\* The owner sees one LIVE message and one pinned message, and each of his updates
\* is carried out once, but for what a lost answer, a failed edit, another chat or
\* a restart between a message and its id in the store may add (ticker_tick,
\* pinned_tick, the poller and _apply_telegram of the service).
THEOREM NoneTwice == TelegramSpec => []NothingTwice
<1>. DEFINE Inv == TickerInv /\ PinInv /\ PollInv
<1>1. TelegramInit => Inv
  BY TickerStart, PinBegins, PollStart
<1>2. Inv /\ [TelegramNext]_telegramVars => Inv'
  BY TickerMoves, PinMoves, PollMoves
<1>3. Inv => NothingTwice
  BY OnceOnly
<1>. QED BY <1>1, <1>2, <1>3, PTL DEF TelegramSpec

-----------------------------------------------------------------------------
(* The live feed                                                           *)

RingBars == [t : Int, final : BOOLEAN]
Pushes == [rows : Seq(RingBars), pc : {"sent", "sending", "answer"}, mine : BOOLEAN,
           latest : BOOLEAN]

\* Successive bars, none still forming but perhaps the last one.
NoHole(s) == \A i \in 1..Len(s) : s[i].t = s[1].t + i - 1 /\ (s[i].final \/ i = Len(s))
LastOf(s) == s[Len(s)]

\* What the bridge sends: a tick, the two newest bars or a backfill, none of them
\* newer than what it has read.
IsBatch(rows, read) == /\ Len(rows) \in {0, 2, Backfill} /\ NoHole(rows)
                       /\ rows # <<>> => LastOf(rows).t <= read

FeedKinds ==
    /\ formingBar \in Int /\ readAt \in Int
    /\ ring \in Seq(RingBars) /\ pushes \in Seq(Pushes)
    /\ feeder \in [pc : {"idle", "waiting"}, sends : {"none", "backfill", "bars", "tick"}, need : BOOLEAN]

-----------------------------------------------------------------------------
(* What apply_push makes of the ring *)

LEMMA TailIsARun ==
    ASSUME NEW s \in Seq(RingBars), NoHole(s), NEW m \in 1..Len(s)
    PROVE  LET u == SubSeq(s, m, Len(s))
           IN /\ u \in Seq(RingBars) /\ u # <<>> /\ NoHole(u) /\ Len(u) = Len(s) - m + 1
              /\ LastOf(u) = LastOf(s) /\ u[1] = s[m]
<1> DEFINE u == SubSeq(s, m, Len(s))
<1>1. Len(s) \in Nat /\ \A i \in 1..Len(s) : s[i] \in RingBars
  BY ElementOfSeq, LenProperties
<1>2. /\ u \in Seq(RingBars) /\ Len(u) = Len(s) - m + 1
      /\ \A i \in 1..Len(s) - m + 1 : u[i] = s[m + i - 1]
  BY <1>1, SubSeqProperties
<1> HIDE DEF u
<1>3. u # <<>> /\ u[1] = s[m] /\ LastOf(u) = LastOf(s)
  <2>1. Len(u) >= 1 /\ Len(s) - m + 1 \in 1..Len(s) - m + 1 /\ 1 \in 1..Len(s) - m + 1
    BY <1>1, <1>2
  <2>2. u[1] = s[m + 1 - 1] /\ u[Len(s) - m + 1] = s[m + (Len(s) - m + 1) - 1]
    BY <1>2, <2>1
  <2> QED BY <1>1, <1>2, <2>1, <2>2, EmptySeq DEF LastOf
<1>4. ASSUME NEW i \in 1..Len(u) PROVE u[i].t = u[1].t + i - 1 /\ (u[i].final \/ i = Len(u))
  <2>1. m + i - 1 \in 1..Len(s) /\ u[i] = s[m + i - 1] /\ u[1] = s[m]
    BY <1>1, <1>2, <1>3
  <2>2. s[m + i - 1].t = s[1].t + (m + i - 1) - 1 /\ s[m].t = s[1].t + m - 1
    BY <2>1 DEF NoHole
  <2>3. s[m + i - 1].final \/ m + i - 1 = Len(s)
    BY <2>1 DEF NoHole
  <2>4. s[1].t \in Int
    BY <1>1 DEF RingBars
  <2>5. s[m + i - 1].t = s[m].t + i - 1
    <3>1. m \in Int /\ i \in Int
      BY <1>1, <1>2
    <3> QED BY <2>2, <2>4, <3>1
  <2>6. m + i - 1 = Len(s) => i = Len(u)
    BY <1>1, <1>2
  <2> QED BY <2>1, <2>3, <2>5, <2>6
<1> QED BY <1>2, <1>3, <1>4 DEF NoHole, u

LEMMA Trimmed ==
    ASSUME NEW s \in Seq(RingBars), NoHole(s), NEW n \in Nat, n >= 1
    PROVE  LET u == LastRows(s, n)
           IN /\ u \in Seq(RingBars) /\ NoHole(u) /\ Len(u) <= n
              /\ s = <<>> => u = <<>>
              /\ s # <<>> => u # <<>> /\ LastOf(u) = LastOf(s)
<1>1. Len(s) \in Nat
  BY LenProperties
<1>2. CASE Len(s) <= n
  BY <1>2 DEF LastRows
<1>3. CASE Len(s) > n
  <2>1. LastRows(s, n) = SubSeq(s, Len(s) - n + 1, Len(s)) /\ Len(s) - n + 1 \in 1..Len(s)
    BY <1>1, <1>3 DEF LastRows
  <2>2. s # <<>>
    BY <1>1, <1>3, EmptySeq
  <2> QED BY <1>1, <2>1, <2>2, TailIsARun
<1> QED BY <1>1, <1>2, <1>3

\* What is joined where it ends has no hole.
LEMMA JoinedRuns ==
    ASSUME NEW a \in Seq(RingBars), NoHole(a), NEW b \in Seq(RingBars), NoHole(b), b # <<>>,
           \A i \in 1..Len(a) : a[i].final,
           a # <<>> => b[1].t = a[1].t + Len(a)
    PROVE  a \o b \in Seq(RingBars) /\ NoHole(a \o b) /\ a \o b # <<>> /\ LastOf(a \o b) = LastOf(b)
<1> DEFINE c == a \o b
<1>1. Len(a) \in Nat /\ Len(b) \in Nat /\ Len(b) >= 1
  BY LenProperties, EmptySeq
<1>2. /\ c \in Seq(RingBars) /\ Len(c) = Len(a) + Len(b)
      /\ \A i \in 1..Len(a) + Len(b) : c[i] = IF i <= Len(a) THEN a[i] ELSE b[i - Len(a)]
  BY ConcatProperties
<1> HIDE DEF c
<1>3. c # <<>> /\ LastOf(c) = LastOf(b)
  BY <1>1, <1>2, EmptySeq DEF LastOf
<1>4. \A i \in 1..Len(a) : a[i].t \in Int
  <2>1. \A i \in 1..Len(a) : a[i] \in RingBars
    BY ElementOfSeq
  <2> QED BY <2>1 DEF RingBars
<1>5. \A i \in 1..Len(b) : b[i].t \in Int
  <2>1. \A i \in 1..Len(b) : b[i] \in RingBars
    BY ElementOfSeq
  <2> QED BY <2>1 DEF RingBars
<1>6. ASSUME NEW i \in 1..Len(c) PROVE c[i].t = c[1].t + i - 1 /\ (c[i].final \/ i = Len(c))
  <2>1. CASE i <= Len(a)
    <3>1. c[i] = a[i] /\ c[1] = a[1] /\ i \in 1..Len(a)
      BY <1>1, <1>2, <2>1
    <3>2. a[i].t = a[1].t + i - 1 /\ a[i].final
      BY <3>1 DEF NoHole
    <3> QED BY <3>1, <3>2
  <2>2. CASE i > Len(a)
    <3>1. i - Len(a) \in 1..Len(b) /\ c[i] = b[i - Len(a)]
      BY <1>1, <1>2, <2>2
    <3>2. b[i - Len(a)].t = b[1].t + (i - Len(a)) - 1 /\ (b[i - Len(a)].final \/ i - Len(a) = Len(b))
      BY <3>1 DEF NoHole
    <3>3. CASE a = <<>>
      <4>1. Len(a) = 0 /\ c[1] = b[1]
        BY <1>1, <1>2, <3>3, EmptySeq
      <4> QED BY <1>1, <1>2, <1>5, <3>1, <3>2, <4>1
    <3>4. CASE a # <<>>
      <4>1. Len(a) >= 1 /\ c[1] = a[1]
        BY <1>1, <1>2, <3>4, EmptySeq
      <4>2. b[1].t = a[1].t + Len(a) /\ a[1].t \in Int /\ b[1].t \in Int
        BY <1>1, <1>4, <1>5, <3>4, <4>1
      <4> QED BY <1>1, <1>2, <3>1, <3>2, <4>1, <4>2
    <3> QED BY <3>3, <3>4
  <2> QED BY <1>1, <2>1, <2>2
<1> QED BY <1>2, <1>3, <1>6 DEF NoHole, c

\* The rows of a batch that are not stale are its last ones.
LEMMA FreshFrom ==
    ASSUME ring \in Seq(RingBars), NEW rows \in Seq(RingBars), NoHole(rows), NEW m \in 1..Len(rows),
           ring = <<>> \/ rows[m].t >= LastOf(ring).t,
           m = 1 \/ (ring # <<>> /\ rows[m].t = LastOf(ring).t)
    PROVE  NotStale(rows) = SubSeq(rows, m, Len(rows))
<1> DEFINE fresh == {i \in DOMAIN rows : ring = <<>> \/ rows[i].t >= Newest.t}
<1>1. DOMAIN rows = 1..Len(rows) /\ Len(rows) \in Nat
  BY LenProperties
<1>2. Newest = LastOf(ring)
  BY DEF Newest, LastOf
<1>3. m \in fresh
  BY <1>1, <1>2
<1>4. ASSUME NEW j \in fresh PROVE m <= j
  <2>1. j \in 1..Len(rows) /\ (ring = <<>> \/ rows[j].t >= LastOf(ring).t)
    BY <1>1, <1>2
  <2>2. CASE m = 1
    BY <1>1, <2>1, <2>2
  <2>3. CASE ring # <<>> /\ rows[m].t = LastOf(ring).t
    <3>1. rows[m].t = rows[1].t + m - 1 /\ rows[j].t = rows[1].t + j - 1
      BY <2>1 DEF NoHole
    <3>2. rows[1] \in RingBars
      BY <1>1, ElementOfSeq
    <3>3. rows[1].t \in Int
      BY <3>2 DEF RingBars
    <3> QED BY <1>1, <2>1, <2>3, <3>1, <3>3
  <2> QED BY <2>2, <2>3
<1>5. \A j \in fresh : j \in Int
  BY <1>1
<1>6. (CHOOSE i \in fresh : \A j \in fresh : i <= j) = m
  <2> HIDE DEF fresh
  <2>1. \A i \in fresh : (\A j \in fresh : i <= j) => i = m
    BY <1>3, <1>4, <1>5
  <2> QED BY <1>3, <1>4, <2>1
<1>7. NotStale(rows) = IF fresh = {} THEN <<>>
                       ELSE SubSeq(rows, CHOOSE i \in fresh : \A j \in fresh : i <= j, Len(rows))
  BY DEF NotStale
<1> QED
  <2> HIDE DEF fresh
  <2> QED BY <1>3, <1>6, <1>7

LEMMA AllStale ==
    ASSUME ring \in Seq(RingBars), NEW rows \in Seq(RingBars), NoHole(rows),
           rows = <<>> \/ (ring # <<>> /\ LastOf(rows).t < LastOf(ring).t)
    PROVE  NotStale(rows) = <<>>
<1>1. DOMAIN rows = 1..Len(rows) /\ Len(rows) \in Nat
  BY LenProperties
<1>2. {i \in DOMAIN rows : ring = <<>> \/ rows[i].t >= Newest.t} = {}
  <2>1. CASE rows = <<>>
    BY <1>1, <2>1, EmptySeq
  <2>2. ASSUME ring # <<>>, LastOf(rows).t < LastOf(ring).t, rows # <<>>,
               NEW i \in 1..Len(rows)
        PROVE  ~(rows[i].t >= Newest.t)
    <3>1. Len(rows) \in 1..Len(rows) /\ 1 \in 1..Len(rows)
      BY <1>1, <2>2
    <3>2. rows[i].t = rows[1].t + i - 1 /\ LastOf(rows).t = rows[1].t + Len(rows) - 1
      BY <3>1 DEF NoHole, LastOf
    <3>3. rows[1] \in RingBars /\ LastOf(ring) \in RingBars
      <4>1. Len(ring) \in 1..Len(ring)
        BY <2>2, LenProperties, EmptySeq
      <4> QED BY <3>1, <4>1, ElementOfSeq DEF LastOf
    <3>4. rows[1].t \in Int /\ LastOf(ring).t \in Int
      BY <3>3 DEF RingBars
    <3>5. rows[i].t < LastOf(ring).t
      BY <1>1, <2>2, <3>2, <3>4
    <3>6. rows[i].t \in Int
      BY <1>1, <3>2, <3>4
    <3> QED BY <3>4, <3>5, <3>6 DEF Newest, LastOf
  <2> QED BY <1>1, <2>1, <2>2
<1> QED BY <1>2 DEF NotStale

\* A ring without a hole stays one, and never goes back, when a batch is applied
\* that reaches back to its newest bar or is a whole backfill.
LEMMA Applied ==
    ASSUME ring \in Seq(RingBars), NoHole(ring), Len(ring) <= Backfill,
           NEW rows \in Seq(RingBars), NoHole(rows), Len(rows) <= Backfill,
           rows # <<>> /\ ring # <<>> /\ Len(rows) # Backfill
               => rows[1].t <= LastOf(ring).t
    PROVE  LET u == AppliedRows(rows)
           IN /\ u \in Seq(RingBars) /\ NoHole(u) /\ Len(u) <= Backfill
              /\ ring # <<>> => u # <<>> /\ LastOf(u).t >= LastOf(ring).t
              /\ rows # <<>> => u # <<>> /\ LastOf(u).t >= LastOf(rows).t
              /\ rows = <<>> => u = ring
<1>0. Backfill \in Nat /\ Backfill >= 4 /\ MaxCandles = Backfill
  BY FeedAssumption
<1>1. Len(rows) \in Nat /\ Len(ring) \in Nat
  BY LenProperties
<1>2. /\ ring # <<>> => Len(ring) >= 1 /\ ring[1] \in RingBars /\ LastOf(ring) \in RingBars
      /\ rows # <<>> => Len(rows) >= 1 /\ rows[1] \in RingBars /\ LastOf(rows) \in RingBars
  <2>1. /\ ring # <<>> => Len(ring) \in 1..Len(ring) /\ 1 \in 1..Len(ring)
        /\ rows # <<>> => Len(rows) \in 1..Len(rows) /\ 1 \in 1..Len(rows)
    BY <1>1, EmptySeq
  <2> QED BY <1>1, <2>1, ElementOfSeq DEF LastOf
<1>3. /\ ring # <<>> => ring[1].t \in Int /\ LastOf(ring).t \in Int
      /\ rows # <<>> => rows[1].t \in Int /\ LastOf(rows).t \in Int
  BY <1>2 DEF RingBars
<1>4. /\ ring # <<>> => LastOf(ring).t = ring[1].t + Len(ring) - 1
      /\ rows # <<>> => LastOf(rows).t = rows[1].t + Len(rows) - 1
  <2>1. /\ ring # <<>> => Len(ring) \in 1..Len(ring)
        /\ rows # <<>> => Len(rows) \in 1..Len(rows)
    BY <1>1, EmptySeq
  <2> QED BY <2>1 DEF NoHole, LastOf
<1>5. CASE rows = <<>> \/ (ring # <<>> /\ LastOf(rows).t < LastOf(ring).t)
  <2>1. NotStale(rows) = <<>>
    BY <1>5, AllStale
  <2>2. ring \o <<>> = ring
    BY ConcatEmptySeq
  <2>3. AppliedRows(rows) = LastRows(ring, MaxCandles)
    BY <2>1, <2>2 DEF AppliedRows
  <2>4. AppliedRows(rows) = ring
    BY <1>0, <2>3 DEF LastRows
  <2> QED BY <1>3, <1>5, <2>4
<1>6. CASE rows # <<>> /\ ring = <<>>
  <2>1. 1 \in 1..Len(rows)
    BY <1>1, <1>2, <1>6
  <2>2. NotStale(rows) = SubSeq(rows, 1, Len(rows))
    BY <1>6, <2>1, FreshFrom
  <2>3. NotStale(rows) = rows
    BY <2>2, SubSeqFull
  <2>4. ring \o rows = rows
    BY <1>6, ConcatEmptySeq
  <2>5. AppliedRows(rows) = LastRows(rows, MaxCandles)
    BY <1>6, <2>3, <2>4 DEF AppliedRows
  <2>6. AppliedRows(rows) = rows
    BY <1>0, <2>5 DEF LastRows
  <2> QED BY <1>3, <1>6, <2>6
<1>7. CASE rows # <<>> /\ ring # <<>> /\ rows[1].t > LastOf(ring).t
  <2>1. Len(rows) = Backfill /\ 1 \in 1..Len(rows)
    BY <1>1, <1>2, <1>3, <1>7
  <2>2. NotStale(rows) = SubSeq(rows, 1, Len(rows))
    BY <1>3, <1>7, <2>1, FreshFrom
  <2>3. NotStale(rows) = rows
    BY <2>2, SubSeqFull
  <2>4. rows[1].t # Newest.t
    BY <1>3, <1>7 DEF Newest, LastOf
  <2>5. AppliedRows(rows) = LastRows(ring \o rows, MaxCandles)
    BY <2>3, <2>4 DEF AppliedRows
  <2>6. Len(ring \o rows) = Len(ring) + Len(rows)
    BY ConcatProperties
  <2>7. LastRows(ring \o rows, MaxCandles) = SubSeq(ring \o rows, Len(ring) + 1, Len(ring) + Len(rows))
    <3>0. PICK n \in Nat : n = Len(ring) + Len(rows)
      BY <1>1
    <3>1. PICK all : all = ring \o rows
      OBVIOUS
    <3>2. Len(all) = n
      BY <2>6, <3>0, <3>1
    <3>3. ~(n <= MaxCandles) /\ n - MaxCandles + 1 = Len(ring) + 1
      BY <1>0, <1>1, <1>2, <1>7, <2>1, <3>0
    <3>4. LastRows(all, MaxCandles) = SubSeq(all, n - MaxCandles + 1, n)
      BY <3>2, <3>3 DEF LastRows
    <3> QED BY <3>0, <3>1, <3>3, <3>4
  <2>8. SubSeq(ring \o rows, Len(ring) + 1, Len(ring) + Len(rows))
            = SubSeq(rows, (Len(ring) + 1) - Len(ring), (Len(ring) + Len(rows)) - Len(ring))
    <3>1. /\ Len(ring) + 1 \in Len(ring) + 1..Len(ring) + Len(rows)
          /\ Len(ring) + Len(rows) \in Len(ring) + 1..Len(ring) + Len(rows)
      BY <1>1, <1>2, <1>7
    <3> QED BY <3>1, SubSeqOfConcat2
  <2>9. (Len(ring) + 1) - Len(ring) = 1 /\ (Len(ring) + Len(rows)) - Len(ring) = Len(rows)
    BY <1>1
  <2>10. AppliedRows(rows) = rows
    BY <2>5, <2>7, <2>8, <2>9, SubSeqFull
  <2>11. LastOf(rows).t >= LastOf(ring).t
    BY <1>1, <1>2, <1>3, <1>4, <1>7
  <2> QED BY <1>3, <1>7, <2>10, <2>11
<1>8. ASSUME rows # <<>>, ring # <<>>, rows[1].t <= LastOf(ring).t,
             LastOf(rows).t >= LastOf(ring).t
      PROVE  LET u == AppliedRows(rows)
             IN /\ u \in Seq(RingBars) /\ NoHole(u) /\ Len(u) <= Backfill
                /\ u # <<>> /\ LastOf(u) = LastOf(rows)
  <2> DEFINE m == LastOf(ring).t - rows[1].t + 1
             kept == SubSeq(ring, 1, Len(ring) - 1)
  <2>1. m \in 1..Len(rows)
    <3>1. /\ rows[1].t \in Int /\ LastOf(ring).t \in Int /\ Len(rows) \in Nat
          /\ LastOf(rows).t = rows[1].t + Len(rows) - 1
      BY <1>1, <1>3, <1>4, <1>8
    <3> HIDE DEF m
    <3>2. m \in Int /\ m >= 1
      BY <1>8, <3>1 DEF m
    <3>3. m <= Len(rows)
      BY <1>8, <3>1 DEF m
    <3> QED BY <3>1, <3>2, <3>3
  <2> HIDE DEF m
  <2>2. rows[m].t = LastOf(ring).t
    <3>1. rows[m].t = rows[1].t + m - 1
      BY <2>1 DEF NoHole
    <3> QED BY <1>3, <1>8, <3>1 DEF m
  <2>3. PICK fresh : fresh = SubSeq(rows, m, Len(rows))
    OBVIOUS
  <2>4. NotStale(rows) = fresh
    BY <1>3, <1>8, <2>1, <2>2, <2>3, FreshFrom
  <2>5. /\ fresh \in Seq(RingBars) /\ fresh # <<>> /\ NoHole(fresh)
        /\ LastOf(fresh) = LastOf(rows) /\ fresh[1] = rows[m]
    BY <2>1, <2>3, TailIsARun
  <2>6. AppliedRows(rows) = LastRows(kept \o fresh, MaxCandles)
    BY <1>8, <2>2, <2>4, <2>5 DEF AppliedRows, Newest, LastOf
  <2>7. /\ kept \in Seq(RingBars) /\ Len(kept) = Len(ring) - 1
        /\ \A i \in 1..Len(ring) - 1 : kept[i] = ring[i]
    <3>1. \A i \in 1..Len(ring) - 1 : ring[i] \in RingBars
      <4>1. \A i \in 1..Len(ring) - 1 : i \in 1..Len(ring)
        BY <1>1
      <4> QED BY <4>1, ElementOfSeq
    <3>2. 1 \in Int /\ Len(ring) - 1 \in Int /\ Len(ring) >= 1
      BY <1>1, <1>2, <1>8
    <3> HIDE DEF kept
    <3>3. /\ kept \in Seq(RingBars)
          /\ Len(kept) = IF 1 <= Len(ring) - 1 THEN (Len(ring) - 1) - 1 + 1 ELSE 0
          /\ \A i \in 1..(Len(ring) - 1) - 1 + 1 : kept[i] = ring[1 + i - 1]
      BY <3>1, <3>2, SubSeqProperties DEF kept
    <3>4. Len(kept) = Len(ring) - 1
      <4>1. CASE Len(ring) = 1
        <5>1. ~(1 <= Len(ring) - 1) /\ Len(ring) - 1 = 0
          BY <4>1
        <5>2. Len(kept) = 0
          BY <3>3, <5>1, Zenon
        <5> QED BY <5>1, <5>2
      <4>2. CASE Len(ring) # 1
        <5>1. 1 <= Len(ring) - 1 /\ (Len(ring) - 1) - 1 + 1 = Len(ring) - 1
          <6>1. PICK n \in Nat : n = Len(ring)
            BY <1>1
          <6>2. n >= 1 /\ n # 1
            BY <3>2, <4>2, <6>1
          <6>3. 1 <= n - 1 /\ (n - 1) - 1 + 1 = n - 1
            BY <6>2
          <6> QED BY <6>1, <6>3
        <5>2. Len(kept) = (Len(ring) - 1) - 1 + 1
          BY <3>3, <5>1, Zenon
        <5> QED BY <5>1, <5>2
      <4> QED BY <4>1, <4>2
    <3>5. ASSUME NEW i \in 1..Len(ring) - 1 PROVE kept[i] = ring[i]
      <4>1. i \in 1..(Len(ring) - 1) - 1 + 1 /\ 1 + i - 1 = i
        BY <3>2
      <4> QED BY <3>3, <4>1
    <3> QED BY <3>3, <3>4, <3>5
  <2> HIDE DEF kept
  <2>8. NoHole(kept) /\ \A i \in 1..Len(kept) : kept[i].final
    <3>1. ASSUME NEW i \in 1..Len(kept)
          PROVE  kept[i] = ring[i] /\ kept[1] = ring[1] /\ i \in 1..Len(ring) /\ i # Len(ring)
      BY <1>1, <2>7
    <3>2. \A i \in 1..Len(kept) : kept[i].t = kept[1].t + i - 1 /\ kept[i].final
      BY <3>1 DEF NoHole
    <3> QED BY <3>2 DEF NoHole
  <2>9. kept # <<>> => fresh[1].t = kept[1].t + Len(kept)
    <3>1. ASSUME kept # <<>> PROVE kept[1] = ring[1]
      BY <1>1, <2>7, <3>1, EmptySeq
    <3>2. fresh[1].t = ring[1].t + Len(ring) - 1
      BY <1>4, <1>8, <2>2, <2>5
    <3>3. ring[1].t + Len(ring) - 1 = ring[1].t + (Len(ring) - 1)
      BY <1>1, <1>3, <1>8
    <3> QED BY <2>7, <3>1, <3>2, <3>3
  <2>10. /\ kept \o fresh \in Seq(RingBars) /\ NoHole(kept \o fresh)
         /\ kept \o fresh # <<>> /\ LastOf(kept \o fresh) = LastOf(fresh)
    BY <2>5, <2>7, <2>8, <2>9, JoinedRuns
  <2>11. PICK all : all = kept \o fresh
    OBVIOUS
  <2>12. LET u == LastRows(all, MaxCandles)
         IN u \in Seq(RingBars) /\ NoHole(u) /\ Len(u) <= MaxCandles /\ u # <<>> /\ LastOf(u) = LastOf(all)
    <3>1. MaxCandles \in Nat /\ MaxCandles >= 1
      BY <1>0
    <3> QED BY <2>10, <2>11, <3>1, Trimmed
  <2> QED BY <1>0, <2>5, <2>6, <2>10, <2>11, <2>12
<1>9. CASE rows # <<>> /\ ring # <<>> /\ rows[1].t <= LastOf(ring).t /\ LastOf(rows).t >= LastOf(ring).t
  BY <1>3, <1>8, <1>9
<1> QED BY <1>3, <1>5, <1>6, <1>7, <1>9

-----------------------------------------------------------------------------
(* What holds as long as no read failed or came a bar late *)

\* A push with bars that is still to be applied.
Due(p) == p.pc = "sent" /\ p.rows # <<>>

\* Two bars never lie beyond the end of the ring: they reach back to its newest
\* bar, or, when it is empty, to the end of whatever may fill it before them.
Joins ==
    /\ ring # <<>> => \A k \in DOMAIN pushes :
           Due(pushes[k]) /\ Len(pushes[k].rows) = 2
               => pushes[k].rows[1].t <= LastOf(ring).t
    /\ ring = <<>> => \A k, m \in DOMAIN pushes :
           Due(pushes[k]) /\ Len(pushes[k].rows) = 2 /\ Due(pushes[m])
               => pushes[k].rows[1].t <= LastOf(pushes[m].rows).t

\* The ring has every bar the bridge has read, if it has any.
UpToDate == ring # <<>> => LastOf(ring).t >= readAt

\* The push the bridge is waiting for: until it is applied it holds what the bridge
\* has read, and then the ring does.  An empty ring has no other push beside it
\* unless a backfill is under way.
AnswersDue ==
    /\ \A k \in DOMAIN pushes : pushes[k].mine =>
           /\ feeder.pc = "waiting"
           /\ feeder.sends # "tick" /\ pushes[k].pc = "sent"
                  => pushes[k].rows # <<>> /\ LastOf(pushes[k].rows).t = readAt
           /\ feeder.sends # "tick" /\ pushes[k].pc # "sent" => ring # <<>> /\ UpToDate
           /\ feeder.sends = "tick" => UpToDate /\ pushes[k].rows = <<>>
           /\ feeder.sends # "backfill" /\ ring = <<>> => Len(pushes) = 1
    /\ \A k, m \in DOMAIN pushes : pushes[k].mine /\ pushes[m].mine => k = m

\* A bridge that thinks no backfill is needed is right: the ring is up to date, or
\* empty with nothing on its way into it.
NeedKnown == feeder.pc = "idle" /\ ~feeder.need
                 => UpToDate /\ (ring = <<>> => pushes = <<>>)

\* At most one bar has closed since the last read, unless a backfill is next.
ReadInTime == /\ readAt <= formingBar
              /\ (feeder.pc = "idle" /\ feeder.need) \/ formingBar <= readAt + 1

FeedSound ==
    /\ FeedKinds
    /\ \A k \in DOMAIN pushes : IsBatch(pushes[k].rows, readAt)
    /\ NoHole(ring) /\ Len(ring) <= Backfill
    /\ Joins /\ AnswersDue /\ NeedKnown /\ ReadInTime

FeedInv == missed \in BOOLEAN /\ (~missed => FeedSound)

LEMMA RunKinds ==
    ASSUME NEW s \in Seq(RingBars), s # <<>>, NoHole(s)
    PROVE  /\ Len(s) \in Nat /\ Len(s) >= 1 /\ s[1].t \in Int /\ LastOf(s).t \in Int
           /\ LastOf(s).t = s[1].t + Len(s) - 1
<1>1. Len(s) \in Nat /\ Len(s) >= 1
  BY LenProperties, EmptySeq
<1>2. Len(s) \in 1..Len(s) /\ 1 \in 1..Len(s)
  BY <1>1
<1>3. s[1] \in RingBars /\ LastOf(s) \in RingBars
  BY <1>2, ElementOfSeq DEF LastOf
<1>4. s[1].t \in Int /\ LastOf(s).t \in Int
  BY <1>3 DEF RingBars
<1>5. LastOf(s).t = s[1].t + Len(s) - 1
  BY <1>2 DEF NoHole, LastOf
<1> QED BY <1>1, <1>4, <1>5

LEMMA PushKinds ==
    ASSUME FeedKinds
    PROVE  /\ Len(pushes) \in Nat /\ DOMAIN pushes = 1..Len(pushes)
           /\ \A k \in DOMAIN pushes :
                  /\ pushes[k] \in Pushes /\ pushes[k].rows \in Seq(RingBars)
                  /\ pushes[k].mine \in BOOLEAN
<1>1. /\ Len(pushes) \in Nat /\ DOMAIN pushes = 1..Len(pushes)
      /\ \A k \in 1..Len(pushes) : pushes[k] \in Pushes
  BY ElementOfSeq, LenProperties DEF FeedKinds
<1> QED BY <1>1 DEF Pushes

LEMMA RatesAreRead ==
    ASSUME formingBar \in Int, NEW n \in Nat, n >= 1
    PROVE  LET u == Rates(n)
           IN /\ u \in Seq(RingBars) /\ Len(u) = n /\ u # <<>> /\ NoHole(u)
              /\ LastOf(u).t = formingBar /\ u[1].t = formingBar - n + 1
<1> DEFINE u == Rates(n)
<1>1. /\ u = [i \in 1..n |-> [t |-> formingBar - n + i, final |-> formingBar - n + i # formingBar]]
  BY DEF Rates
<1> HIDE DEF u
<1>2. \A i \in 1..n : /\ u[i] \in RingBars /\ u[i].t = formingBar - n + i
                      /\ (u[i].final <=> formingBar - n + i # formingBar)
  <2>1. ASSUME NEW i \in 1..n
        PROVE  u[i] = [t |-> formingBar - n + i, final |-> formingBar - n + i # formingBar]
    BY <1>1
  <2>2. ASSUME NEW i \in 1..n PROVE formingBar - n + i \in Int
    OBVIOUS
  <2>3. ASSUME NEW i \in 1..n
        PROVE  /\ u[i].t = formingBar - n + i
               /\ u[i].final = (formingBar - n + i # formingBar)
    <3>1. PICK x, f : x = formingBar - n + i /\ f = (formingBar - n + i # formingBar)
      OBVIOUS
    <3>2. u[i] = [t |-> x, final |-> f]
      BY <2>1, <3>1, Zenon
    <3>3. u[i].t = x /\ u[i].final = f
      BY <3>2
    <3> QED BY <3>1, <3>3, Zenon
  <2>4. ASSUME NEW i \in 1..n PROVE u[i] \in RingBars
    <3>1. PICK f : f = (formingBar - n + i # formingBar)
      OBVIOUS
    <3>2. f \in BOOLEAN
      BY <3>1, Zenon
    <3>3. u[i] = [t |-> formingBar - n + i, final |-> f]
      BY <2>1, <3>1, Zenon
    <3> QED BY <2>2, <3>2, <3>3 DEF RingBars
  <2> QED BY <2>3, <2>4
<1>3. u \in [1..n -> RingBars]
  BY <1>1, <1>2
<1>4. u \in Seq(RingBars) /\ Len(u) = n
  BY <1>3
<1>5. 1 \in 1..n /\ n \in 1..n
  OBVIOUS
<1>6. u # <<>> /\ LastOf(u).t = formingBar /\ u[1].t = formingBar - n + 1
  BY <1>2, <1>4, <1>5, EmptySeq DEF LastOf
<1>7. NoHole(u)
  BY <1>2, <1>4, <1>5 DEF NoHole
<1> QED BY <1>4, <1>6, <1>7 DEF u

LEMMA FeedStart == ASSUME FeedInit PROVE FeedInv
<1>1. FeedKinds
  <2>1. <<>> \in Seq(RingBars) /\ <<>> \in Seq(Pushes)
    BY EmptySeq
  <2>2. formingBar \in Int /\ readAt \in Int
    BY FeedAssumption DEF FeedInit
  <2>3. feeder \in [pc : {"idle", "waiting"}, sends : {"none", "backfill", "bars", "tick"}, need : BOOLEAN]
    BY DEF FeedInit
  <2> QED BY <2>1, <2>2, <2>3 DEF FeedInit, FeedKinds
<1>2. Len(ring) = 0 /\ pushes = <<>> /\ DOMAIN pushes = {} /\ ring = <<>>
  BY EmptySeq DEF FeedInit
<1>3. NoHole(ring)
  BY <1>2 DEF NoHole
<1>4. Joins /\ AnswersDue /\ NeedKnown /\ ReadInTime
  <2>1. feeder.pc = "idle" /\ feeder.need = TRUE /\ readAt = formingBar /\ readAt \in Int
    BY FeedAssumption DEF FeedInit
  <2> QED BY <1>2, <2>1 DEF Joins, AnswersDue, NeedKnown, ReadInTime
<1>5. missed = FALSE /\ 0 <= Backfill
  BY FeedAssumption DEF FeedInit
<1> QED BY <1>1, <1>2, <1>3, <1>4, <1>5 DEF FeedInv, FeedSound

-----------------------------------------------------------------------------
(* Each step keeps it *)

\* Only the state of the pushes changes, and none becomes due or mine.
LEMMA PushesMove ==
    ASSUME FeedSound, ring' = ring, readAt' = readAt, pushes' \in Seq(Pushes),
           Len(pushes') = Len(pushes),
           \A k \in DOMAIN pushes : /\ pushes'[k].rows = pushes[k].rows
                                    /\ pushes'[k].pc = "sent" => pushes[k].pc = "sent"
    PROVE  /\ DOMAIN pushes' = DOMAIN pushes
           /\ \A k \in DOMAIN pushes' : IsBatch(pushes'[k].rows, readAt')
           /\ Joins'
<1>1. DOMAIN pushes' = DOMAIN pushes
  <2>1. DOMAIN pushes' = 1..Len(pushes')
    BY LenProperties
  <2> QED BY <2>1, PushKinds DEF FeedSound
<1>2. \A k \in DOMAIN pushes : IsBatch(pushes'[k].rows, readAt')
  BY DEF FeedSound
<1>3. ring # <<>> => \A k \in DOMAIN pushes :
          Due(pushes'[k]) /\ Len(pushes'[k].rows) = 2 => pushes'[k].rows[1].t <= LastOf(ring).t
  BY DEF FeedSound, Joins, Due
<1>4. ring = <<>> => \A k, m \in DOMAIN pushes :
          Due(pushes'[k]) /\ Len(pushes'[k].rows) = 2 /\ Due(pushes'[m])
              => pushes'[k].rows[1].t <= LastOf(pushes'[m].rows).t
  BY DEF FeedSound, Joins, Due
<1>5. Joins'
  BY <1>1, <1>3, <1>4 DEF Joins
<1> QED BY <1>1, <1>2, <1>5

LEMMA AppliesSound ==
    ASSUME FeedSound, NEW i \in DOMAIN pushes, PushApplied(i)
    PROVE  FeedSound'
<1>1. /\ pushes[i].pc = "sent" /\ ring' = AppliedRows(pushes[i].rows)
      /\ pushes' = [j \in DOMAIN pushes |->
                       IF j = i THEN [pushes[i] EXCEPT !.pc = "sending", !.latest = TRUE]
                       ELSE [pushes[j] EXCEPT !.latest = FALSE]]
      /\ formingBar' = formingBar /\ feeder' = feeder /\ readAt' = readAt
  BY DEF PushApplied
<1>2. /\ Len(pushes) \in Nat /\ DOMAIN pushes = 1..Len(pushes)
      /\ \A k \in DOMAIN pushes : /\ pushes[k] \in Pushes /\ pushes[k].rows \in Seq(RingBars)
                                  /\ pushes[k].mine \in BOOLEAN
  BY PushKinds DEF FeedSound
<1>3. \A k \in DOMAIN pushes :
          /\ pushes'[k] \in Pushes /\ pushes'[k].rows = pushes[k].rows
          /\ pushes'[k].mine = pushes[k].mine
          /\ k # i => pushes'[k].pc = pushes[k].pc
          /\ k = i => pushes'[k].pc = "sending"
  BY <1>1, <1>2 DEF Pushes
<1>4. pushes' \in Seq(Pushes) /\ Len(pushes') = Len(pushes) /\ DOMAIN pushes' = DOMAIN pushes
  <2>1. pushes' \in [1..Len(pushes) -> Pushes]
    BY <1>1, <1>2, <1>3
  <2> QED BY <1>2, <2>1
<1>5. PICK rows : rows = pushes[i].rows
  OBVIOUS
<1>6. /\ rows \in Seq(RingBars) /\ NoHole(rows) /\ Len(rows) <= Backfill
      /\ rows # <<>> => Len(rows) \in {2, Backfill}
  <2>1. IsBatch(rows, readAt) /\ rows \in Seq(RingBars)
    BY <1>2, <1>5 DEF FeedSound
  <2>2. Len(rows) \in {0, 2, Backfill}
    BY <2>1 DEF IsBatch
  <2>3. NoHole(rows)
    BY <2>1 DEF IsBatch
  <2>4. rows # <<>> => Len(rows) # 0
    BY <2>1, RunKinds, <2>3
  <2>5. Len(rows) <= Backfill
    <3>1. Backfill \in Nat /\ Backfill >= 4
      BY FeedAssumption
    <3>2. 0 <= Backfill /\ 2 <= Backfill /\ Backfill <= Backfill
      BY <3>1
    <3> QED BY <2>2, <3>2
  <2> QED BY <2>1, <2>2, <2>3, <2>4, <2>5
<1>7. /\ ring \in Seq(RingBars) /\ NoHole(ring) /\ Len(ring) <= Backfill
      /\ rows # <<>> /\ ring # <<>> /\ Len(rows) # Backfill => rows[1].t <= LastOf(ring).t
  BY <1>1, <1>5, <1>6 DEF FeedSound, FeedKinds, Joins, Due
<1>8. PICK u : u = AppliedRows(rows) /\ ring' = u
  BY <1>1, <1>5
<1>9. /\ u \in Seq(RingBars) /\ NoHole(u) /\ Len(u) <= Backfill
      /\ ring # <<>> => u # <<>> /\ LastOf(u).t >= LastOf(ring).t
      /\ rows # <<>> => u # <<>> /\ LastOf(u).t >= LastOf(rows).t
      /\ rows = <<>> => u = ring
  BY <1>6, <1>7, <1>8, Applied
<1>10. /\ ring # <<>> => LastOf(ring).t \in Int
       /\ u # <<>> => LastOf(u).t \in Int
       /\ \A k \in DOMAIN pushes : pushes[k].rows # <<>> =>
              pushes[k].rows[1].t \in Int /\ LastOf(pushes[k].rows).t \in Int
  <2>1. \A k \in DOMAIN pushes : NoHole(pushes[k].rows)
    BY DEF FeedSound, IsBatch
  <2> QED BY <1>2, <1>7, <1>9, <2>1, RunKinds
<1>11. FeedKinds'
  BY <1>1, <1>4, <1>8, <1>9 DEF FeedSound, FeedKinds
<1>12. \A k \in DOMAIN pushes' : IsBatch(pushes'[k].rows, readAt')
  BY <1>1, <1>3, <1>4 DEF FeedSound
<1>13. Joins'
  <2>1. ASSUME u # <<>>, NEW k \in DOMAIN pushes, Due(pushes'[k]), Len(pushes'[k].rows) = 2
        PROVE  pushes'[k].rows[1].t <= LastOf(u).t
    <3>1. k # i /\ Due(pushes[k]) /\ Len(pushes[k].rows) = 2 /\ pushes[k].rows # <<>>
      BY <1>3, <2>1 DEF Due
    <3>2. pushes[k].rows[1].t \in Int
      BY <1>10, <3>1
    <3>3. CASE ring # <<>>
      <4>1. pushes[k].rows[1].t <= LastOf(ring).t
        BY <3>1, <3>3 DEF FeedSound, Joins
      <4> QED BY <1>3, <1>9, <1>10, <3>2, <3>3, <4>1
    <3>4. CASE ring = <<>>
      <4>1. rows # <<>>
        BY <1>9, <2>1, <3>4
      <4>2. pushes[k].rows[1].t <= LastOf(rows).t
        BY <1>1, <1>5, <3>1, <3>4, <4>1 DEF FeedSound, Joins, Due
      <4> QED BY <1>3, <1>5, <1>9, <1>10, <3>2, <4>1, <4>2
    <3> QED BY <3>3, <3>4
  <2>2. ASSUME u = <<>>, NEW k \in DOMAIN pushes, NEW m \in DOMAIN pushes,
               Due(pushes'[k]), Len(pushes'[k].rows) = 2, Due(pushes'[m])
        PROVE  pushes'[k].rows[1].t <= LastOf(pushes'[m].rows).t
    <3>1. ring = <<>> /\ k # i /\ m # i
      BY <1>3, <1>9, <2>2 DEF Due
    <3> QED BY <1>3, <2>2, <3>1 DEF FeedSound, Joins, Due
  <2> QED BY <1>4, <1>8, <2>1, <2>2 DEF Joins
<1>14. UpToDate /\ ring # <<>> => UpToDate' /\ ring' # <<>>
  <2>1. ASSUME ring # <<>>, LastOf(ring).t >= readAt PROVE LastOf(u).t >= readAt /\ u # <<>>
    BY <1>9, <1>10, <2>1 DEF FeedSound, FeedKinds
  <2> QED BY <1>1, <1>8, <2>1 DEF UpToDate
<1>15. AnswersDue'
  <2>1. ASSUME NEW k \in DOMAIN pushes, pushes[k].mine
        PROVE  /\ feeder.pc = "waiting"
               /\ feeder.sends # "tick" /\ pushes'[k].pc = "sent"
                      => pushes[k].rows # <<>> /\ LastOf(pushes[k].rows).t = readAt
               /\ feeder.sends # "tick" /\ pushes'[k].pc # "sent" => ring' # <<>> /\ UpToDate'
               /\ feeder.sends = "tick" => UpToDate' /\ pushes[k].rows = <<>>
               /\ feeder.sends # "backfill" /\ ring' = <<>> => Len(pushes) = 1
    <3>1. /\ feeder.pc = "waiting"
          /\ feeder.sends # "tick" /\ pushes[k].pc = "sent"
                 => pushes[k].rows # <<>> /\ LastOf(pushes[k].rows).t = readAt
          /\ feeder.sends # "tick" /\ pushes[k].pc # "sent" => ring # <<>> /\ UpToDate
          /\ feeder.sends = "tick" => UpToDate /\ pushes[k].rows = <<>>
          /\ feeder.sends # "backfill" /\ ring = <<>> => Len(pushes) = 1
      BY <2>1 DEF FeedSound, AnswersDue
    <3>2. ring' = <<>> => ring = <<>>
      BY <1>8, <1>9
    <3>3. feeder.sends # "tick" /\ pushes'[k].pc # "sent" => ring' # <<>> /\ UpToDate'
      <4>1. ASSUME feeder.sends # "tick", k = i PROVE u # <<>> /\ LastOf(u).t >= readAt
        <5>1. rows # <<>> /\ LastOf(rows).t = readAt
          BY <1>1, <1>5, <3>1, <4>1
        <5> QED BY <1>9, <5>1
      <4> QED BY <1>1, <1>3, <1>8, <1>14, <3>1, <4>1 DEF UpToDate
    <3>4. feeder.sends = "tick" => UpToDate'
      <4>1. ASSUME feeder.sends = "tick", ring = <<>> PROVE ring' = <<>>
        <5>1. Len(pushes) = 1
          BY <3>1, <4>1
        <5>2. k \in 1..1 /\ i \in 1..1
          BY <1>2, <5>1
        <5>3. k = i
          BY <5>2
        <5> QED BY <1>5, <1>8, <1>9, <3>1, <4>1, <5>3
      <4> QED BY <1>14, <3>1, <4>1 DEF UpToDate
    <3> QED BY <1>3, <3>1, <3>2, <3>3, <3>4
  <2>2. \A k, m \in DOMAIN pushes : pushes'[k].mine /\ pushes'[m].mine => k = m
    BY <1>3 DEF FeedSound, AnswersDue
  <2> QED BY <1>1, <1>3, <1>4, <2>1, <2>2 DEF AnswersDue
<1>16. NeedKnown'
  <2>1. pushes # <<>>
    BY <1>2, EmptySeq
  <2> QED BY <1>1, <1>14, <2>1 DEF FeedSound, NeedKnown
<1>17. ReadInTime'
  BY <1>1 DEF FeedSound, ReadInTime
<1>18. NoHole(ring') /\ Len(ring') <= Backfill
  BY <1>8, <1>9
<1> QED BY <1>11, <1>12, <1>13, <1>15, <1>16, <1>17, <1>18 DEF FeedSound

LEMMA BroadcastSound ==
    ASSUME FeedSound, NEW i \in DOMAIN pushes, PushBroadcast(i)
    PROVE  FeedSound'
<1>1. /\ pushes[i].pc = "sending" /\ pushes' = [pushes EXCEPT ![i].pc = "answer"]
      /\ ring' = ring /\ formingBar' = formingBar /\ feeder' = feeder /\ readAt' = readAt
  BY DEF PushBroadcast
<1>2. /\ Len(pushes) \in Nat /\ DOMAIN pushes = 1..Len(pushes)
      /\ \A k \in DOMAIN pushes : pushes[k] \in Pushes
  BY PushKinds DEF FeedSound
<1>3. /\ DOMAIN pushes' = DOMAIN pushes
      /\ \A k \in DOMAIN pushes :
            /\ pushes'[k] \in Pushes /\ pushes'[k].rows = pushes[k].rows
            /\ pushes'[k].mine = pushes[k].mine
            /\ pushes'[k].pc = "sent" <=> pushes[k].pc = "sent"
  BY <1>1, <1>2 DEF Pushes
<1>4. pushes' \in Seq(Pushes) /\ Len(pushes') = Len(pushes)
  <2>1. pushes' \in [1..Len(pushes) -> Pushes]
    BY <1>1, <1>2, <1>3
  <2> QED BY <1>2, <2>1
<1>5. (\A k \in DOMAIN pushes' : IsBatch(pushes'[k].rows, readAt')) /\ Joins'
  BY <1>1, <1>3, <1>4, PushesMove
<1>6. FeedKinds' /\ NoHole(ring') /\ Len(ring') <= Backfill
  BY <1>1, <1>4 DEF FeedSound, FeedKinds
<1>7. AnswersDue'
  BY <1>1, <1>3, <1>4 DEF FeedSound, AnswersDue, UpToDate
<1>8. NeedKnown'
  <2>1. pushes # <<>>
    BY <1>2, EmptySeq
  <2> QED BY <1>1, <2>1 DEF FeedSound, NeedKnown, UpToDate
<1>9. ReadInTime'
  BY <1>1 DEF FeedSound, ReadInTime
<1> QED BY <1>5, <1>6, <1>7, <1>8, <1>9 DEF FeedSound

LEMMA AnswerSound ==
    ASSUME FeedSound, NEW i \in DOMAIN pushes, PushAnswered(i)
    PROVE  FeedSound'
<1>1. /\ pushes[i].pc = "answer"
      /\ IF pushes[i].mine THEN Acknowledged(Len(ring)) ELSE UNCHANGED feeder
      /\ pushes' = SubSeq(pushes, 1, i - 1) \o SubSeq(pushes, i + 1, Len(pushes))
      /\ ring' = ring /\ formingBar' = formingBar /\ readAt' = readAt
  BY DEF PushAnswered
<1>2. /\ Len(pushes) \in Nat /\ DOMAIN pushes = 1..Len(pushes)
      /\ \A k \in DOMAIN pushes : pushes[k] \in Pushes
  BY PushKinds DEF FeedSound
<1>3. PICK n \in Nat : n = Len(pushes)
  BY <1>2
<1>4. i \in 1..n /\ \A k \in 1..n : pushes[k] \in Pushes
  BY <1>2, <1>3
<1>5. PICK a : a = SubSeq(pushes, 1, i - 1)
  OBVIOUS
<1>6. /\ a \in Seq(Pushes) /\ Len(a) = i - 1
      /\ \A k \in 1..i - 1 : a[k] = pushes[k]
  <2>1. 1 \in Int /\ i - 1 \in Int /\ \A k \in 1..i - 1 : pushes[k] \in Pushes
    BY <1>4
  <2>2. /\ a \in Seq(Pushes)
        /\ Len(a) = IF 1 <= i - 1 THEN (i - 1) - 1 + 1 ELSE 0
        /\ \A k \in 1..(i - 1) - 1 + 1 : a[k] = pushes[1 + k - 1]
    BY <1>5, <2>1, SubSeqProperties
  <2>3. (i - 1) - 1 + 1 = i - 1 /\ \A k \in 1..i - 1 : 1 + k - 1 = k
    BY <1>4
  <2>4. Len(a) = i - 1
    BY <1>4, <2>2
  <2> QED BY <2>2, <2>3, <2>4
<1>7. PICK b : b = SubSeq(pushes, i + 1, Len(pushes))
  OBVIOUS
<1>8. /\ b \in Seq(Pushes) /\ Len(b) = n - i
      /\ \A k \in 1..n - i : b[k] = pushes[i + k]
  <2>1. i + 1 \in Int /\ n \in Int /\ \A k \in i + 1..n : pushes[k] \in Pushes
    BY <1>4
  <2>2. /\ b \in Seq(Pushes)
        /\ Len(b) = IF i + 1 <= n THEN n - (i + 1) + 1 ELSE 0
        /\ \A k \in 1..n - (i + 1) + 1 : b[k] = pushes[(i + 1) + k - 1]
    BY <1>3, <1>7, <2>1, SubSeqProperties
  <2>3. n - (i + 1) + 1 = n - i /\ \A k \in 1..n - i : (i + 1) + k - 1 = i + k
    BY <1>4
  <2>4. Len(b) = n - i
    BY <1>4, <2>2
  <2> QED BY <2>2, <2>3, <2>4
<1>9. /\ pushes' \in Seq(Pushes) /\ Len(pushes') = Len(a) + Len(b)
      /\ \A k \in 1..Len(a) + Len(b) : pushes'[k] = IF k <= Len(a) THEN a[k] ELSE b[k - Len(a)]
  <2>1. pushes' = a \o b
    BY <1>1, <1>5, <1>7
  <2>2. /\ a \o b \in Seq(Pushes) /\ Len(a \o b) = Len(a) + Len(b)
        /\ \A k \in 1..Len(a) + Len(b) :
               (a \o b)[k] = IF k <= Len(a) THEN a[k] ELSE b[k - Len(a)]
    BY <1>6, <1>8, ConcatProperties
  <2> QED BY <2>1, <2>2
<1>10. Len(pushes') = n - 1 /\ DOMAIN pushes' = 1..n - 1
  <2>1. Len(pushes') = n - 1
    BY <1>4, <1>6, <1>8, <1>9
  <2> QED BY <1>9, <2>1, LenProperties
\* Where each of the pushes that stay was.
<1>11. PICK old : old = [k \in 1..n - 1 |-> IF k < i THEN k ELSE k + 1]
  OBVIOUS
<1>12. \A k \in DOMAIN pushes' : /\ old[k] \in DOMAIN pushes /\ old[k] # i
                                 /\ pushes'[k] = pushes[old[k]]
  <2>1. ASSUME NEW k \in 1..n - 1 PROVE /\ old[k] \in 1..n /\ old[k] # i
                                        /\ pushes'[k] = pushes[old[k]]
    <3>1. k \in 1..Len(a) + Len(b)
      BY <1>4, <1>6, <1>8
    <3>2. CASE k < i
      <4>1. k <= Len(a) /\ k \in 1..i - 1
        BY <1>4, <1>6, <3>2
      <4>2. pushes'[k] = a[k] /\ old[k] = k
        BY <1>9, <1>11, <3>1, <3>2, <4>1
      <4> QED BY <1>4, <1>6, <3>2, <4>1, <4>2
    <3>3. CASE ~(k < i)
      <4>1. ~(k <= Len(a)) /\ k - Len(a) \in 1..n - i /\ i + (k - Len(a)) = k + 1
        BY <1>4, <1>6, <3>3
      <4>2. pushes'[k] = b[k - Len(a)] /\ old[k] = k + 1
        BY <1>9, <1>11, <3>1, <3>3, <4>1
      <4>3. b[k - Len(a)] = pushes[i + (k - Len(a))]
        BY <1>8, <4>1
      <4>4. k + 1 \in 1..n /\ k + 1 # i
        BY <1>4, <3>3
      <4> QED BY <4>1, <4>2, <4>3, <4>4
    <3> QED BY <3>2, <3>3
  <2> QED BY <1>2, <1>3, <1>10, <2>1
<1>13. \A k, m \in DOMAIN pushes' : old[k] = old[m] => k = m
  <2>1. \A k, m \in 1..n - 1 : old[k] = old[m] => k = m
    BY <1>4, <1>11
  <2> QED BY <1>10, <2>1
<1>14. \A k \in DOMAIN pushes' : IsBatch(pushes'[k].rows, readAt')
  BY <1>1, <1>12 DEF FeedSound
<1>15. Joins'
  <2>1. ring # <<>> => \A k \in DOMAIN pushes' :
            Due(pushes'[k]) /\ Len(pushes'[k].rows) = 2
                => pushes'[k].rows[1].t <= LastOf(ring).t
    BY <1>12 DEF FeedSound, Joins
  <2>2. ring = <<>> => \A k, m \in DOMAIN pushes' :
            Due(pushes'[k]) /\ Len(pushes'[k].rows) = 2 /\ Due(pushes'[m])
                => pushes'[k].rows[1].t <= LastOf(pushes'[m].rows).t
    BY <1>12 DEF FeedSound, Joins
  <2> QED BY <1>1, <2>1, <2>2 DEF Joins
<1>16. FeedKinds' /\ NoHole(ring') /\ Len(ring') <= Backfill
  <2>1. feeder' \in [pc : {"idle", "waiting"}, sends : {"none", "backfill", "bars", "tick"}, need : BOOLEAN]
    <3>1. PICK asks : asks = (feeder.sends # "backfill" /\ Shallow(Len(ring)))
      OBVIOUS
    <3>2. asks \in BOOLEAN
      BY <3>1, Zenon
    <3>3. feeder' = [feeder EXCEPT !.pc = "idle", !.need = asks] \/ feeder' = feeder
      BY <1>1, <3>1, Zenon DEF Acknowledged
    <3> QED BY <3>2, <3>3 DEF FeedSound, FeedKinds
  <2> QED BY <1>1, <1>9, <2>1 DEF FeedSound, FeedKinds
<1>17. CASE pushes[i].mine
  <2>1. /\ feeder'.pc = "idle" /\ feeder.pc = "waiting"
        /\ ~feeder'.need => feeder.sends = "backfill" \/ ~Shallow(Len(ring))
    <3>1. feeder.pc = "waiting"
      BY <1>17 DEF FeedSound, AnswersDue
    <3>2. feeder' = [feeder EXCEPT !.pc = "idle",
                                   !.need = feeder.sends # "backfill" /\ Shallow(Len(ring))]
      BY <1>1, <1>17 DEF Acknowledged
    <3>3. DOMAIN feeder = {"pc", "sends", "need"}
      BY DEF FeedSound, FeedKinds
    <3>4. feeder'.pc = "idle" /\ feeder'.need = (feeder.sends # "backfill" /\ Shallow(Len(ring)))
      BY <3>2, <3>3
    <3> QED BY <3>1, <3>4
  <2>2. UpToDate
    BY <1>1, <1>17 DEF FeedSound, AnswersDue
  <2>3. ring = <<>> => feeder.sends # "backfill" /\ Shallow(Len(ring))
    <3>1. ASSUME ring = <<>> PROVE feeder.sends # "backfill"
      BY <1>1, <1>17, <3>1 DEF FeedSound, AnswersDue
    <3>2. ASSUME ring = <<>> PROVE Shallow(Len(ring))
      <4>1. Len(ring) = 0
        BY <3>2, EmptySeq
      <4>2. Backfill \in Nat /\ Backfill >= 4
        BY FeedAssumption
      <4>3. 0 < Backfill \div 2
        BY <4>2
      <4> QED BY <4>1, <4>3 DEF Shallow
    <3> QED BY <3>1, <3>2
  <2>4. NeedKnown'
    BY <1>1, <2>1, <2>2, <2>3 DEF NeedKnown, UpToDate
  <2>5. \A k \in DOMAIN pushes' : ~pushes'[k].mine
    BY <1>12, <1>17 DEF FeedSound, AnswersDue
  <2>6. AnswersDue'
    BY <2>5 DEF AnswersDue
  <2>7. ReadInTime'
    BY <1>1, <2>1 DEF FeedSound, ReadInTime
  <2> QED BY <1>14, <1>15, <1>16, <2>4, <2>6, <2>7 DEF FeedSound
<1>18. CASE ~pushes[i].mine
  <2>1. feeder' = feeder
    BY <1>1, <1>18
  <2>2. ASSUME NEW k \in DOMAIN pushes, k # i PROVE Len(pushes) # 1
    <3>1. k \in 1..n /\ i \in 1..n
      BY <1>2, <1>3
    <3> QED BY <1>3, <2>2, <3>1
  <2>3. AnswersDue'
    <3>1. \A k, m \in DOMAIN pushes' : pushes'[k].mine /\ pushes'[m].mine => k = m
      BY <1>12, <1>13 DEF FeedSound, AnswersDue
    <3>2. ASSUME NEW k \in DOMAIN pushes', pushes'[k].mine
          PROVE  /\ feeder.pc = "waiting"
                 /\ feeder.sends # "tick" /\ pushes'[k].pc = "sent"
                        => pushes'[k].rows # <<>> /\ LastOf(pushes'[k].rows).t = readAt
                 /\ feeder.sends # "tick" /\ pushes'[k].pc # "sent" => ring # <<>> /\ UpToDate
                 /\ feeder.sends = "tick" => UpToDate /\ pushes'[k].rows = <<>>
                 /\ ~(feeder.sends # "backfill" /\ ring = <<>>)
      BY <1>12, <2>2, <3>2 DEF FeedSound, AnswersDue
    <3>3. UpToDate' <=> UpToDate
      BY <1>1 DEF UpToDate
    <3> QED BY <1>1, <2>1, <3>1, <3>2, <3>3 DEF AnswersDue
  <2>4. NeedKnown'
    <3>1. pushes # <<>>
      BY <1>2, EmptySeq
    <3> QED BY <1>1, <2>1, <3>1 DEF FeedSound, NeedKnown, UpToDate
  <2>5. ReadInTime'
    BY <1>1, <2>1 DEF FeedSound, ReadInTime
  <2> QED BY <1>14, <1>15, <1>16, <2>3, <2>4, <2>5 DEF FeedSound
<1> QED BY <1>17, <1>18

LEMMA BridgeSound ==
    ASSUME FeedSound, NEW sends \in {"backfill", "bars", "tick"}, BridgePushes(sends)
    PROVE  FeedSound'
<1>1. PICK p : p = [rows |-> BatchRows(sends), pc |-> "sent", mine |-> TRUE, latest |-> FALSE]
  OBVIOUS
<1>2. /\ feeder.pc = "idle" /\ (sends = "backfill" <=> feeder.need)
      /\ feeder' = [feeder EXCEPT !.pc = "waiting", !.sends = sends]
      /\ pushes' = Append(pushes, p)
      /\ readAt' = IF sends = "tick" THEN readAt ELSE formingBar
      /\ formingBar' = formingBar /\ ring' = ring
  BY <1>1 DEF BridgePushes, Pushed
<1>3. PICK rows : rows = BatchRows(sends)
  OBVIOUS
<1>4. formingBar \in Int /\ readAt \in Int /\ readAt <= formingBar
  BY DEF FeedSound, FeedKinds, ReadInTime
<1>5. /\ rows \in Seq(RingBars) /\ NoHole(rows)
      /\ sends = "tick" => rows = <<>> /\ Len(rows) = 0
      /\ sends # "tick" => rows # <<>> /\ LastOf(rows).t = formingBar
      /\ sends = "bars" => Len(rows) = 2 /\ rows[1].t = formingBar - 1
      /\ sends = "backfill" => Len(rows) = Backfill
  <2>1. CASE sends = "tick"
    <3>1. rows = <<>> /\ Len(rows) = 0 /\ rows \in Seq(RingBars)
      BY <1>3, <2>1, EmptySeq DEF BatchRows
    <3>2. NoHole(rows)
      BY <3>1 DEF NoHole
    <3> QED BY <2>1, <3>1, <3>2
  <2>2. CASE sends = "bars"
    <3>1. rows = Rates(2)
      BY <1>3, <2>2 DEF BatchRows
    <3>2. formingBar - 2 + 1 = formingBar - 1
      BY <1>4
    <3>3. 2 \in Nat /\ 2 >= 1
      OBVIOUS
    <3>4. /\ rows \in Seq(RingBars) /\ Len(rows) = 2 /\ rows # <<>> /\ NoHole(rows)
          /\ LastOf(rows).t = formingBar /\ rows[1].t = formingBar - 2 + 1
      BY <1>4, <3>1, <3>3, RatesAreRead
    <3> QED BY <2>2, <3>2, <3>4
  <2>3. CASE sends = "backfill"
    <3>1. rows = Rates(Backfill)
      BY <1>3, <2>3 DEF BatchRows
    <3>2. Backfill \in Nat /\ Backfill >= 1
      BY FeedAssumption
    <3> QED BY <1>4, <2>3, <3>1, <3>2, RatesAreRead
  <2> QED BY <2>1, <2>2, <2>3
<1>6. p \in Pushes /\ p.rows = rows /\ p.pc = "sent" /\ p.mine
  BY <1>1, <1>3, <1>5 DEF Pushes
<1>7. /\ Len(pushes) \in Nat /\ DOMAIN pushes = 1..Len(pushes)
      /\ \A k \in DOMAIN pushes : /\ pushes[k] \in Pushes /\ pushes[k].rows \in Seq(RingBars)
                                  /\ pushes[k].mine \in BOOLEAN
  BY PushKinds DEF FeedSound
<1>8. PICK n \in Nat : n = Len(pushes) + 1 /\ n >= 1
  BY <1>7
<1>9. /\ pushes' \in Seq(Pushes) /\ Len(pushes') = n /\ DOMAIN pushes' = 1..n
      /\ pushes'[n] = p
      /\ \A k \in DOMAIN pushes' : k # n => k \in DOMAIN pushes /\ pushes'[k] = pushes[k]
  <2>1. /\ pushes' \in Seq(Pushes) /\ Len(pushes') = n
        /\ \A k \in 1..Len(pushes) : pushes'[k] = pushes[k]
        /\ pushes'[n] = p
    BY <1>2, <1>6, <1>8, AppendProperties DEF FeedSound, FeedKinds
  <2>2. DOMAIN pushes' = 1..n
    BY <2>1, LenProperties
  <2>3. \A k \in 1..n : k # n => k \in 1..Len(pushes)
    BY <1>7, <1>8
  <2> QED BY <1>7, <2>1, <2>2, <2>3
<1>10. n \in DOMAIN pushes'
  BY <1>8, <1>9
<1>11. /\ feeder'.pc = "waiting" /\ feeder'.sends = sends
       /\ feeder' \in [pc : {"idle", "waiting"}, sends : {"none", "backfill", "bars", "tick"},
                       need : BOOLEAN]
  BY <1>2 DEF FeedSound, FeedKinds
<1>12. FeedKinds' /\ NoHole(ring') /\ Len(ring') <= Backfill
  BY <1>2, <1>4, <1>9, <1>11 DEF FeedSound, FeedKinds
<1>13. readAt' \in Int /\ readAt <= readAt' /\ readAt' <= formingBar
  BY <1>2, <1>4
<1>14. \A k \in DOMAIN pushes : pushes[k].rows # <<>> =>
           /\ pushes[k].rows[1].t \in Int /\ LastOf(pushes[k].rows).t \in Int
           /\ pushes[k].rows[1].t <= LastOf(pushes[k].rows).t
           /\ LastOf(pushes[k].rows).t <= readAt
  <2>1. ASSUME NEW k \in DOMAIN pushes, pushes[k].rows # <<>>
        PROVE  /\ pushes[k].rows[1].t \in Int /\ LastOf(pushes[k].rows).t \in Int
               /\ pushes[k].rows[1].t <= LastOf(pushes[k].rows).t
               /\ LastOf(pushes[k].rows).t <= readAt
    <3>1. NoHole(pushes[k].rows) /\ LastOf(pushes[k].rows).t <= readAt
      BY <2>1 DEF FeedSound, IsBatch
    <3>2. PICK s : s = pushes[k].rows
      OBVIOUS
    <3>3. /\ Len(s) \in Nat /\ Len(s) >= 1 /\ s[1].t \in Int /\ LastOf(s).t \in Int
          /\ LastOf(s).t = s[1].t + Len(s) - 1
      BY <1>7, <2>1, <3>1, <3>2, RunKinds
    <3>4. s[1].t <= LastOf(s).t
      BY <3>3
    <3> QED BY <3>1, <3>2, <3>3, <3>4
  <2> QED BY <2>1
<1>15. \A k \in DOMAIN pushes' : IsBatch(pushes'[k].rows, readAt')
  <2>1. ASSUME NEW k \in DOMAIN pushes', k # n PROVE IsBatch(pushes'[k].rows, readAt')
    <3>1. /\ k \in DOMAIN pushes /\ pushes'[k] = pushes[k]
          /\ IsBatch(pushes[k].rows, readAt)
      BY <1>9, <2>1 DEF FeedSound
    <3>2. pushes[k].rows # <<>> => LastOf(pushes[k].rows).t <= readAt'
      BY <1>4, <1>13, <1>14, <3>1
    <3> QED BY <3>1, <3>2 DEF IsBatch
  <2>2. IsBatch(rows, readAt')
    <3>1. Len(rows) \in {0, 2, Backfill}
      BY <1>5
    <3>2. rows # <<>> => LastOf(rows).t <= readAt'
      BY <1>2, <1>4, <1>5
    <3> QED BY <1>5, <3>1, <3>2 DEF IsBatch
  <2> QED BY <1>6, <1>9, <2>1, <2>2
<1>16. sends = "bars" => UpToDate /\ (ring = <<>> => pushes = <<>>) /\ formingBar <= readAt + 1
  BY <1>2 DEF FeedSound, NeedKnown, ReadInTime
<1>17. ring # <<>> => LastOf(ring).t \in Int
  BY RunKinds DEF FeedSound, FeedKinds
<1>18. Joins'
  <2>1. ASSUME ring # <<>>, NEW k \in DOMAIN pushes', Due(pushes'[k]), Len(pushes'[k].rows) = 2
        PROVE  pushes'[k].rows[1].t <= LastOf(ring).t
    <3>1. CASE k # n
      BY <1>9, <2>1, <3>1 DEF FeedSound, Joins
    <3>2. CASE k = n
      <4>1. sends = "bars"
        <5>1. Backfill # 2
          BY FeedAssumption
        <5>2. Len(rows) = 2
          BY <1>6, <1>9, <2>1, <3>2
        <5>3. sends # "tick" /\ sends # "backfill"
          BY <1>5, <5>1, <5>2
        <5> QED BY <5>3
      <4>2. rows[1].t = formingBar - 1 /\ LastOf(ring).t >= readAt /\ formingBar <= readAt + 1
        BY <1>5, <1>16, <2>1, <4>1 DEF UpToDate
      <4>3. rows[1].t <= LastOf(ring).t
        BY <1>4, <1>17, <2>1, <4>2
      <4> QED BY <1>6, <1>9, <3>2, <4>3
    <3> QED BY <3>1, <3>2
  <2>2. ASSUME ring = <<>>, NEW k \in DOMAIN pushes', NEW m \in DOMAIN pushes',
               Due(pushes'[k]), Len(pushes'[k].rows) = 2, Due(pushes'[m])
        PROVE  pushes'[k].rows[1].t <= LastOf(pushes'[m].rows).t
    <3>1. CASE k # n /\ m # n
      BY <1>9, <2>2, <3>1 DEF FeedSound, Joins
    <3>2. CASE k # n /\ m = n
      <4>1. k \in DOMAIN pushes /\ pushes'[k] = pushes[k] /\ pushes[k].rows # <<>>
        BY <1>9, <2>2, <3>2 DEF Due
      <4>2. LastOf(rows).t = formingBar
        BY <1>5, <1>6, <1>9, <2>2, <3>2 DEF Due
      <4>3. pushes[k].rows[1].t <= LastOf(rows).t
        BY <1>4, <1>14, <4>1, <4>2
      <4> QED BY <1>6, <1>9, <3>2, <4>1, <4>3
    <3>3. CASE k = n
      <4>1. sends = "bars"
        <5>1. Backfill # 2
          BY FeedAssumption
        <5>2. Len(rows) = 2
          BY <1>6, <1>9, <2>2, <3>3
        <5>3. sends # "tick" /\ sends # "backfill"
          BY <1>5, <5>1, <5>2
        <5> QED BY <5>3
      <4>2. DOMAIN pushes = {} /\ m = n
        <5>1. pushes = <<>>
          BY <1>16, <2>2, <4>1
        <5>2. Len(pushes) = 0
          BY <5>1, EmptySeq
        <5>3. 1..0 = {}
          OBVIOUS
        <5>4. DOMAIN pushes = {}
          BY <1>7, <5>2, <5>3
        <5> QED BY <1>9, <5>4
      <4>3. rows[1].t <= LastOf(rows).t
        BY <1>4, <1>5, <4>1
      <4> QED BY <1>6, <1>9, <3>3, <4>2, <4>3
    <3> QED BY <3>1, <3>2, <3>3
  <2> QED BY <1>2, <2>1, <2>2 DEF Joins
<1>19. AnswersDue'
  <2>1. \A k \in DOMAIN pushes' : k # n => ~pushes'[k].mine
    BY <1>2, <1>9 DEF FeedSound, AnswersDue
  <2>2. ~feeder.need => UpToDate /\ (ring = <<>> => pushes = <<>>)
    BY <1>2 DEF FeedSound, NeedKnown
  <2>3. sends = "tick" => UpToDate'
    BY <1>2, <2>2 DEF UpToDate
  <2>4. sends # "backfill" /\ ring = <<>> => Len(pushes') = 1
    <3>1. ASSUME pushes = <<>> PROVE n = 1
      <4>1. Len(pushes) = 0
        BY <3>1, EmptySeq
      <4> QED BY <1>8, <4>1
    <3> QED BY <1>2, <1>9, <2>2, <3>1
  <2>5. sends # "tick" => rows # <<>> /\ LastOf(rows).t = readAt'
    BY <1>2, <1>5
  <2>6. sends = "tick" => rows = <<>>
    BY <1>5
  <2>7. /\ \A k \in DOMAIN pushes' : pushes'[k].mine => k = n
        /\ pushes'[n].rows = rows /\ pushes'[n].pc = "sent"
    BY <1>6, <1>9, <2>1
  <2>8. ring' = ring
    BY <1>2
  <2> QED BY <1>11, <2>3, <2>4, <2>5, <2>6, <2>7, <2>8 DEF AnswersDue
<1>20. NeedKnown'
  BY <1>11 DEF NeedKnown
<1>21. ReadInTime'
  <2>1. formingBar <= readAt' + 1
    <3>1. sends = "tick" => formingBar <= readAt + 1
      BY <1>2 DEF FeedSound, ReadInTime
    <3> QED BY <1>2, <1>4, <3>1
  <2> QED BY <1>2, <1>13, <2>1 DEF ReadInTime
<1> QED BY <1>12, <1>15, <1>18, <1>19, <1>20, <1>21 DEF FeedSound

\* The bridge gives up its pushes, and needs a backfill, or has needed one already.
LEMMA ForgottenSound ==
    ASSUME FeedSound, PushTimesOut \/ BridgeRestarts
    PROVE  FeedSound'
<1>1. /\ pushes' = [i \in DOMAIN pushes |-> [pushes[i] EXCEPT !.mine = FALSE]]
      /\ ring' = ring /\ formingBar' = formingBar /\ readAt' = readAt
  BY DEF PushTimesOut, BridgeRestarts
<1>2. /\ feeder'.pc = "idle" /\ feeder'.need
      /\ feeder' \in [pc : {"idle", "waiting"}, sends : {"none", "backfill", "bars", "tick"},
                      need : BOOLEAN]
  <2>1. CASE PushTimesOut
    BY <2>1 DEF PushTimesOut, PushRefused, FeedSound, FeedKinds
  <2>2. CASE BridgeRestarts
    BY <2>2 DEF BridgeRestarts
  <2> QED BY <2>1, <2>2
<1>3. /\ Len(pushes) \in Nat /\ DOMAIN pushes = 1..Len(pushes)
      /\ \A k \in DOMAIN pushes : pushes[k] \in Pushes
  BY PushKinds DEF FeedSound
<1>4. \A k \in DOMAIN pushes :
          /\ pushes'[k] \in Pushes /\ pushes'[k].rows = pushes[k].rows
          /\ ~pushes'[k].mine /\ pushes'[k].pc = pushes[k].pc
  BY <1>1, <1>3 DEF Pushes
<1>5. pushes' \in Seq(Pushes) /\ Len(pushes') = Len(pushes) /\ DOMAIN pushes' = DOMAIN pushes
  <2>1. pushes' \in [1..Len(pushes) -> Pushes]
    BY <1>1, <1>3, <1>4
  <2> QED BY <1>1, <1>3, <2>1
<1>6. (\A k \in DOMAIN pushes' : IsBatch(pushes'[k].rows, readAt')) /\ Joins'
  BY <1>1, <1>4, <1>5, PushesMove
<1>7. FeedKinds' /\ NoHole(ring') /\ Len(ring') <= Backfill
  BY <1>1, <1>2, <1>5 DEF FeedSound, FeedKinds
<1>8. AnswersDue'
  BY <1>4, <1>5 DEF AnswersDue
<1>9. NeedKnown' /\ ReadInTime'
  BY <1>1, <1>2 DEF FeedSound, NeedKnown, ReadInTime
<1> QED BY <1>6, <1>7, <1>8, <1>9 DEF FeedSound

LEMMA ServiceStartsSound ==
    ASSUME FeedSound, MiniAppRestarts
    PROVE  FeedSound'
<1>1. /\ ring' = <<>> /\ pushes' = <<>> /\ formingBar' = formingBar /\ readAt' = readAt
      /\ IF feeder.pc = "waiting" THEN PushRefused ELSE UNCHANGED feeder
  BY DEF MiniAppRestarts
<1>2. /\ feeder' \in [pc : {"idle", "waiting"}, sends : {"none", "backfill", "bars", "tick"},
                      need : BOOLEAN]
      /\ feeder.pc = "idle" => feeder' = feeder
      /\ feeder.pc # "idle" => feeder'.pc = "idle" /\ feeder'.need
  BY <1>1 DEF PushRefused, FeedSound, FeedKinds
<1>3. /\ Len(ring') = 0 /\ Len(pushes') = 0 /\ DOMAIN pushes' = {}
      /\ ring' \in Seq(RingBars) /\ pushes' \in Seq(Pushes)
  <2>1. 1..0 = {}
    OBVIOUS
  <2>2. <<>> \in Seq(Pushes) /\ <<>> \in Seq(RingBars) /\ Len(<<>>) = 0
    BY EmptySeq
  <2>3. DOMAIN pushes' = 1..Len(pushes')
    BY <1>1, <2>2, LenProperties
  <2> QED BY <1>1, <2>1, <2>2, <2>3
<1>4. FeedKinds'
  BY <1>1, <1>2, <1>3 DEF FeedSound, FeedKinds
<1>5. NoHole(ring') /\ Len(ring') <= Backfill
  <2>1. 0 <= Backfill
    BY FeedAssumption
  <2> QED BY <1>3, <2>1 DEF NoHole
<1>6. Joins' /\ AnswersDue' /\ \A k \in DOMAIN pushes' : IsBatch(pushes'[k].rows, readAt')
  BY <1>1, <1>3 DEF Joins, AnswersDue
<1>7. NeedKnown' /\ ReadInTime'
  BY <1>1, <1>2 DEF FeedSound, NeedKnown, ReadInTime, UpToDate
<1> QED BY <1>4, <1>5, <1>6, <1>7 DEF FeedSound

LEMMA BarSound ==
    ASSUME FeedSound, ~missed, BarCloses, ~missed'
    PROVE  FeedSound'
<1>1. /\ formingBar' = formingBar + 1 /\ ring' = ring /\ pushes' = pushes
      /\ feeder' = feeder /\ readAt' = readAt
      /\ formingBar = readAt \/ (feeder.pc = "idle" /\ feeder.need)
  BY DEF BarCloses
<1>2. formingBar \in Int /\ readAt \in Int /\ readAt <= formingBar
  BY DEF FeedSound, FeedKinds, ReadInTime
<1>3. FeedKinds'
  <2>1. formingBar + 1 \in Int
    BY <1>2
  <2> QED BY <1>1, <2>1 DEF FeedSound, FeedKinds
<1>4. ReadInTime'
  <2>1. readAt <= formingBar + 1 /\ (formingBar = readAt => formingBar + 1 <= readAt + 1)
    BY <1>2
  <2> QED BY <1>1, <2>1 DEF ReadInTime
<1>5. Joins' /\ AnswersDue' /\ NeedKnown'
  BY <1>1 DEF FeedSound, Joins, AnswersDue, NeedKnown, UpToDate
<1> QED BY <1>1, <1>3, <1>4, <1>5 DEF FeedSound

LEMMA FeedSteps == ASSUME FeedInv, FeedNext PROVE FeedInv'
<1>1. missed' \in BOOLEAN /\ (~missed' => ~missed)
  BY DEF FeedInv, FeedNext, BridgeStep, HandlerStep, BridgePushes, BridgeReadsNothing,
         PushTimesOut, PushApplied, PushBroadcast, PushAnswered, ViewerJoins, ViewerLeaves,
         BarCloses, MiniAppRestarts, BridgeRestarts
<1> SUFFICES ASSUME ~missed', ~missed, FeedSound PROVE FeedSound'
  BY <1>1 DEF FeedInv
<1>2. ASSUME NEW sends \in {"backfill", "bars", "tick"}, BridgePushes(sends) PROVE FeedSound'
  BY <1>2, BridgeSound
<1>3. ASSUME NEW i \in DOMAIN pushes, PushApplied(i) PROVE FeedSound'
  BY <1>3, AppliesSound
<1>4. ASSUME NEW i \in DOMAIN pushes, PushBroadcast(i) PROVE FeedSound'
  BY <1>4, BroadcastSound
<1>5. ASSUME NEW i \in DOMAIN pushes, PushAnswered(i) PROVE FeedSound'
  BY <1>5, AnswerSound
<1>6. ASSUME NEW sends \in {"backfill", "bars"}, BridgeReadsNothing(sends) PROVE FeedSound'
  BY <1>6 DEF BridgeReadsNothing
<1>7. CASE PushTimesOut
  BY <1>7, ForgottenSound
<1>8. CASE ViewerJoins \/ ViewerLeaves
  <2>1. UNCHANGED <<formingBar, ring, pushes, feeder, readAt>>
    BY <1>8 DEF ViewerJoins, ViewerLeaves
  <2> QED BY <2>1 DEF FeedSound, FeedKinds, Joins, AnswersDue, NeedKnown, ReadInTime, UpToDate
<1>9. CASE BarCloses
  BY <1>9, BarSound
<1>10. CASE MiniAppRestarts
  BY <1>10, ServiceStartsSound
<1>11. CASE BridgeRestarts
  BY <1>11, ForgottenSound
<1> QED
  BY <1>2, <1>3, <1>4, <1>5, <1>6, <1>7, <1>8, <1>9, <1>10, <1>11
     DEF FeedNext, BridgeStep, HandlerStep

LEMMA FeedMoves == FeedInv /\ [FeedNext]_feedVars => FeedInv'
<1>1. FeedInv /\ UNCHANGED feedVars => FeedInv'
  BY DEF feedVars, FeedInv, FeedSound, FeedKinds, Joins, AnswersDue, NeedKnown, ReadInTime, UpToDate
<1> QED BY <1>1, FeedSteps

LEMMA NoHoles == FeedInv => RingSound
<1>1. ASSUME ring \in Seq(RingBars), NoHole(ring)
      PROVE  \A i \in DOMAIN ring : /\ ring[i].t = ring[1].t + i - 1
                                    /\ ring[i].final \/ i = Len(ring)
  BY <1>1, LenProperties DEF NoHole
<1> QED BY <1>1 DEF FeedInv, FeedSound, FeedKinds, RingSound

\* The chart of the mini app has no hole and shows final values for every bar but
\* the newest, however long the outages, however late or repeated the pushes and
\* whichever side restarts: feed_push of miniapp.py and the bridge's main.
THEOREM RingIsSound == FeedSpec => []RingSound
<1>1. FeedInit => FeedInv
  BY FeedStart
<1>2. FeedInv /\ [FeedNext]_feedVars => FeedInv'
  BY FeedMoves
<1>3. FeedInv => RingSound
  BY NoHoles
<1> QED BY <1>1, <1>2, <1>3, PTL DEF FeedSpec

-----------------------------------------------------------------------------
(* What the variables of lanes, back-tests and viewers hold                *)

LEMMA LaneTypes == LaneInv => LaneTypeOK
<1>. SUFFICES ASSUME LaneInv PROVE LaneTypeOK
  OBVIOUS
<1>1. WantedKnown /\ pendingSwitch \in Lanes /\ chart \in [Charts -> ChartStates]
  BY DEF LaneInv, LaneKinds
<1>2. Gold \in Charts /\ Bitcoin \in Charts /\ "iziBit15" \in BitLanes
  BY LaneSets DEF BitLanes
<1>3. pendingFor[Bitcoin] \in BitLanes \union {None}
  BY <1>1, <1>2, LaneSets DEF WantedKnown
<1>4. storedBtc \in BitLanes \union {None} /\ pendingFor[Gold] \in GoldLanes \union {None}
      /\ stored \in Lanes
  BY <1>1 DEF WantedKnown
<1>5. \A c \in Charts : chart[c].lane \in Registered
  BY <1>1 DEF ChartStates
<1>. QED BY <1>1, <1>3, <1>4, <1>5 DEF LaneTypeOK, Lanes

LEMMA BacktestTypes == BacktestInv => BacktestTypeOK
BY DEF BacktestInv, BacktestKinds, BacktestTypeOK, RunIds

LEMMA ViewersTypes == ViewersInv => ViewersTypeOK
BY DEF ViewersInv, ViewersKinds, ViewersTypeOK, CredEntries, MemberEntries, CheckStates

-----------------------------------------------------------------------------
(* What the variables of the launcher hold                                 *)

\* What the stages may make of a variable.
LEMMA StagesDo ==
  ASSUME LauncherInv, LauncherNext
  PROVE  /\ system' = system /\ onboarded' \in {onboarded, ~onboarded}
         /\ tools' \in {tools, TRUE} /\ relay' \in {relay, TRUE, FALSE, relay \/ ~Dry}
         /\ python' \in {python, "bare", "ready"}
         /\ NoMishap \/ Mishap \/ (lnLeft.runs > 0 /\ lnLeft' = [lnLeft EXCEPT !.runs = @ - 1])
         /\ \/ env' = env \/ env' = [env EXCEPT !.exists = TRUE]
            \/ env' = [env EXCEPT !.tunnel = TRUE]
            \/ env' = [env EXCEPT !.key = NextKey] /\ NoMishap /\ On("key") /\ ~Dry
         /\ launch'.pc # "key" \/ launch' = launch \/ CopyEnv
         /\ \/ stack' \in {stack, [up |-> FALSE, key |-> 0, tunnel |-> FALSE],
                           [stack EXCEPT !.up = TRUE, !.key = env.key],
                           [stack EXCEPT !.tunnel = FALSE]}
            \/ \E t \in BOOLEAN : stack' = [stack EXCEPT !.key = env.key, !.tunnel = t]
            \/ stack' = [stack EXCEPT !.key = env.key, !.up = FALSE]
         /\ bridge' \in {bridge, NoBridge, [count |-> bridge.count + 1, key |-> env.key]}
         /\ ea' \in {ea, [ea EXCEPT !.copied = ea.main], [ea EXCEPT !.built = ea.copied, !.at = Now],
                     [ea EXCEPT !.main = Now + 1], [ea EXCEPT !.include = Now + 1]}
<1>. USE DEF LauncherNext, LauncherStep, Run, StopAll, ComposeDown, CheckPackages, CopyEnv,
       GenerateKey, ComposeUp, NoTunnel, SyncEnv, StartTunnel, DetectMt5, StopForRestart,
       CopySources, Compile, LaunchMt5, StartAgain, SkipBridge, InstallPython, InstallPackage,
       StartBridge, StartRelay, Verify, Interrupt, OwnerOrHost, StopMt5, host, Same
<1>1. /\ system' = system /\ onboarded' \in {onboarded, ~onboarded}
      /\ tools' \in {tools, TRUE} /\ relay' \in {relay, TRUE, FALSE, relay \/ ~Dry}
  OBVIOUS
<1>2. python' \in {python, "bare", "ready"}
  OBVIOUS
<1>3. NoMishap \/ Mishap \/ (lnLeft.runs > 0 /\ lnLeft' = [lnLeft EXCEPT !.runs = @ - 1])
  OBVIOUS
<1>4. \/ env' = env \/ env' = [env EXCEPT !.exists = TRUE]
      \/ env' = [env EXCEPT !.tunnel = TRUE]
      \/ env' = [env EXCEPT !.key = NextKey] /\ NoMishap /\ On("key") /\ ~Dry
  OBVIOUS
<1>5. launch'.pc # "key" \/ launch' = launch \/ CopyEnv
  <2>1. launch \in Launches
    BY DEF LauncherInv, LauncherKinds
  <2>2. ASSUME NEW pc \in {"down", "env", "compose", "integrations", "tunnel", "detect", "prepare",
                           "copy", "compile", "start", "started", "bridge", "relay", "verify"},
               Then(pc)
        PROVE  launch'.pc # "key"
    BY <2>1, <2>2 DEF Then, Launches
  <2>3. End => launch'.pc # "key"
    BY DEF End, Idle
  <2>4. Compile => launch'.pc # "key"
    <3>1. \A said : [launch EXCEPT !.pc = "start", !.said = said].pc = "start"
      BY <2>1 DEF Launches
    <3>. QED BY <2>2, <3>1
  <2>5. ASSUME NEW flags \in FlagSets, Run(flags) PROVE launch'.pc # "key"
    BY <2>5
  <2>6. OwnerOrHost => launch' = launch
    OBVIOUS
  <2>. HIDE DEF Compile, Run, OwnerOrHost
  <2>. QED BY <2>2, <2>3, <2>4, <2>5, <2>6
<1>6. \/ stack' \in {stack, [up |-> FALSE, key |-> 0, tunnel |-> FALSE],
                     [stack EXCEPT !.up = TRUE, !.key = env.key],
                     [stack EXCEPT !.tunnel = FALSE]}
      \/ \E t \in BOOLEAN : stack' = [stack EXCEPT !.key = env.key, !.tunnel = t]
      \/ stack' = [stack EXCEPT !.key = env.key, !.up = FALSE]
  OBVIOUS
<1>7. bridge' \in {bridge, NoBridge, [count |-> bridge.count + 1, key |-> env.key]}
  OBVIOUS
<1>8. ea' \in {ea, [ea EXCEPT !.copied = ea.main], [ea EXCEPT !.built = ea.copied, !.at = Now],
               [ea EXCEPT !.main = Now + 1], [ea EXCEPT !.include = Now + 1]}
  OBVIOUS
<1>. QED BY <1>1, <1>2, <1>3, <1>4, <1>5, <1>6, <1>7, <1>8

\* A run has .env once it comes to the key, if it is not a dry one, and no key is
\* of a later run.
Keys == 0..(1 + MaxRunsOfLauncher)
LauncherWhole ==
    /\ LauncherTypeOK
    /\ env.key <= 1 + MaxRunsOfLauncher - lnLeft.runs
    /\ On("key") /\ ~Dry => env.exists

LEMMA WholeStages ==
  ASSUME LauncherInv, LauncherWhole, LauncherNext PROVE LauncherWhole'
<1>. DEFINE Envs == [exists : BOOLEAN, key : Nat, tunnel : BOOLEAN]
            Stacks == [up : BOOLEAN, key : Nat, tunnel : BOOLEAN]
            Programs == [main : Nat, include : Nat, copied : Nat, built : Nat, at : Nat]
            Rest == [runs : 0..MaxRunsOfLauncher, mishaps : Nat]
<1>1. /\ env \in Envs /\ stack \in Stacks /\ bridge \in [count : Nat, key : Nat] /\ ea \in Programs
      /\ lnLeft \in Rest /\ MaxRunsOfLauncher \in Nat
  BY LauncherAssumption DEF LauncherInv, LauncherKinds
<1>2. launch' \in Launches /\ lnLeft' \in Rest
  BY LauncherMoves DEF LauncherInv, LauncherKinds
<1>3. {tools', onboarded', relay'} \subseteq BOOLEAN /\ python' \in {"none", "bare", "ready"}
  BY StagesDo DEF LauncherWhole, LauncherTypeOK, Dry
<1>4. /\ env' \in Envs /\ (env'.key # 0 => env'.exists) /\ (env.exists => env'.exists)
      /\ env'.key <= 1 + MaxRunsOfLauncher - lnLeft'.runs
  <2>1. lnLeft'.runs <= lnLeft.runs
    <3>1. CASE NoMishap
      BY <1>1, <3>1 DEF NoMishap
    <3>2. CASE Mishap
      BY <1>1, <3>2 DEF Mishap
    <3>3. CASE lnLeft' = [lnLeft EXCEPT !.runs = @ - 1]
      BY <1>1, <3>3
    <3>. QED BY <3>1, <3>2, <3>3, StagesDo
  <2>2. /\ lnLeft.runs \in Int /\ lnLeft'.runs \in Int /\ env.key \in Nat
        /\ env.key # 0 => env.exists
        /\ env.key <= 1 + MaxRunsOfLauncher - lnLeft.runs
    <3>1. lnLeft.runs \in Int /\ lnLeft'.runs \in Int /\ env.key \in Nat
      BY <1>1, <1>2
    <3>. QED BY <3>1 DEF LauncherWhole, LauncherTypeOK
  <2>3. CASE /\ env' \in {env, [env EXCEPT !.exists = TRUE], [env EXCEPT !.tunnel = TRUE]}
    <3>1. env' \in Envs /\ env'.key = env.key /\ (env.exists => env'.exists)
      BY <1>1, <2>3
    <3>. QED BY <1>1, <2>1, <2>2, <3>1
  <2>4. CASE env' = [env EXCEPT !.key = NextKey] /\ NoMishap /\ On("key") /\ ~Dry
    <3>1. NextKey \in Nat /\ NextKey = 1 + MaxRunsOfLauncher - lnLeft.runs
      BY <1>1 DEF NextKey
    <3>2. env' \in Envs /\ env'.key = NextKey /\ env'.exists = env.exists
      BY <1>1, <2>4, <3>1
    <3>3. env.exists /\ lnLeft' = lnLeft
      BY <2>4 DEF LauncherWhole, NoMishap
    <3>. QED BY <1>1, <2>2, <3>1, <3>2, <3>3
  <2>. QED BY <2>3, <2>4, StagesDo
<1>5. On("key")' /\ ~Dry' => env'.exists
  <2>1. CASE launch' = launch
    BY <1>4, <2>1 DEF LauncherWhole, On, Dry, Given
  <2>2. CASE CopyEnv
    <3>1. launch'.flags = launch.flags
      BY <2>2 DEF CopyEnv, Then, LauncherInv, LauncherKinds, Launches
    <3>. QED BY <1>1, <2>2, <3>1 DEF CopyEnv, Dry, Given
  <2>. QED BY <2>1, <2>2, StagesDo DEF On
<1>6. {env'.key, stack'.key, bridge'.key} \subseteq Keys /\ {stack'.up, stack'.tunnel} \subseteq BOOLEAN
  <2>1. {env'.key, env.key, stack.key, bridge.key, 0} \subseteq Keys
    <3>1. {env.key, stack.key, bridge.key} \subseteq Keys
      BY DEF LauncherWhole, LauncherTypeOK, Keys
    <3>2. env'.key \in Nat /\ lnLeft'.runs \in Nat
      BY <1>2, <1>4
    <3>3. env'.key \in Keys /\ 0 \in Keys
      BY <1>1, <1>4, <3>2 DEF Keys
    <3>. QED BY <3>1, <3>3
  <2>2. stack'.key \in {stack.key, env.key, 0} /\ {stack'.up, stack'.tunnel} \subseteq BOOLEAN
    <3>1. \/ stack' \in {stack, [up |-> FALSE, key |-> 0, tunnel |-> FALSE],
                         [stack EXCEPT !.up = TRUE, !.key = env.key],
                         [stack EXCEPT !.tunnel = FALSE]}
          \/ \E t \in BOOLEAN : stack' = [stack EXCEPT !.key = env.key, !.tunnel = t]
          \/ stack' = [stack EXCEPT !.key = env.key, !.up = FALSE]
      BY StagesDo
    <3>2. CASE stack' = stack
      <4>1. {stack.up, stack.tunnel} \subseteq BOOLEAN
        BY <1>1
      <4>. QED BY <3>2, <4>1
    <3>3. CASE stack' = [up |-> FALSE, key |-> 0, tunnel |-> FALSE]
      BY <3>3
    <3>4. CASE stack' = [stack EXCEPT !.tunnel = FALSE]
      BY <1>1, <3>4
    <3>5. CASE stack' \in {[stack EXCEPT !.up = TRUE, !.key = env.key],
                           [stack EXCEPT !.key = env.key, !.up = FALSE]}
      BY <1>1, <3>5
    <3>6. ASSUME NEW t \in BOOLEAN, stack' = [stack EXCEPT !.key = env.key, !.tunnel = t]
          PROVE  stack'.key = env.key /\ {stack'.up, stack'.tunnel} \subseteq BOOLEAN
      BY <1>1, <3>6
    <3>. QED BY <3>1, <3>2, <3>3, <3>4, <3>5, <3>6
  <2>3. bridge'.key \in {bridge.key, env.key, 0}
    <3>1. bridge' \in {bridge, NoBridge, [count |-> bridge.count + 1, key |-> env.key]}
      BY StagesDo
    <3>. QED BY <3>1 DEF NoBridge
  <2>. QED BY <2>1, <2>2, <2>3
<1>7. ea'.copied <= ea'.main /\ ea'.built <= ea'.copied
  <2>1. Now \in Nat /\ ea.main <= Now
    BY <1>1 DEF Now
  <2>2. ea.copied <= ea.main /\ ea.built <= ea.copied
    BY DEF LauncherWhole, LauncherTypeOK
  <2>3. CASE ea' \in {ea, [ea EXCEPT !.include = Now + 1]}
    BY <1>1, <2>2, <2>3
  <2>4. CASE ea' = [ea EXCEPT !.copied = ea.main]
    BY <1>1, <2>2, <2>4
  <2>5. CASE ea' = [ea EXCEPT !.built = ea.copied, !.at = Now]
    BY <1>1, <2>2, <2>5
  <2>6. CASE ea' = [ea EXCEPT !.main = Now + 1]
    BY <1>1, <2>1, <2>2, <2>6
  <2>. QED BY <2>3, <2>4, <2>5, <2>6, StagesDo
<1>8. launch'.said \in {"nothing", "fresh", "stale"} /\ {env'.exists, env'.tunnel} \subseteq BOOLEAN
  BY <1>2, <1>4 DEF Launches
<1>. HIDE DEF Envs, Stacks, Programs, Rest
<1>. QED BY <1>3, <1>4, <1>5, <1>6, <1>7, <1>8 DEF LauncherWhole, LauncherTypeOK, Keys

LEMMA LauncherBegins == LauncherInit => LauncherInv /\ LauncherWhole
<1>1. LauncherInit => LauncherWhole
  <2>. SUFFICES ASSUME LauncherInit PROVE LauncherWhole
    OBVIOUS
  <2>1. MaxRunsOfLauncher \in Nat
    BY LauncherAssumption
  <2>2. /\ tools = FALSE /\ env = [exists |-> FALSE, key |-> 0, tunnel |-> FALSE]
        /\ stack = [up |-> FALSE, key |-> 0, tunnel |-> FALSE] /\ onboarded = FALSE
        /\ ea = [main |-> 1, include |-> 1, copied |-> 0, built |-> 0, at |-> 0]
        /\ python \in {"bare", "none"} /\ bridge.key = 0 /\ relay = FALSE
        /\ launch.pc = "idle" /\ launch.said = "nothing" /\ lnLeft.runs = MaxRunsOfLauncher
    BY DEF LauncherInit, NoBridge, Idle
  <2>3. LauncherTypeOK
    <3>1. {env.key, stack.key, bridge.key} \subseteq 0..(1 + MaxRunsOfLauncher)
      BY <2>1, <2>2
    <3>2. {tools, onboarded, relay, env.exists, env.tunnel, stack.up, stack.tunnel} \subseteq BOOLEAN
      BY <2>2
    <3>3. ea.copied <= ea.main /\ ea.built <= ea.copied /\ env.key = 0
      BY <2>2
    <3>. QED BY <2>2, <3>1, <3>2, <3>3 DEF LauncherTypeOK
  <2>. QED BY <2>1, <2>2, <2>3 DEF LauncherWhole, On
<1>. QED BY <1>1, LauncherStart

LEMMA LauncherWholeMoves ==
  LauncherInv /\ LauncherWhole /\ [LauncherNext]_launcherVars => LauncherWhole'
<1>1. LauncherWhole /\ UNCHANGED launcherVars => LauncherWhole'
  BY DEF launcherVars, LauncherWhole, LauncherTypeOK, On, Dry, Given
<1>. QED BY <1>1, WholeStages

-----------------------------------------------------------------------------
(* What the variables of the agent hold                                    *)

Intents == AllowedActions \union {"none"}
Statuses == {"pending", "skipped", "rejected", "applied", "dispatched"}
GradeRows == [bar : Bars, action : Intents, direction : Directions, score : {"open", "right", "wrong"}]
AuditRows == [at : 0..MaxTrouble, intent : AllowedActions, status : Statuses]
ActRows == [at : Nat, live : BOOLEAN, row : Nat]
AnalyzeStates == {NoRequest} \union [pc : {"looked", "claimed"}, bar : Bars, row : Nat]
SupervisorStates == {IdleSupervisor, Reflecting} \union [pc : {"grading"}, bar : Bars, row : {0}]
                        \union [pc : {"lesson"}, bar : {NoBar}, row : Nat]
Waits == {<<>>} \union (AllowedActions \X Statuses)
\* What is stored, what is in memory, and what a coroutine carries over an await.
AgentKinds ==
    /\ signals \in Seq(Bars) /\ grades \in Seq(GradeRows)
    /\ audits \in Seq(AuditRows) /\ acts \in Seq(ActRows)
    /\ \A i \in 1..Len(acts) : acts[i].row \in 0..Len(audits)
    /\ lessons \in Seq(Nat) /\ \A l \in 1..Len(lessons) : lessons[l] \in 1..Len(grades)
    /\ {pausedAll, aiOn, commandLive} \subseteq BOOLEAN
    /\ gradeCache \in [Bars -> Nat]
    /\ onLoop \in {<<>>} \union (Bars \X Intents \X Directions)
    /\ auditing \in Waits /\ (auditing # <<>> /\ Acted(auditing[2]) => Len(acts) > 0)
    /\ requests \in [Threads -> AnalyzeStates]
    /\ supervisor \in SupervisorStates
    /\ supervisor.pc = "lesson" => supervisor.row \in 1..Len(grades)
    /\ MarketKinds /\ agNow \in Nat /\ agBudget \in [posts : Nat, trouble : Nat]
    /\ agNow + agBudget.trouble <= MaxTrouble

LEMMA AgentNumbers == /\ {MaxPosts, MaxTrouble} \subseteq Nat
                      /\ \A r \in Answers : r[2] \in Directions
BY AgentAssumption DEF Directions

LEMMA SeriesBar == ASSUME MarketKinds, NEW s \in Series PROVE <<s, newestBar[s]>> \in Bars
BY DEF MarketKinds, Bars

LEMMA BarTimes == ASSUME NEW b \in Bars PROVE TimeOf(b) \in Nat
BY AgentAssumption DEF Bars, TimeOf

\* The newest row of a bar, and the newest of some signals.
LEMMA NewestGrade == ASSUME AgentKinds, NEW b PROVE LatestGrade(b) \in Nat
<1>1. Len(grades) \in Nat /\ DOMAIN grades = 1..Len(grades)
  BY LenProperties DEF AgentKinds
<1>2. CASE RowsFor(b) = {}
  BY <1>2 DEF LatestGrade
<1>3. CASE RowsFor(b) # {}
  <2>1. RowsFor(b) \in SUBSET (0..Len(grades))
    BY <1>1 DEF RowsFor
  <2>2. \E i \in RowsFor(b) : \A j \in RowsFor(b) : j <= i
    <3>1. Max(RowsFor(b)) \in RowsFor(b) /\ \A y \in RowsFor(b) : y <= Max(RowsFor(b))
      BY <1>1, <1>3, <2>1, MaxOfNaturals
    <3>. QED BY <3>1
  <2>3. LatestGrade(b) \in RowsFor(b)
    BY <1>3, <2>2 DEF LatestGrade
  <2>. QED BY <1>1, <2>1, <2>3
<1>. QED BY <1>2, <1>3

LEMMA UngradedIsBar ==
  ASSUME AgentKinds, NEW s, Ungraded(s) # {}
  PROVE  signals[NewestUngraded(s)] \in Bars
<1>1. /\ Len(signals) \in Nat /\ DOMAIN signals = 1..Len(signals)
      /\ \A i \in 1..Len(signals) : signals[i] \in Bars
  BY LenProperties, ElementOfSeq DEF AgentKinds
<1>2. Ungraded(s) \in SUBSET (0..Len(signals)) /\ Ungraded(s) \subseteq 1..Len(signals)
  BY <1>1 DEF Ungraded
<1>3. \E i \in Ungraded(s) : \A j \in Ungraded(s) : j <= i
  <2>1. Max(Ungraded(s)) \in Ungraded(s) /\ \A j \in Ungraded(s) : j <= Max(Ungraded(s))
    BY <1>1, <1>2, MaxOfNaturals
  <2>. QED BY <2>1
<1>4. NewestUngraded(s) \in Ungraded(s)
  BY <1>3 DEF NewestUngraded
<1>. QED BY <1>1, <1>2, <1>4

LEMMA OldestWrong == ASSUME AgentKinds, Unreflected # {} PROVE OldestUnreflected \in 1..Len(grades)
<1>. DEFINE time(i) == TimeOf(grades[i].bar)
<1>1. Len(grades) \in Nat /\ \A i \in 1..Len(grades) : time(i) \in Nat
  <2>1. \A i \in 1..Len(grades) : grades[i] \in GradeRows
    BY ElementOfSeq DEF AgentKinds
  <2>2. Len(grades) \in Nat
    BY LenProperties DEF AgentKinds
  <2>. QED BY <2>1, <2>2, BarTimes DEF GradeRows
<1>2. Unreflected \in SUBSET (1..Len(grades))
  BY LenProperties DEF Unreflected, Scored, AgentKinds
<1>. HIDE DEF time
<1>3. PICK t \in {time(i) : i \in Unreflected} : \A j \in Unreflected : t <= time(j)
  <2>. DEFINE Wrong == {time(i) : i \in Unreflected}
  <2>1. Wrong \in SUBSET Nat /\ Wrong # {}
    BY <1>1, <1>2
  <2>2. Min(Wrong) \in Wrong /\ \A y \in Wrong : Min(Wrong) <= y
    <3>. HIDE DEF Wrong
    <3>. QED BY <2>1, MinOfNaturals
  <2>. QED BY <2>2
<1>4. PICK first \in {i \in Unreflected : time(i) = t} :
        \A j \in Unreflected : time(j) = t => first <= j
  <2>. DEFINE OfTime == {i \in Unreflected : time(i) = t}
  <2>1. OfTime \in SUBSET Nat /\ OfTime # {}
    <3>1. \A i \in Unreflected : i \in Nat
      BY <1>1, <1>2
    <3>2. \E i \in Unreflected : time(i) = t
      BY <1>3
    <3>. QED BY <3>1, <3>2
  <2>2. Min(OfTime) \in OfTime /\ \A y \in OfTime : Min(OfTime) <= y
    <3>. HIDE DEF OfTime
    <3>. QED BY <2>1, MinOfNaturals
  <2>. QED BY <2>2
<1>5. \A j \in Unreflected : time(first) < time(j) \/ (time(first) = time(j) /\ first <= j)
  <2>1. t \in Nat /\ \A j \in Unreflected : time(j) \in Nat
    BY <1>1, <1>2, <1>3
  <2>. SUFFICES ASSUME NEW j \in Unreflected, time(j) # t PROVE t < time(j)
    BY <1>4
  <2>. QED BY <1>3, <2>1
<1>6. OldestUnreflected \in Unreflected
  BY <1>4, <1>5 DEF OldestUnreflected, time
<1>. QED BY <1>2, <1>6

\* Scoring keeps the rows but for their scores.
LEMMA ScoringKinds ==
  ASSUME AgentKinds, NEW upTo, grades' = ResolveOutcomes(upTo)
  PROVE  grades' \in Seq(GradeRows) /\ Len(grades') = Len(grades)
<1>1. /\ Len(grades) \in Nat /\ DOMAIN grades = 1..Len(grades)
      /\ \A i \in 1..Len(grades) : grades[i] \in GradeRows
  BY LenProperties, ElementOfSeq DEF AgentKinds
<1>2. \A i \in 1..Len(grades) : grades'[i] \in GradeRows
  <2>1. \A g \in GradeRows : /\ [g EXCEPT !.score = "right"] \in GradeRows
                             /\ [g EXCEPT !.score = "wrong"] \in GradeRows
    BY DEF GradeRows
  <2>2. ASSUME NEW i \in 1..Len(grades)
        PROVE  grades'[i] \in {grades[i], [grades[i] EXCEPT !.score = "right"],
                               [grades[i] EXCEPT !.score = "wrong"]}
    BY <1>1, <2>2 DEF ResolveOutcomes
  <2>. SUFFICES ASSUME NEW i \in 1..Len(grades) PROVE grades'[i] \in GradeRows
    OBVIOUS
  <2>3. grades[i] \in GradeRows
    BY <1>1
  <2>. QED BY <2>1, <2>2, <2>3
<1>3. DOMAIN grades' = 1..Len(grades) /\ grades' = [i \in 1..Len(grades) |-> grades'[i]]
  BY <1>1 DEF ResolveOutcomes
<1>. QED BY <1>1, <1>2, <1>3

\* What the broker does and what it writes of it.
LEMMA IntentKinds ==
  ASSUME AgentKinds, NEW a \in Intents, ExecuteIntent(a)
  PROVE  /\ {pausedAll', commandLive'} \subseteq BOOLEAN
         /\ auditing' \in Waits /\ (auditing' # <<>> /\ Acted(auditing'[2]) => Len(acts') > 0)
         /\ UNCHANGED audits /\ acts' \in Seq(ActRows)
         /\ \/ UNCHANGED acts
            \/ /\ acts' = Append(acts, [at |-> agNow, live |-> account # "demo", row |-> 0])
               /\ a \in AllowedActions /\ ~Refused(a)
<1>1. CASE a = "none"
  BY <1>1 DEF ExecuteIntent, broker, AgentKinds
<1>2. CASE a # "none"
  <2>. DEFINE act == [at |-> agNow, live |-> account # "demo", row |-> 0]
  <2>1. /\ auditing' = <<a, Outcome(a)>> /\ UNCHANGED audits
        /\ acts' = IF Acted(Outcome(a)) THEN Append(acts, act) ELSE acts
        /\ {pausedAll', commandLive'} \subseteq BOOLEAN
    BY <1>2 DEF ExecuteIntent, AgentKinds
  <2>2. /\ Outcome(a) \in Statuses /\ (Acted(Outcome(a)) => ~Refused(a))
        /\ a \in AllowedActions /\ act \in ActRows /\ acts \in Seq(ActRows)
    BY <1>2 DEF Outcome, Acted, Statuses, Intents, AgentKinds, ActRows
  <2>. HIDE DEF act
  <2>3. Append(acts, act) \in Seq(ActRows) /\ Len(Append(acts, act)) > 0
    BY <2>2, AppendProperties, LenProperties
  <2>4. auditing' \in Waits /\ auditing'[2] = Outcome(a)
    BY <2>1, <2>2 DEF Waits
  <2>. QED BY <2>1, <2>2, <2>3, <2>4 DEF act
<1>. QED BY <1>1, <1>2

LEMMA AuditKinds ==
  ASSUME AgentKinds, auditing # <<>>, NEW status \in Statuses, AuditRow(status)
  PROVE  /\ audits' \in Seq(AuditRows) /\ Len(audits') = Len(audits) + 1
         /\ \A i \in 1..Len(audits) : audits'[i] = audits[i]
         /\ audits'[Len(audits) + 1].at = agNow
         /\ acts' \in Seq(ActRows) /\ Len(acts') = Len(acts)
         /\ \A i \in 1..Len(acts) :
               /\ acts'[i].at = acts[i].at /\ acts'[i].live = acts[i].live
               /\ \/ acts'[i].row = acts[i].row
                  \/ i = Len(acts) /\ acts'[i].row = Len(audits) + 1
<1>. DEFINE new == [at |-> agNow, intent |-> auditing[1], status |-> status]
<1>1. /\ audits \in Seq(AuditRows) /\ acts \in Seq(ActRows) /\ agNow \in 0..MaxTrouble
      /\ auditing[1] \in AllowedActions /\ (Acted(auditing[2]) => Len(acts) > 0)
  BY AgentNumbers DEF AgentKinds, Waits
<1>2. new \in AuditRows
  BY <1>1 DEF AuditRows
<1>3. /\ audits' = Append(audits, new) /\ new.at = agNow
      /\ acts' = IF Acted(auditing[2]) THEN [acts EXCEPT ![Len(acts)].row = Len(audits) + 1]
                 ELSE acts
  BY DEF AuditRow
<1>. HIDE DEF new
<1>4. /\ audits' \in Seq(AuditRows) /\ Len(audits') = Len(audits) + 1 /\ Len(audits) \in Nat
      /\ \A i \in 1..Len(audits) : audits'[i] = audits[i]
      /\ audits'[Len(audits) + 1] = new
  BY <1>1, <1>2, <1>3, AppendProperties, LenProperties
<1>5. /\ Len(acts) \in Nat /\ acts \in [1..Len(acts) -> ActRows]
      /\ \A i \in 1..Len(acts) : acts[i] \in ActRows
  BY <1>1, LenProperties, ElementOfSeq
<1>6. CASE Acted(auditing[2])
  <2>. DEFINE n == Len(acts)
  <2>1. n \in 1..n /\ acts' = [acts EXCEPT ![n] = [acts[n] EXCEPT !.row = Len(audits) + 1]]
    BY <1>1, <1>3, <1>5, <1>6
  <2>2. /\ acts[n] \in ActRows /\ [acts[n] EXCEPT !.row = Len(audits) + 1] \in ActRows
        /\ [acts[n] EXCEPT !.row = Len(audits) + 1].row = Len(audits) + 1
        /\ [acts[n] EXCEPT !.row = Len(audits) + 1].at = acts[n].at
        /\ [acts[n] EXCEPT !.row = Len(audits) + 1].live = acts[n].live
    <3>1. acts[n] \in ActRows /\ Len(audits) + 1 \in Nat
      BY <1>4, <1>5, <2>1
    <3>. HIDE DEF n
    <3>. QED BY <3>1 DEF ActRows
  <2>3. acts' \in Seq(ActRows) /\ Len(acts') = n
    BY <1>1, <2>1, <2>2, ExceptSeq
  <2>. QED BY <1>3, <1>4, <1>5, <2>1, <2>2, <2>3
<1>7. CASE ~Acted(auditing[2])
  BY <1>1, <1>3, <1>4, <1>7
<1>. QED BY <1>6, <1>7

\* A new grade leaves the lessons on the rows they are about.
LEMMA GradeKinds ==
  ASSUME AgentKinds, NEW b \in Bars, NEW a \in Intents, NEW d \in Directions,
         grades' = Append(grades, GradeRow(b, a, d))
  PROVE  grades' \in Seq(GradeRows) /\ Len(grades') = Len(grades) + 1
<1>1. GradeRow(b, a, d) \in GradeRows
  BY DEF GradeRow, GradeRows
<1>. QED BY <1>1, AppendProperties DEF AgentKinds

\* What the actions may make of the tables and of the switches.
LEMMA AgentDoes ==
  ASSUME AgentKinds, AgentNext
  PROVE  /\ signals' = signals \/ \E b \in Bars : signals' = Append(signals, b)
         /\ \/ grades' = grades \/ \E b \in Bars : grades' = ResolveOutcomes(b)
            \/ \E b \in Bars, a \in Intents, d \in Directions :
                  grades' = Append(grades, GradeRow(b, a, d))
         /\ \/ /\ UNCHANGED <<audits, acts, pausedAll>> /\ commandLive' \in {commandLive, ~commandLive}
               /\ auditing' \in {auditing, <<>>} /\ agNow' \in {agNow, agNow + 1}
            \/ UNCHANGED agNow /\ \E a \in Intents : ExecuteIntent(a)
            \/ /\ UNCHANGED <<agNow, pausedAll, commandLive>> /\ auditing # <<>> /\ auditing' = <<>>
               /\ \E status \in Statuses : AuditRow(status)
         /\ lessons' = lessons
            \/ (supervisor.pc = "lesson" /\ lessons' = Append(lessons, supervisor.row) /\ UNCHANGED grades)
         /\ aiOn' \in {aiOn, ~aiOn} /\ UNCHANGED <<account, config>>
<1>1. \A t \in Threads : \A pc \in {"looked", "claimed"} : In(t, pc) => requests[t].bar \in Bars
  BY DEF AgentKinds, AnalyzeStates, In, NoRequest
<1>2. \A s \in Series : <<s, newestBar[s]>> \in Bars
  BY SeriesBar DEF AgentKinds
<1>3. \A a : Parsed(a) \in Intents
  BY DEF Parsed, Intents
<1>4. CASE AnalyzeStep
  <2>1. PICK t \in Threads : \/ \E s \in Series : AnalyzeLookup(t, s)
                             \/ AnalyzeFromTable(t) \/ AnalyzeClaim(t)
                             \/ AnalyzeSchedule(t) \/ ScheduleFails(t) \/ FactsFail(t)
    BY <1>4 DEF AnalyzeStep
  <2>2. /\ UNCHANGED <<signals, grades>> \/ \E b \in Bars : Post(b)
        /\ UNCHANGED <<audits, acts, auditing, lessons, switches, commandLive, outside>>
    BY <1>1, <1>2, <2>1
       DEF AnalyzeLookup, AnalyzeFromTable, AnalyzeClaim, AnalyzeSchedule, ScheduleFails, FactsFail,
           tables, broker
  <2>. QED BY <2>2 DEF Post, switches, outside
<1>5. CASE JobStep
  <2>1. CASE JobStore
    <3>1. onLoop[1] \in Bars /\ onLoop[2] \in Intents /\ onLoop[3] \in Directions
      BY <2>1 DEF JobStore, AgentKinds
    <3>. QED BY <2>1, <3>1 DEF JobStore, outside
  <2>2. CASE AuditDone
    <3>1. auditing[2] \in Statuses
      BY <2>2 DEF AuditDone, AgentKinds, Waits
    <3>. QED BY <2>2, <3>1 DEF AuditDone, switches, outside
  <2>3. CASE AuditFails
    <3>1. "pending" \in Statuses
      BY DEF Statuses
    <3>. QED BY <2>3, <3>1 DEF AuditFails, switches, outside
  <2>4. CASE JobLost \/ (\E b \in Bars : JobFailed(b))
             \/ \E b \in Bars, r \in Answers : JobAnswered(b, r[1], r[2])
    BY <2>4 DEF JobLost, JobFailed, JobAnswered, tables, switches, outside
  <2>. QED BY <1>5, <2>1, <2>2, <2>3, <2>4 DEF JobStep
<1>6. CASE SupervisorStep
  <2>1. ASSUME NEW s \in Series, SuperviseAsk(s)
        PROVE  /\ \E b \in Bars : grades' = ResolveOutcomes(b)
               /\ UNCHANGED <<signals, broker, lessons, switches, commandLive, outside>>
    BY <1>2, <2>1 DEF SuperviseAsk
  <2>2. CASE SuperviseNothing \/ SuperviseOff \/ SuperviseFailed \/ ReflectAsk
    BY <2>2 DEF SuperviseNothing, SuperviseOff, SuperviseFailed, ReflectAsk, tables, switches,
                outside, agentVars
  <2>3. ASSUME NEW r \in Answers, SuperviseStore(r[1], r[2])
        PROVE  /\ \E b \in Bars, a \in Intents, d \in Directions :
                    grades' = Append(grades, GradeRow(b, a, d))
               /\ \E a \in Intents : ExecuteIntent(a)
               /\ UNCHANGED <<signals, lessons, aiOn, account, outside>>
    <3>1. supervisor.bar \in Bars
      BY <2>3 DEF SuperviseStore, AgentKinds, SupervisorStates, IdleSupervisor, Reflecting
    <3>. QED BY <1>3, <2>3, <3>1, AgentNumbers DEF SuperviseStore
  <2>4. CASE ReflectStore
    BY <2>4 DEF ReflectStore, broker, switches, outside
  <2>5. /\ (\E s \in Series : SuperviseAsk(s)) \/ SuperviseNothing \/ SuperviseOff
           \/ SuperviseFailed \/ (\E r \in Answers : SuperviseStore(r[1], r[2]))
           \/ ReflectAsk \/ ReflectStore
    BY <1>6 DEF SupervisorStep
  <2>6. CASE \E s \in Series : SuperviseAsk(s)
    BY <2>1, <2>6 DEF broker, switches, outside
  <2>7. CASE \E r \in Answers : SuperviseStore(r[1], r[2])
    BY <2>3, <2>7 DEF outside
  <2>. QED BY <2>2, <2>4, <2>5, <2>6, <2>7
<1>7. CASE WorldStep
  BY <1>7 DEF WorldStep, OwnerTogglesAi, CommandChanges, AgentTick, NextBar, AgentRestart, tables,
              switches, outside
<1>. QED BY <1>4, <1>5, <1>6, <1>7 DEF AgentNext

\* A request that looked its grade up carries its bar and the row it found.
LEMMA LookedUp ==
  ASSUME AgentKinds, NEW t \in Threads, In(t, "looked")
  PROVE  requests[t].bar \in Bars /\ requests[t].row \in Nat
<1>1. requests[t] \in AnalyzeStates
  BY DEF AgentKinds
<1>2. requests[t] # NoRequest
  BY DEF In, NoRequest
<1>. QED BY <1>1, <1>2 DEF AnalyzeStates

\* What they may make of the memory of the process and of the world.
LEMMA AgentMemory ==
  ASSUME AgentKinds, AgentNext
  PROVE  /\ gradeCache' \in [Bars -> Nat]
         /\ onLoop' \in {<<>>} \union (Bars \X Intents \X Directions)
         /\ requests' \in [Threads -> AnalyzeStates]
         /\ agNow' \in Nat /\ agBudget' \in [posts : Nat, trouble : Nat]
         /\ agNow' + agBudget'.trouble <= MaxTrouble
<1>. USE DEF AgentNext, AnalyzeStep, AnalyzeLookup, AnalyzeFromTable, AnalyzeClaim, AnalyzeSchedule,
       ScheduleFails, FactsFail, JobStep, JobStore, JobLost, JobFailed, JobAnswered, AuditDone,
       AuditFails, SupervisorStep, SuperviseAsk, SuperviseNothing, SuperviseOff, SuperviseFailed,
       SuperviseStore, ReflectAsk, ReflectStore, WorldStep, OwnerTogglesAi, CommandChanges, NextBar,
       AgentTick, AgentRestart, agentVars, outside
<1>1. gradeCache' \in [Bars -> Nat]
  <2>1. \A t \in Threads : In(t, "looked") => requests[t].bar \in Bars /\ requests[t].row \in Nat
    BY LookedUp
  <2>2. onLoop # <<>> => onLoop[1] \in Bars
    BY DEF AgentKinds
  <2>3. gradeCache \in [Bars -> Nat] /\ Len(grades) + 1 \in Nat
    BY LenProperties DEF AgentKinds
  <2>4. \/ gradeCache' \in {gradeCache, [b \in Bars |-> 0]}
        \/ \E b \in Bars, n \in Nat : gradeCache' = [gradeCache EXCEPT ![b] = n]
    BY <2>1, <2>2, <2>3
  <2>. HIDE DEF AgentNext
  <2>. QED BY <2>3, <2>4
<1>2. onLoop' \in {<<>>} \union (Bars \X Intents \X Directions)
  <2>1. \A a : Parsed(a) \in Intents
    BY DEF Parsed, Intents
  <2>2. \/ onLoop' \in {onLoop, <<>>}
        \/ \E b \in Bars, a \in Intents, d \in Directions : onLoop' = <<b, a, d>>
    BY <2>1, AgentNumbers
  <2>. HIDE DEF AgentNext
  <2>. QED BY <2>2 DEF AgentKinds
<1>3. requests' \in [Threads -> AnalyzeStates]
  <2>1. \/ requests' \in {requests, [t \in Threads |-> NoRequest]}
        \/ \E t \in Threads : Answered(t)
        \/ \E t \in Threads, s \in Series :
              Asks(t, "looked", <<s, newestBar[s]>>, LatestGrade(<<s, newestBar[s]>>))
        \/ \E t \in Threads : In(t, "looked") /\ Asks(t, "claimed", requests[t].bar, 0)
    OBVIOUS
  <2>. HIDE DEF AgentNext
  <2>2. \/ requests' \in {requests, [t \in Threads |-> NoRequest]}
        \/ \E t \in Threads, r \in AnalyzeStates : requests' = [requests EXCEPT ![t] = r]
    <3>1. ASSUME NEW t \in Threads, NEW pc \in {"looked", "claimed"}, NEW b \in Bars, NEW row \in Nat,
                 Asks(t, pc, b, row)
          PROVE  \E r \in AnalyzeStates : requests' = [requests EXCEPT ![t] = r]
      BY <3>1 DEF Asks, AnalyzeStates
    <3>2. ASSUME NEW t \in Threads, Answered(t)
          PROVE  \E r \in AnalyzeStates : requests' = [requests EXCEPT ![t] = r]
      BY <3>2 DEF Answered, AnalyzeStates
    <3>3. ASSUME NEW s \in Series
          PROVE  <<s, newestBar[s]>> \in Bars /\ LatestGrade(<<s, newestBar[s]>>) \in Nat
      BY SeriesBar, NewestGrade DEF AgentKinds
    <3>4. ASSUME NEW t \in Threads, In(t, "looked") PROVE requests[t].bar \in Bars
      BY <3>4 DEF AgentKinds, AnalyzeStates, In, NoRequest
    <3>. QED BY <2>1, <3>1, <3>2, <3>3, <3>4
  <2>3. requests \in [Threads -> AnalyzeStates] /\ NoRequest \in AnalyzeStates
    BY DEF AgentKinds, AnalyzeStates
  <2>. QED BY <2>2, <2>3
<1>4. /\ agNow' \in Nat /\ agBudget' \in [posts : Nat, trouble : Nat]
      /\ agNow' + agBudget'.trouble <= MaxTrouble
  <2>1. \/ UNCHANGED <<agNow, agBudget>>
        \/ UNCHANGED agNow /\ Spend("posts")
        \/ agNow' \in {agNow, agNow + 1} /\ Spend("trouble")
    OBVIOUS
  <2>2. agNow \in Nat /\ agBudget \in [posts : Nat, trouble : Nat]
        /\ agNow + agBudget.trouble <= MaxTrouble /\ MaxTrouble \in Nat
    BY AgentNumbers DEF AgentKinds
  <2>. HIDE DEF AgentNext
  <2>3. CASE UNCHANGED <<agNow, agBudget>>
    BY <2>2, <2>3
  <2>4. CASE UNCHANGED agNow /\ Spend("posts")
    BY <2>2, <2>4 DEF Spend
  <2>5. CASE agNow' \in {agNow, agNow + 1} /\ Spend("trouble")
    <3>1. /\ agBudget'.trouble = agBudget.trouble - 1 /\ agBudget.trouble > 0
          /\ agBudget'.trouble \in Nat /\ agBudget' \in [posts : Nat, trouble : Nat]
      BY <2>2, <2>5 DEF Spend
    <3>2. agBudget.trouble \in Nat
      BY <2>2
    <3>. QED BY <2>2, <2>5, <3>1, <3>2
  <2>. QED BY <2>1, <2>3, <2>4, <2>5
<1>. QED BY <1>1, <1>2, <1>3, <1>4

\* What they may make of the supervisor.
LEMMA SupervisorKinds ==
  ASSUME AgentKinds, AgentNext
  PROVE  \/ supervisor' \in {supervisor, IdleSupervisor, Reflecting}
         \/ \E b \in Bars : supervisor' = [pc |-> "grading", bar |-> b, row |-> 0]
         \/ /\ UNCHANGED grades
            /\ \E i \in 1..Len(grades) : supervisor' = [pc |-> "lesson", bar |-> NoBar, row |-> i]
<1>1. \/ supervisor' \in {supervisor, IdleSupervisor, Reflecting}
      \/ (\E s \in Series : SuperviseAsk(s)) \/ ReflectAsk
  BY DEF AgentNext, AnalyzeStep, AnalyzeLookup, AnalyzeFromTable, AnalyzeClaim, AnalyzeSchedule,
       ScheduleFails, FactsFail, JobStep, JobStore, JobLost, JobFailed, JobAnswered, AuditDone,
       AuditFails, SupervisorStep, SuperviseNothing, SuperviseOff, SuperviseFailed,
       SuperviseStore, ReflectStore, WorldStep, OwnerTogglesAi, CommandChanges, NextBar,
       AgentTick, AgentRestart, agentVars
<1>2. ASSUME NEW s \in Series, SuperviseAsk(s)
      PROVE  \E b \in Bars : supervisor' = [pc |-> "grading", bar |-> b, row |-> 0]
  BY <1>2, UngradedIsBar DEF SuperviseAsk
<1>3. ASSUME ReflectAsk
      PROVE  /\ UNCHANGED grades
             /\ \/ supervisor' = IdleSupervisor
                \/ \E i \in 1..Len(grades) : supervisor' = [pc |-> "lesson", bar |-> NoBar, row |-> i]
  BY <1>3, OldestWrong DEF ReflectAsk, tables
<1>. QED BY <1>1, <1>2, <1>3

LEMMA AgentKindsStart == AgentInit => AgentKinds
<1>. SUFFICES ASSUME AgentInit PROVE AgentKinds
  OBVIOUS
<1>1. 0 + MaxTrouble <= MaxTrouble /\ MaxPosts \in Nat /\ MaxTrouble \in Nat
  BY AgentNumbers
<1>2. /\ grades \in Seq(GradeRows) /\ audits \in Seq(AuditRows) /\ acts \in Seq(ActRows)
      /\ signals \in Seq(Bars) /\ Len(acts) = 0 /\ lessons \in Seq(Nat) /\ Len(lessons) = 0
  BY EmptySeq DEF AgentInit
<1>3. /\ {pausedAll, aiOn, commandLive} \subseteq BOOLEAN
      /\ gradeCache \in [Bars -> Nat] /\ onLoop = <<>> /\ auditing = <<>>
      /\ requests \in [Threads -> AnalyzeStates]
      /\ supervisor = IdleSupervisor /\ agNow = 0
  BY DEF AgentInit, AnalyzeStates
<1>4. agBudget \in [posts : Nat, trouble : Nat] /\ agNow + agBudget.trouble <= MaxTrouble
  <2>1. PICK n \in 0..MaxPosts : agBudget = [posts |-> n, trouble |-> MaxTrouble]
    BY DEF AgentInit
  <2>. QED BY <1>1, <1>3, <2>1
<1>5. supervisor \in SupervisorStates /\ supervisor.pc # "lesson"
  BY <1>3 DEF SupervisorStates, IdleSupervisor
<1>6. auditing \in Waits
  BY <1>3 DEF Waits
<1>. QED BY <1>2, <1>3, <1>4, <1>5, <1>6, MarketStart DEF AgentKinds

LEMMA AgentKindsStay == ASSUME AgentKinds, AgentNext PROVE AgentKinds'
<1>1. grades' \in Seq(GradeRows) /\ Len(grades') >= Len(grades)
  <2>1. Len(grades) \in Nat
    BY LenProperties DEF AgentKinds
  <2>2. CASE grades' = grades
    BY <2>1, <2>2 DEF AgentKinds
  <2>3. CASE \E b \in Bars : grades' = ResolveOutcomes(b)
    BY <2>1, <2>3, ScoringKinds
  <2>4. CASE \E b \in Bars, a \in Intents, d \in Directions : grades' = Append(grades, GradeRow(b, a, d))
    BY <2>1, <2>4, GradeKinds
  <2>. QED BY <2>2, <2>3, <2>4, AgentDoes
<1>2. /\ audits' \in Seq(AuditRows) /\ acts' \in Seq(ActRows)
      /\ \A i \in 1..Len(acts') : acts'[i].row \in 0..Len(audits')
      /\ auditing' \in Waits /\ (auditing' # <<>> /\ Acted(auditing'[2]) => Len(acts') > 0)
      /\ {pausedAll', commandLive'} \subseteq BOOLEAN
  <2>. DEFINE Rest == UNCHANGED <<audits, acts>> /\ auditing' \in {auditing, <<>>}
                      /\ pausedAll' = pausedAll /\ commandLive' \in {commandLive, ~commandLive}
  <2>1. CASE Rest
    BY <2>1 DEF AgentKinds, Waits
  <2>2. ASSUME NEW a \in Intents, ExecuteIntent(a)
        PROVE  \A i \in 1..Len(acts') : acts'[i].row \in 0..Len(audits')
    <3>. DEFINE act == [at |-> agNow, live |-> account # "demo", row |-> 0]
    <3>1. UNCHANGED audits /\ (UNCHANGED acts \/ acts' = Append(acts, act))
      BY <2>2, IntentKinds
    <3>2. acts \in Seq(ActRows) /\ Len(audits) \in Nat /\ Len(acts) \in Nat
      BY LenProperties DEF AgentKinds
    <3>3. CASE UNCHANGED acts
      BY <3>1, <3>3 DEF AgentKinds
    <3>4. CASE acts' = Append(acts, act)
      <4>1. act \in ActRows /\ act.row = 0
        BY DEF ActRows, AgentKinds
      <4>. HIDE DEF act
      <4>2. /\ Len(acts') = Len(acts) + 1 /\ acts'[Len(acts) + 1] = act
            /\ \A i \in 1..Len(acts) : acts'[i] = acts[i]
        BY <3>2, <3>4, <4>1, AppendProperties
      <4>3. \A i \in 1..Len(acts') : i \in 1..Len(acts) \/ i = Len(acts) + 1
        BY <3>2, <4>2
      <4>4. \A i \in 1..Len(acts) : acts[i].row \in 0..Len(audits)
        BY DEF AgentKinds
      <4>. QED BY <3>1, <3>2, <4>1, <4>2, <4>3, <4>4
    <3>. QED BY <3>1, <3>3, <3>4
  <2>3. CASE \E a \in Intents : ExecuteIntent(a)
    <3>1. PICK a \in Intents : ExecuteIntent(a)
      BY <2>3
    <3>. QED BY <3>1, <2>2, IntentKinds DEF AgentKinds
  <2>4. CASE /\ UNCHANGED <<agNow, pausedAll, commandLive>> /\ auditing # <<>> /\ auditing' = <<>>
             /\ \E status \in Statuses : AuditRow(status)
    <3>1. /\ audits' \in Seq(AuditRows) /\ Len(audits') = Len(audits) + 1
          /\ acts' \in Seq(ActRows) /\ Len(acts') = Len(acts)
          /\ \A i \in 1..Len(acts) : acts'[i].row = acts[i].row \/ acts'[i].row = Len(audits) + 1
      BY <2>4, AuditKinds
    <3>2. Len(audits) \in Nat /\ \A i \in 1..Len(acts) : acts[i].row \in 0..Len(audits)
      BY LenProperties DEF AgentKinds
    <3>3. \A i \in 1..Len(acts') : acts'[i].row \in 0..Len(audits')
      BY <3>1, <3>2
    <3>. QED BY <2>4, <3>1, <3>3 DEF Waits, AgentKinds
  <2>. QED BY <2>1, <2>3, <2>4, AgentDoes
<1>3. signals' \in Seq(Bars) /\ aiOn' \in BOOLEAN
  <2>1. signals \in Seq(Bars) /\ aiOn \in BOOLEAN
    BY DEF AgentKinds
  <2>2. /\ signals' = signals \/ \E b \in Bars : signals' = Append(signals, b)
        /\ aiOn' \in {aiOn, ~aiOn}
    BY AgentDoes
  <2>3. signals' \in Seq(Bars)
    <3>1. CASE signals' = signals
      BY <2>1, <3>1
    <3>2. ASSUME NEW b \in Bars, signals' = Append(signals, b) PROVE signals' \in Seq(Bars)
      BY <2>1, <3>2, AppendProperties
    <3>. QED BY <2>2, <3>1, <3>2
  <2>. QED BY <2>1, <2>2, <2>3
<1>4. lessons' \in Seq(Nat) /\ \A l \in 1..Len(lessons') : lessons'[l] \in 1..Len(grades')
  <2>1. /\ lessons \in Seq(Nat) /\ \A l \in 1..Len(lessons) : lessons[l] \in 1..Len(grades)
        /\ Len(grades) \in Nat /\ Len(grades') \in Nat
    BY <1>1, LenProperties DEF AgentKinds
  <2>2. \A n \in 1..Len(grades) : n \in 1..Len(grades') /\ n \in Nat
    BY <1>1, <2>1
  <2>3. CASE lessons' = lessons
    BY <2>1, <2>2, <2>3
  <2>4. CASE supervisor.pc = "lesson" /\ lessons' = Append(lessons, supervisor.row)
    <3>1. supervisor.row \in 1..Len(grades)
      BY <2>4 DEF AgentKinds
    <3>2. /\ lessons' \in Seq(Nat) /\ Len(lessons') = Len(lessons) + 1 /\ Len(lessons) \in Nat
          /\ lessons'[Len(lessons) + 1] = supervisor.row
          /\ \A l \in 1..Len(lessons) : lessons'[l] = lessons[l]
      BY <2>1, <2>2, <2>4, <3>1, AppendProperties, LenProperties
    <3>3. \A l \in 1..Len(lessons') : l \in 1..Len(lessons) \/ l = Len(lessons) + 1
      BY <3>2
    <3>. QED BY <2>1, <2>2, <3>1, <3>2, <3>3
  <2>. QED BY <2>3, <2>4, AgentDoes
<1>5. /\ supervisor' \in SupervisorStates
      /\ supervisor'.pc = "lesson" => supervisor'.row \in 1..Len(grades')
  <2>1. 1..Len(grades) \subseteq Nat /\ 1..Len(grades) \subseteq 1..Len(grades')
    BY <1>1, LenProperties DEF AgentKinds
  <2>2. CASE supervisor' \in {supervisor, IdleSupervisor, Reflecting}
    BY <2>1, <2>2 DEF AgentKinds, SupervisorStates, IdleSupervisor, Reflecting
  <2>3. CASE \E b \in Bars : supervisor' = [pc |-> "grading", bar |-> b, row |-> 0]
    BY <2>3 DEF SupervisorStates
  <2>4. CASE \E i \in 1..Len(grades) : supervisor' = [pc |-> "lesson", bar |-> NoBar, row |-> i]
    BY <2>1, <2>4 DEF SupervisorStates
  <2>. QED BY <2>2, <2>3, <2>4, SupervisorKinds
<1>6. MarketKinds'
  BY MarketMove DEF AgentKinds
<1>. QED BY <1>1, <1>2, <1>3, <1>4, <1>5, <1>6, AgentMemory DEF AgentKinds

LEMMA AgentKindsMove == AgentKinds /\ [AgentNext]_agentVars => AgentKinds'
<1>1. AgentKinds /\ UNCHANGED agentVars => AgentKinds'
  BY DEF agentVars, AgentKinds, MarketKinds
<1>. QED BY <1>1, AgentKindsStay

LEMMA AgentTypes == AgentKinds /\ SlotsInv => AgentTypeOK
<1>. SUFFICES ASSUME AgentKinds, SlotsInv PROVE AgentTypeOK
  OBVIOUS
<1>1. /\ DOMAIN grades = 1..Len(grades) /\ \A i \in 1..Len(grades) : grades[i] \in GradeRows
      /\ DOMAIN audits = 1..Len(audits) /\ \A i \in 1..Len(audits) : audits[i] \in AuditRows
      /\ DOMAIN lessons = 1..Len(lessons) /\ DOMAIN acts = 1..Len(acts)
      /\ DOMAIN signals = 1..Len(signals) /\ \A i \in 1..Len(signals) : signals[i] \in Bars
  BY LenProperties, ElementOfSeq DEF AgentKinds
<1>2. /\ \A i \in DOMAIN lessons : lessons[i] \in DOMAIN grades
      /\ {pausedAll, aiOn, commandLive} \subseteq BOOLEAN
      /\ gradeCache \in [Bars -> Nat]
  BY <1>1 DEF AgentKinds
<1>3. \A i \in DOMAIN acts : acts[i].row \in {0} \union DOMAIN audits
  <2>1. Len(audits) \in Nat /\ \A i \in 1..Len(acts) : acts[i].row \in 0..Len(audits)
    BY LenProperties DEF AgentKinds
  <2>. QED BY <1>1, <2>1
<1>4. inflight \subseteq Bars /\ jobs \in [Bars -> Nat]
  BY DEF SlotsInv
<1>. QED BY <1>1, <1>2, <1>3, <1>4 DEF AgentTypeOK, GradeRows, AuditRows, Intents, Statuses

-----------------------------------------------------------------------------
(* The budgets of the broker                                               *)

\* The actions a budget counts when action i is done: those before it that have an
\* audit row, and i itself.
Counted(i, span) == Recent(i, span) \ (Unrecorded \ {i})

\* An action is recorded in at most one row, which is of no earlier time; so the rows
\* the broker counts before an action are at least as many as the actions they record.
BrokerInv ==
    /\ \A i \in 1..Len(acts) :
          /\ acts[i].at <= agNow
          /\ acts[i].row # 0 => acts[i].at <= audits[acts[i].row].at
    /\ \A i, j \in 1..Len(acts) : acts[i].row = acts[j].row /\ acts[i].row # 0 => i = j
    /\ ActionsBounded

LEMMA CountedIs ==
  ASSUME AgentKinds, NEW i \in 1..Len(acts), NEW span
  PROVE  Counted(i, span) = {j \in 1..i : /\ acts[j].at + span >= acts[i].at
                                          /\ j = i \/ acts[j].row # 0}
<1>1. DOMAIN acts = 1..Len(acts) /\ Len(acts) \in Nat
  BY LenProperties DEF AgentKinds
<1>2. \A j \in 1..i : j \in 1..Len(acts)
  BY <1>1
<1>. QED BY <1>1, <1>2 DEF Counted, Recent, Unrecorded

\* What is counted for an action depends on the times up to it, and on the rows
\* of the actions before it.
LEMMA CountedStays ==
  ASSUME AgentKinds, AgentKinds', NEW i \in 1..Len(acts), i \in 1..Len(acts'), NEW span,
         \A j \in 1..i : acts'[j].at = acts[j].at /\ (j # i => acts'[j].row = acts[j].row)
  PROVE  Counted(i, span)' = Counted(i, span)
<1>1. Counted(i, span) = {j \in 1..i : /\ acts[j].at + span >= acts[i].at
                                       /\ j = i \/ acts[j].row # 0}
  BY CountedIs
<1>2. Counted(i, span)' = {j \in 1..i : /\ acts'[j].at + span >= acts'[i].at
                                        /\ j = i \/ acts'[j].row # 0}
  <2>1. DOMAIN acts' = 1..Len(acts') /\ Len(acts') \in Nat
    BY LenProperties DEF AgentKinds
  <2>2. \A j \in 1..i : j \in 1..Len(acts')
    BY <2>1
  <2>. QED BY <2>1, <2>2 DEF Counted, Recent, Unrecorded
<1>3. i \in 1..i
  BY LenProperties DEF AgentKinds
<1>. QED BY <1>1, <1>2, <1>3

\* Before an action the budget has room, so that it has none too many with it.
LEMMA CountedWithNew ==
  ASSUME AgentKinds, AgentKinds', BrokerInv, NEW span \in Nat, NEW limit \in Nat, Since(span) < limit,
         NEW act \in ActRows, act.at = agNow, acts' = Append(acts, act),
         NEW n, n = Len(acts)
  PROVE  Cardinality(Counted(n + 1, span)') <= limit
<1>. DEFINE Old == {j \in 1..n : acts[j].at + span >= agNow /\ acts[j].row # 0}
            Rows == {r \in DOMAIN audits : audits[r].at + span >= agNow}
            f == [j \in Old |-> acts[j].row]
<1>1. /\ n \in Nat /\ acts \in Seq(ActRows) /\ DOMAIN audits = 1..Len(audits) /\ Len(audits) \in Nat
      /\ agNow \in Nat /\ (\A j \in 1..n : acts[j] \in ActRows)
      /\ \A j \in 1..n : acts[j].row \in 0..Len(audits)
      /\ \A r \in 1..Len(audits) : audits[r] \in AuditRows
  BY LenProperties, ElementOfSeq DEF AgentKinds
<1>2. \A j \in Old : acts[j].row \in Rows
  <2>. SUFFICES ASSUME NEW j \in Old PROVE acts[j].row \in Rows
    OBVIOUS
  <2>1. acts[j].row \in 1..Len(audits) /\ acts[j].at \in Nat
    BY <1>1 DEF ActRows
  <2>2. acts[j].at <= audits[acts[j].row].at /\ audits[acts[j].row].at \in Nat
    BY <1>1, <2>1, AgentNumbers, SMTT(30) DEF BrokerInv, AuditRows
  <2>. QED BY <1>1, <2>1, <2>2
<1>3. \A i, j \in Old : acts[i].row = acts[j].row => i = j
  BY DEF BrokerInv
<1>4. f \in Injection(Old, Rows)
  BY <1>2, <1>3 DEF Injection, IsInjective
<1>5. IsFiniteSet(Rows)
  <2>1. IsFiniteSet(1..Len(audits)) /\ Rows \in SUBSET (1..Len(audits))
    BY <1>1, FS_Interval
  <2>. HIDE DEF Rows
  <2>. QED BY <2>1, FS_Subset
<1>6. Cardinality(Rows) = Since(span)
  BY DEF Since
<1>. HIDE DEF f, Old, Rows
<1>7. IsFiniteSet(Old) /\ Cardinality(Old) <= Since(span)
  BY <1>4, <1>5, <1>6, FS_Injection
<1>8. Counted(n + 1, span)' = Old \union {n + 1}
  <2>1. /\ Len(acts') = n + 1 /\ DOMAIN acts' = 1..(n + 1) /\ acts'[n + 1] = act
        /\ \A i \in 1..n : acts'[i] = acts[i]
    BY <1>1, AppendProperties, LenProperties
  <2>2. Counted(n + 1, span)' = {j \in 1..(n + 1) : /\ acts'[j].at + span >= acts'[n + 1].at
                                                    /\ j = n + 1 \/ acts'[j].row # 0}
    <3>1. Counted(n + 1, span)' = {j \in 1..(n + 1) : acts'[j].at + span >= acts'[n + 1].at}
                                    \ ({j \in DOMAIN acts' : acts'[j].row = 0} \ {n + 1})
      BY <1>1 DEF Counted, Recent, Unrecorded
    <3>. QED BY <2>1, <3>1
  <2>3. n + 1 \in 1..(n + 1) /\ n + 1 \notin 1..n
        /\ \A j \in 1..(n + 1) : j \in 1..n \/ j = n + 1
    BY <1>1
  <2>4. agNow + span >= agNow
    BY <1>1
  <2>5. ASSUME NEW j PROVE j \in Counted(n + 1, span)' <=> j \in Old \/ j = n + 1
    BY <1>1, <2>1, <2>2, <2>3, <2>4 DEF Old
  <2>. QED BY <2>5
<1>9. /\ Cardinality(Counted(n + 1, span)') \in Nat /\ Cardinality(Old) \in Nat
      /\ Cardinality(Counted(n + 1, span)') <= Cardinality(Old) + 1
  <2>1. Cardinality(Old) \in Nat
    BY <1>7, FS_CardinalityType
  <2>2. PICK new : new = Old \union {n + 1}
    OBVIOUS
  <2>3. Cardinality(new) = IF n + 1 \in Old THEN Cardinality(Old) ELSE Cardinality(Old) + 1
    BY <1>7, <2>2, FS_AddElement
  <2>4. Cardinality(Counted(n + 1, span)') = Cardinality(new)
    BY <1>8, <2>2
  <2>. QED BY <2>1, <2>3, <2>4
<1>10. Since(span) \in Nat
  <2>1. Cardinality(Rows) \in Nat
    BY <1>5, FS_CardinalityType
  <2>. QED BY <1>6, <2>1
<1>11. Since(span) < limit /\ Cardinality(Old) <= Since(span)
  BY <1>7
<1>12. \A c, o, s \in Nat : c <= o + 1 /\ o <= s /\ s < limit => c <= limit
  OBVIOUS
<1>. QED BY <1>9, <1>10, <1>11, <1>12

LEMMA SinceIsNat == ASSUME AgentKinds, NEW span PROVE Since(span) \in Nat
<1>. DEFINE Rows == {r \in DOMAIN audits : audits[r].at + span >= agNow}
<1>1. IsFiniteSet(1..Len(audits)) /\ Rows \in SUBSET (1..Len(audits))
  <2>1. Len(audits) \in Nat /\ DOMAIN audits = 1..Len(audits)
    BY LenProperties DEF AgentKinds
  <2>2. IsFiniteSet(1..Len(audits))
    BY <2>1, FS_Interval
  <2>. QED BY <2>1, <2>2
<1>2. Since(span) = Cardinality(Rows)
  BY DEF Since
<1>. HIDE DEF Rows
<1>. QED BY <1>1, <1>2, FS_Subset, FS_CardinalityType

\* A grade that has a score keeps one.
LEMMA ResolvedGrows ==
  ASSUME AgentKinds, AgentKinds', AgentNext
  PROVE  Resolved \in Nat /\ Resolved' \in Nat /\ Resolved' >= Resolved
<1>. DEFINE n == Len(grades)
            Known == Scored("right") \union Scored("wrong")
<1>1. /\ n \in Nat /\ DOMAIN grades = 1..n /\ DOMAIN grades' = 1..Len(grades') /\ Len(grades') \in Nat
  BY LenProperties DEF AgentKinds
<1>2. Known \subseteq Known'
  <2>1. CASE grades' = grades
    BY <2>1 DEF Scored
  <2>2. ASSUME NEW b \in Bars, grades' = ResolveOutcomes(b) PROVE Known \subseteq Known'
    <3>1. \A i \in DOMAIN grades : i \in DOMAIN grades' /\ (grades[i].score # "open" => grades'[i] = grades[i])
      BY <2>2 DEF ResolveOutcomes, Matured
    <3>. QED BY <3>1 DEF Scored
  <2>3. ASSUME NEW b \in Bars, NEW a \in Intents, NEW d \in Directions,
               grades' = Append(grades, GradeRow(b, a, d))
        PROVE  Known \subseteq Known'
    <3>1. GradeRow(b, a, d) \in GradeRows /\ grades \in Seq(GradeRows)
      BY DEF GradeRow, GradeRows, AgentKinds
    <3>2. Len(grades') = n + 1 /\ \A i \in 1..n : grades'[i] = grades[i]
      BY <2>3, <3>1, AppendProperties
    <3>3. \A i \in DOMAIN grades : i \in DOMAIN grades' /\ grades'[i] = grades[i]
      BY <1>1, <3>2
    <3>. QED BY <3>3 DEF Scored
  <2>. QED BY <2>1, <2>2, <2>3, AgentDoes
<1>3. IsFiniteSet(Known') /\ IsFiniteSet(Known)
  <2>1. Known \in SUBSET (1..n) /\ Known' \in SUBSET (1..Len(grades'))
    BY <1>1 DEF Scored
  <2>2. IsFiniteSet(1..n) /\ IsFiniteSet(1..Len(grades'))
    BY <1>1, FS_Interval
  <2>. HIDE DEF Known, n
  <2>. QED BY <2>1, <2>2, FS_Subset
<1>4. Cardinality(Known) = Resolved /\ Cardinality(Known') = Resolved'
  BY DEF Resolved
<1>. HIDE DEF Known
<1>5. Cardinality(Known) <= Cardinality(Known') /\ Cardinality(Known) \in Nat /\ Cardinality(Known') \in Nat
  BY <1>2, <1>3, FS_Subset, FS_CardinalityType
<1>. QED BY <1>4, <1>5

\* What ActionsBounded says of one action.
ActBounded(i) ==
    /\ Cardinality(Counted(i, HourSpan)) <= PerHour /\ Cardinality(Counted(i, DaySpan)) <= PerDay
    /\ acts[i].live => config.allowLive /\ (config.bypass \/ Resolved >= MinResolved)

LEMMA BoundedByAct ==
  ASSUME AgentKinds PROVE ActionsBounded <=> \A i \in 1..Len(acts) : ActBounded(i)
<1>1. DOMAIN acts = 1..Len(acts)
  BY LenProperties DEF AgentKinds
<1>. QED BY <1>1 DEF ActionsBounded, ActBounded, WithinBudget, Counted

\* An action that was within its limits stays so.
LEMMA ActStaysBounded ==
  ASSUME AgentKinds, AgentKinds', AgentNext, NEW i \in 1..Len(acts), i \in 1..Len(acts'), ActBounded(i),
         acts'[i].live = acts[i].live,
         \A j \in 1..i : acts'[j].at = acts[j].at /\ (j # i => acts'[j].row = acts[j].row)
  PROVE  ActBounded(i)'
<1>1. Counted(i, HourSpan)' = Counted(i, HourSpan) /\ Counted(i, DaySpan)' = Counted(i, DaySpan)
  BY CountedStays
<1>2. UNCHANGED config
  BY AgentDoes
<1>3. Resolved \in Nat /\ Resolved' \in Nat /\ Resolved' >= Resolved /\ MinResolved \in Nat
  BY ResolvedGrows, AgentAssumption
<1>. QED BY <1>1, <1>2, <1>3 DEF ActBounded

LEMMA BrokerMoves == ASSUME AgentKinds, AgentKinds', BrokerInv, AgentNext PROVE BrokerInv'
<1>0. PICK n : n = Len(acts)
  OBVIOUS
<1>. DEFINE act == [at |-> agNow, live |-> account # "demo", row |-> 0]
<1>1. /\ n \in Nat /\ acts \in Seq(ActRows) /\ Len(audits) \in Nat /\ agNow \in Nat
      /\ (\A j \in 1..n : acts[j] \in ActRows /\ acts[j].at \in Nat)
      /\ \A j \in 1..n : acts[j].row \in 0..Len(audits)
  <2>1. /\ acts \in Seq(ActRows) /\ audits \in Seq(AuditRows) /\ agNow \in Nat
        /\ \A j \in 1..n : acts[j].row \in 0..Len(audits)
    BY <1>0 DEF AgentKinds
  <2>2. n \in Nat /\ Len(audits) \in Nat /\ \A j \in 1..n : acts[j] \in ActRows
    BY <1>0, <2>1, LenProperties, ElementOfSeq
  <2>3. \A a \in ActRows : a.at \in Nat
    BY DEF ActRows
  <2>. QED BY <2>1, <2>2, <2>3
<1>2. /\ \A i \in 1..n : /\ acts[i].at <= agNow
                         /\ acts[i].row # 0 => acts[i].at <= audits[acts[i].row].at
      /\ \A i, j \in 1..n : acts[i].row = acts[j].row /\ acts[i].row # 0 => i = j
      /\ \A i \in 1..n : ActBounded(i)
  BY <1>0, BoundedByAct DEF BrokerInv
<1>3. ASSUME UNCHANGED <<audits, acts>>, agNow' \in {agNow, agNow + 1} PROVE BrokerInv'
  <2>1. \A i \in 1..n : acts[i].at <= agNow'
    BY <1>1, <1>2, <1>3
  <2>2. ASSUME NEW i \in 1..n PROVE ActBounded(i)'
    BY <1>0, <1>2, <1>3, <2>2, ActStaysBounded
  <2>3. ActionsBounded'
    <3>1. Len(acts') = n /\ DOMAIN acts' = 1..n
      BY <1>0, <1>3, LenProperties DEF AgentKinds
    <3>. QED BY <2>2, <3>1 DEF ActionsBounded, ActBounded, WithinBudget, Counted
  <2>. QED BY <1>0, <1>2, <1>3, <2>1, <2>3 DEF BrokerInv
<1>4. ASSUME NEW a \in Intents, ~Refused(a), UNCHANGED <<audits, agNow>>, acts' = Append(acts, act)
      PROVE  BrokerInv'
  <2>1. act \in ActRows /\ act.at = agNow /\ act.row = 0
    BY <1>1 DEF ActRows
  <2>. HIDE DEF act
  <2>2. /\ Len(acts') = n + 1 /\ acts'[n + 1] = act /\ DOMAIN acts' = 1..(n + 1)
        /\ \A i \in 1..n : acts'[i] = acts[i]
        /\ \A i \in 1..(n + 1) : i \in 1..n \/ i = n + 1
    BY <1>0, <1>1, <1>4, <2>1, AppendProperties, LenProperties
  <2>3. ASSUME NEW i \in 1..n PROVE ActBounded(i)'
    <3>1. i \in 1..Len(acts') /\ \A j \in 1..i : j \in 1..n
      BY <1>1, <2>2
    <3>. QED BY <1>0, <1>2, <2>2, <3>1, ActStaysBounded
  <2>4. ActBounded(n + 1)'
    <3>1. Since(HourSpan) < PerHour /\ Since(DaySpan) < PerDay
      <4>1. ~(Since(HourSpan) >= PerHour) /\ ~(Since(DaySpan) >= PerDay)
        BY <1>4 DEF Refused, BudgetSpent
      <4>2. Since(HourSpan) \in Nat /\ Since(DaySpan) \in Nat
        BY SinceIsNat, AgentAssumption
      <4>. QED BY <4>1, <4>2, AgentAssumption
    <3>2. /\ Cardinality(Counted(n + 1, HourSpan)') <= PerHour
          /\ Cardinality(Counted(n + 1, DaySpan)') <= PerDay
      BY <1>0, <1>4, <2>1, <3>1, CountedWithNew, AgentAssumption
    <3>3. act.live => config.allowLive /\ (config.bypass \/ Resolved >= MinResolved)
      <4>1. act.live = (account # "demo")
        BY DEF act
      <4>2. /\ config.allowLive \/ account = "demo"
            /\ config.allowLive => config.bypass \/ ~(Resolved < MinResolved)
        BY <1>4 DEF Refused, Unproven
      <4>0. ASSUME ~(Resolved < MinResolved), Resolved \in Nat, MinResolved \in Nat
            PROVE  Resolved >= MinResolved
        BY <4>0
      <4>3. Resolved \in Nat /\ MinResolved \in Nat
        BY ResolvedGrows, AgentAssumption
      <4>. QED BY <4>0, <4>1, <4>2, <4>3
    <3>4. Resolved \in Nat /\ Resolved' \in Nat /\ Resolved' >= Resolved /\ MinResolved \in Nat
      BY ResolvedGrows, AgentAssumption
    <3>5. UNCHANGED config
      BY AgentDoes
    <3>6. acts'[n + 1].live =>
            config.allowLive /\ (config.bypass \/ Resolved' >= MinResolved)
      BY <2>2, <3>3, <3>4
    <3>. QED BY <3>2, <3>5, <3>6 DEF ActBounded
  <2>5. ActionsBounded'
    <3>1. \A i \in 1..(n + 1) : ActBounded(i)'
      BY <2>2, <2>3, <2>4
    <3>. QED BY <2>2, <3>1 DEF ActionsBounded, ActBounded, WithinBudget, Counted
  <2>6. \A i \in 1..(n + 1) : /\ acts'[i].at <= agNow
                              /\ acts'[i].row # 0 => acts'[i].at <= audits[acts'[i].row].at
    BY <1>1, <1>2, <2>1, <2>2, SMTT(30)
  <2>7. \A i, j \in 1..(n + 1) : acts'[i].row = acts'[j].row /\ acts'[i].row # 0 => i = j
    BY <1>2, <2>1, <2>2
  <2>. QED BY <1>4, <2>2, <2>5, <2>6, <2>7 DEF BrokerInv
<1>5. ASSUME UNCHANGED agNow, auditing # <<>>, NEW status \in Statuses, AuditRow(status)
      PROVE  BrokerInv'
  <2>1. /\ Len(audits') = Len(audits) + 1
        /\ \A i \in 1..Len(audits) : audits'[i] = audits[i]
        /\ audits'[Len(audits) + 1].at = agNow /\ Len(acts') = n
        /\ \A i \in 1..n : /\ acts'[i].at = acts[i].at /\ acts'[i].live = acts[i].live
                           /\ \/ acts'[i].row = acts[i].row
                              \/ i = n /\ acts'[i].row = Len(audits) + 1
    BY <1>0, <1>5, AuditKinds
  <2>2. ASSUME NEW i \in 1..n PROVE ActBounded(i)'
    <3>1. \A j \in 1..i : j \in 1..n /\ (j # i => j # n)
      BY <1>1
    <3>2. \A j \in 1..i : acts'[j].at = acts[j].at /\ (j # i => acts'[j].row = acts[j].row)
      BY <2>1, <3>1
    <3>3. ActBounded(i) /\ acts'[i].live = acts[i].live /\ i \in 1..Len(acts')
      BY <1>2, <2>1
    <3>. QED BY <1>0, <3>2, <3>3, ActStaysBounded
  <2>3. ActionsBounded'
    <3>1. DOMAIN acts' = 1..n
      BY <2>1, LenProperties DEF AgentKinds
    <3>. QED BY <2>2, <3>1 DEF ActionsBounded, ActBounded, WithinBudget, Counted
  <2>4. \A i \in 1..n : acts'[i].row # 0 => acts'[i].at <= audits'[acts'[i].row].at
    <3>. SUFFICES ASSUME NEW i \in 1..n, acts'[i].row # 0
                  PROVE  acts'[i].at <= audits'[acts'[i].row].at
      OBVIOUS
    <3>1. CASE acts'[i].row = acts[i].row
      <4>1. acts[i].row \in 1..Len(audits)
        BY <1>1, <3>1
      <4>. QED BY <1>2, <2>1, <3>1, <4>1
    <3>2. CASE acts'[i].row = Len(audits) + 1
      BY <1>2, <2>1, <3>2
    <3>. QED BY <2>1, <3>1, <3>2
  <2>5. \A i, j \in 1..n : acts'[i].row = acts'[j].row /\ acts'[i].row # 0 => i = j
    BY <1>1, <1>2, <2>1, SMTT(30)
  <2>. QED BY <1>2, <1>5, <2>1, <2>3, <2>4, <2>5 DEF BrokerInv
<1>6. ASSUME NEW a \in Intents, ExecuteIntent(a), UNCHANGED agNow PROVE BrokerInv'
  <2>1. UNCHANGED audits /\ (UNCHANGED acts \/ (acts' = Append(acts, act) /\ ~Refused(a)))
    BY <1>6, IntentKinds
  <2>. QED BY <1>3, <1>4, <1>6, <2>1
<1>. QED BY <1>3, <1>5, <1>6, AgentDoes

LEMMA BrokerMove ==
  AgentKinds /\ BrokerInv /\ [AgentNext]_agentVars => (AgentKinds /\ BrokerInv)'
<1>1. ASSUME AgentKinds, BrokerInv, UNCHANGED agentVars PROVE BrokerInv'
  BY <1>1 DEF agentVars, BrokerInv, ActionsBounded, WithinBudget, Recent, Unrecorded, Resolved, Scored
<1>. QED BY <1>1, AgentKindsMove, BrokerMoves

LEMMA BrokerStart == AgentInit => BrokerInv
<1>. SUFFICES ASSUME AgentInit PROVE BrokerInv
  OBVIOUS
<1>1. acts = <<>> /\ Len(acts) = 0 /\ DOMAIN acts = {}
  BY EmptySeq DEF AgentInit
<1>. QED BY <1>1 DEF BrokerInv, ActionsBounded

\* The actions the agent took are within the budgets of an hour and of a day, although
\* the broker counts audit rows, which are written apart from the actions, at another
\* time, and may be missing; and none is on a real account before its grades are
\* scored (execute_intent and _audit in agent_actions.py).
THEOREM ActionsAreBounded == AgentSpec => []ActionsBounded
<1>1. AgentInit => AgentKinds /\ BrokerInv
  BY AgentKindsStart, BrokerStart
<1>2. (AgentKinds /\ BrokerInv) /\ [AgentNext]_agentVars => (AgentKinds /\ BrokerInv)'
  BY BrokerMove
<1>3. AgentKinds /\ BrokerInv => ActionsBounded
  BY DEF BrokerInv
<1>. QED BY <1>1, <1>2, <1>3, PTL DEF AgentSpec

-----------------------------------------------------------------------------
(* What the variables of the Telegram tasks hold                           *)

\* The poller is not ahead of the owner.
PollArrived ==
    /\ confirmed <= arrived /\ poller.offset <= arrived + 1
    /\ \A k \in 1..Len(poller.batch) : poller.batch[k] <= arrived

\* Messages are never deleted, and the pinned one was sent.
PinKnown == pinned.id \in 0..Len(posts)

LEMMA PollTypes ==
  ASSUME PollInv, PollArrived, [TelegramNext]_telegramVars PROVE PollArrived'
<1>1. /\ confirmed \in Nat /\ arrived \in Nat /\ poller.offset \in Nat \ {0}
      /\ poller \in [pc : {"ask", "handle"}, offset : Nat \ {0}, batch : Seq(1..MaxUpdates)]
      /\ poller.batch \in Seq(1..MaxUpdates) /\ Len(poller.batch) \in Nat
      /\ MaxUpdates \in Nat
      /\ \A k \in 1..Len(poller.batch) : poller.batch[k] \in Nat
  <2>1. /\ confirmed \in Nat /\ arrived \in 0..MaxUpdates /\ MaxUpdates \in Nat
        /\ poller \in [pc : {"ask", "handle"}, offset : Nat \ {0}, batch : Seq(1..MaxUpdates)]
    BY TelegramAssumption DEF PollInv, PollKinds
  <2>2. poller.batch \in Seq(1..MaxUpdates) /\ poller.offset \in Nat \ {0}
    BY <2>1
  <2>3. /\ Len(poller.batch) \in Nat
        /\ \A k \in 1..Len(poller.batch) : poller.batch[k] \in 1..MaxUpdates
    BY <2>2, LenProperties, ElementOfSeq
  <2>. QED BY <2>1, <2>2, <2>3
<1>2. CASE UNCHANGED <<confirmed, arrived, poller>>
  BY <1>2 DEF PollArrived
<1>3. CASE PollAsks
  <2>1. /\ UNCHANGED arrived /\ confirmed' = Below(poller.offset)
        /\ Below(poller.offset) \in Nat /\ Below(poller.offset) <= arrived
    BY <1>1, <1>3 DEF PollAsks, Below, PollArrived
  <2>2. CASE UNCHANGED poller
    BY <2>1, <2>2 DEF PollArrived
  <2>3. CASE /\ Below(poller.offset) < arrived
             /\ poller' = [poller EXCEPT !.pc = "handle",
                                         !.batch = Range1(Below(poller.offset) + 1, arrived)]
    <3>. DEFINE first == Below(poller.offset) + 1
    <3>1. poller'.offset = poller.offset /\ poller'.batch = Range1(first, arrived)
      BY <1>1, <2>3
    <3>2. first \in Nat /\ first <= arrived
      BY <1>1, <2>1, <2>3
    <3>. HIDE DEF first
    <3>3. Range1(first, arrived) = [n \in 1..(arrived - first + 1) |-> first + n - 1]
          /\ arrived - first + 1 \in Nat
      BY <1>1, <3>2 DEF Range1
    <3>4. Len(poller'.batch) = arrived - first + 1
      BY <3>1, <3>3
    <3>5. \A k \in 1..(arrived - first + 1) : poller'.batch[k] = first + k - 1
      BY <3>1, <3>3
    <3>6. \A k \in 1..(arrived - first + 1) : first + k - 1 <= arrived
      BY <1>1, <3>2
    <3>. QED BY <2>1, <3>1, <3>4, <3>5, <3>6 DEF PollArrived
  <2>. QED BY <1>3, <2>2, <2>3 DEF PollAsks
<1>4. CASE PollHandles
  <2>. DEFINE u == Head(poller.batch)
              rest == Tail(poller.batch)
  <2>1. /\ UNCHANGED <<confirmed, arrived>> /\ poller.batch # <<>>
        /\ \/ poller' = [poller EXCEPT !.offset = u + 1, !.batch = rest]
           \/ poller' = [poller EXCEPT !.offset = u + 1, !.batch = <<>>, !.pc = "ask"]
    BY <1>4 DEF PollHandles, Past
  <2>2. /\ u = poller.batch[1] /\ 1 \in 1..Len(poller.batch)
        /\ Len(rest) = Len(poller.batch) - 1
        /\ \A k \in 1..Len(rest) : rest[k] = poller.batch[k + 1] /\ k + 1 \in 1..Len(poller.batch)
    <3>. DEFINE batch == poller.batch
    <3>1. batch \in Seq(1..MaxUpdates) /\ batch # <<>>
      BY <1>1, <2>1
    <3>. HIDE DEF batch
    <3>2. Len(batch) \in Nat \ {0} /\ Len(Tail(batch)) = Len(batch) - 1
      BY <3>1, EmptySeq, LenProperties, HeadTailProperties
    <3>3. Head(batch) = batch[1]
      BY <3>1
    <3>4. \A k \in 1..Len(Tail(batch)) : Tail(batch)[k] = batch[k + 1]
      BY <3>1, HeadTailProperties
    <3>5. 1 \in 1..Len(batch) /\ \A k \in 1..Len(Tail(batch)) : k + 1 \in 1..Len(batch)
      BY <3>2
    <3>. QED BY <3>2, <3>3, <3>4, <3>5 DEF batch
  <2>. HIDE DEF u, rest
  <2>3. u \in Nat /\ u <= arrived /\ \A k \in 1..Len(rest) : rest[k] <= arrived
    BY <1>1, <2>2 DEF PollArrived
  <2>4. /\ poller'.offset = u + 1 /\ poller'.batch \in {rest, <<>>}
    BY <1>1, <2>1
  <2>5. \A k \in 1..Len(poller'.batch) : poller'.batch[k] <= arrived
    <3>1. Len(<<>>) = 0
      BY EmptySeq
    <3>. QED BY <2>3, <2>4, <3>1
  <2>. QED BY <1>1, <2>1, <2>3, <2>4, <2>5 DEF PollArrived
<1>5. CASE BatchEnds
  <2>1. /\ UNCHANGED <<confirmed, arrived>>
        /\ poller'.offset = poller.offset /\ poller'.batch = poller.batch
    BY <1>1, <1>5 DEF BatchEnds
  <2>. QED BY <2>1 DEF PollArrived
<1>6. CASE UpdateArrives
  <2>1. arrived' = arrived + 1 /\ UNCHANGED <<confirmed, poller>>
    BY <1>6 DEF UpdateArrives
  <2>2. \A k \in 1..Len(poller.batch) : poller.batch[k] <= arrived + 1
    BY <1>1 DEF PollArrived
  <2>. QED BY <1>1, <2>1, <2>2 DEF PollArrived
<1>7. CASE ApplyTelegram \/ TelegramRestart
  <2>1. /\ UNCHANGED <<confirmed, arrived>>
        /\ poller'.offset = 1 /\ poller'.batch = <<>>
    BY <1>7 DEF ApplyTelegram, TelegramRestart, FreshPoller
  <2>2. Len(poller'.batch) = 0
    BY <2>1, EmptySeq
  <2>. QED BY <1>1, <2>1, <2>2 DEF PollArrived
<1>8. CASE TickerStep
  BY <1>2, <1>8
     DEF TickerStep, TickStarts, TickPosts, TickPostsChannel, TickPersists, TickEdits,
         TickEditsChannel, TickFreezes, TickFreezesChannel, TickClears, OnlyTicker, pollSide
<1>9. CASE PinnedStep
  BY <1>2, <1>9 DEF PinnedStep, PinStarts, EditorPins, OrphanPins, OnlyPin, pollSide
<1>10. CASE BasketOpensOrCloses \/ UNCHANGED telegramVars
  BY <1>2, <1>10 DEF BasketOpensOrCloses, telegramVars, pollSide
<1>. QED BY <1>3, <1>4, <1>5, <1>6, <1>7, <1>8, <1>9, <1>10 DEF TelegramNext, PollerStep

\* What a step may make of the messages.
LEMMA PostsStay ==
  ASSUME TickerInv, [TelegramNext]_telegramVars
  PROVE  Len(posts) \in Nat /\ Len(posts') \in Nat /\ Len(posts') >= Len(posts)
<1>1. Len(posts) \in Nat /\ posts \in Seq(Posts)
  BY LenProperties DEF TickerInv, PostKinds
<1>2. \/ UNCHANGED posts
      \/ \E post : posts' = Append(posts, post)
      \/ \E id, live : Edited(id, live)
  BY DEF TelegramNext, TickerStep, TickStarts, TickPosts, TickPostsChannel, TickPersists, TickEdits,
         TickEditsChannel, TickFreezes, TickFreezesChannel, TickClears, PinnedStep, PinStarts,
         EditorPins, OrphanPins, PinStep, PinSends, PinEdits, PinSaves, PinVersion, PollerStep, PollAsks,
         PollHandles, BatchEnds, OnlyPoller, ApplyTelegram, TelegramRestart, BasketOpensOrCloses,
         UpdateArrives, telegramVars, Sent
<1>3. TickerInv'
  BY TickerMoves
<1>4. Len(posts') \in Nat /\ posts' \in Seq(Posts)
  BY <1>3, LenProperties DEF TickerInv, PostKinds
<1>5. ASSUME NEW post, posts' = Append(posts, post) PROVE Len(posts') = Len(posts) + 1
  BY <1>1, <1>5
<1>6. ASSUME NEW id, NEW live, Edited(id, live) PROVE Len(posts') = Len(posts)
  <2>1. DOMAIN posts' = DOMAIN posts
    BY <1>6 DEF Edited
  <2>. QED BY <1>1, <1>4, <2>1, LenProperties
<1>. QED BY <1>1, <1>2, <1>4, <1>5, <1>6

LEMMA PinTypes ==
  ASSUME TickerInv, PinInv, PinKnown, [TelegramNext]_telegramVars PROVE PinKnown'
<1>1. Len(posts) \in Nat /\ Len(posts') \in Nat /\ Len(posts') >= Len(posts)
  BY PostsStay
<1>2. CASE pinned'.id \in {pinned.id, 0}
  BY <1>1, <1>2 DEF PinKnown
<1>3. ASSUME NEW p \in {pinner, orphan}, p.pc = "save", pinned'.id = p.id PROVE PinKnown'
  <2>1. p.id \in 1..Len(posts)
    BY <1>3, IdsOfPosts DEF PinInv, PinPoint, Exists, TickerInv, PostIds
  <2>. QED BY <1>1, <1>3, <2>1 DEF PinKnown
<1>4. \A p, next : PinStep(p, next) =>
         \/ UNCHANGED pinned
         \/ pinned' = [pinned EXCEPT !.id = 0]
         \/ p.pc = "save" /\ pinned' = [pinned EXCEPT !.id = p.id]
         \/ pinned' = [pinned EXCEPT !.version = helpVersion]
  BY DEF PinStep, PinSends, PinEdits, PinSaves, PinVersion
<1>5. UNCHANGED pinned \/ PinnedStep
  BY DEF TelegramNext, TickerStep, TickStarts, TickPosts, TickPostsChannel, TickPersists, TickEdits,
         TickEditsChannel, TickFreezes, TickFreezesChannel, TickClears, PollerStep, PollAsks,
         PollHandles, BatchEnds, OnlyPoller, OnlyTicker, ApplyTelegram, TelegramRestart,
         BasketOpensOrCloses, UpdateArrives, telegramVars, pinSide
<1>6. PinnedStep => \/ UNCHANGED pinned
                    \/ \E p \in {pinner, orphan} : \E next : PinStep(p, next)
  BY DEF PinnedStep, PinStarts, EditorPins, OrphanPins
<1>7. pinned \in [id : Nat, version : Nat]
  BY DEF TickerInv, PostKinds
<1>8. \/ pinned'.id \in {pinned.id, 0}
      \/ \E p \in {pinner, orphan} : p.pc = "save" /\ pinned'.id = p.id
  BY <1>4, <1>5, <1>6, <1>7
<1>. QED BY <1>2, <1>3, <1>8

TelegramInv == TickerInv /\ PinInv /\ PollInv /\ PollArrived /\ PinKnown

LEMMA TelegramTypes == TelegramInv => TelegramTypeOK
<1>. SUFFICES ASSUME TelegramInv PROVE TelegramTypeOK
  OBVIOUS
<1>1. DOMAIN posts = 1..Len(posts) /\ Len(posts) \in Nat
  BY IdsOfPosts DEF TelegramInv, TickerInv, PostIds
<1>2. /\ {ids.owner, ids.channel, savedIds.owner, savedIds.channel, pinned.id} \subseteq 0..Len(posts)
      /\ ids.owner # 0 => posts[ids.owner].kind = "owner"
      /\ ids.channel # 0 => posts[ids.channel].kind = "channel"
  BY <1>1 DEF TelegramInv, TickerInv, IdsPoint, OwnerPost, ChannelPost, PinKnown
<1>3. /\ \A u \in DOMAIN poller.batch : poller.batch[u] \in 1..arrived
      /\ poller.offset \in 1..(arrived + 1) /\ confirmed <= arrived
  <2>1. /\ arrived \in Nat /\ poller.batch \in Seq(1..MaxUpdates) /\ poller.offset \in Nat \ {0}
        /\ MaxUpdates \in Nat
    BY TelegramAssumption DEF TelegramInv, PollInv, PollKinds
  <2>2. /\ DOMAIN poller.batch = 1..Len(poller.batch)
        /\ \A k \in 1..Len(poller.batch) : poller.batch[k] \in 1..MaxUpdates
    BY <2>1, LenProperties, ElementOfSeq
  <2>. QED BY <2>1, <2>2 DEF TelegramInv, PollArrived
<1>. QED BY <1>2, <1>3 DEF TelegramTypeOK

LEMMA TelegramStart == TelegramInit => TelegramInv
<1>. SUFFICES ASSUME TelegramInit PROVE TelegramInv
  OBVIOUS
<1>1. PollArrived /\ PinKnown
  BY EmptySeq DEF TelegramInit, PollArrived, PinKnown, FreshPoller
<1>. QED BY <1>1, TickerStart, PinBegins, PollStart DEF TelegramInv

LEMMA TelegramMoves == TelegramInv /\ [TelegramNext]_telegramVars => TelegramInv'
BY TickerMoves, PinMoves, PollMoves, PollTypes, PinTypes DEF TelegramInv

-----------------------------------------------------------------------------
(* What the variables of the feed hold, missed reads or not                *)

\* Bars of the market up to a bar, and pushes of such bars.
MarketBars(n) == [t : 1..n, final : BOOLEAN]
MarketPushes(n) == [rows : Seq(MarketBars(n)), pc : {"sent", "sending", "answer"}, mine : BOOLEAN,
                    latest : BOOLEAN]

\* Every push beside the one the bridge waits for was given up in a trouble.
FeedKnown ==
    /\ formingBar \in Nat /\ formingBar >= Backfill /\ fdLeft \in Nat
    /\ feeder \in [pc : {"idle", "waiting"}, sends : {"none", "backfill", "bars", "tick"},
                   need : BOOLEAN]
    /\ viewer \in [joined : BOOLEAN, current : BOOLEAN] /\ missed \in BOOLEAN
RingKnown == ring \in Seq(MarketBars(formingBar)) /\ Len(ring) <= MaxCandles
PushesKnown ==
    /\ pushes \in Seq(MarketPushes(formingBar))
    /\ Len(pushes) + fdLeft <= MaxFeedTrouble + (IF feeder.pc = "waiting" THEN 1 ELSE 0)
FeedBounds == FeedKnown /\ RingKnown /\ PushesKnown

LEMMA FeedNumbers == /\ Backfill \in Nat /\ Backfill >= 4 /\ MaxCandles = Backfill
                     /\ MaxFeedBars \in Nat /\ MaxFeedTrouble \in Nat
BY FeedAssumption

LEMMA WiderSeq == ASSUME NEW S, NEW T, S \subseteq T, NEW s \in Seq(S) PROVE s \in Seq(T)
<1>1. Len(s) \in Nat /\ DOMAIN s = 1..Len(s) /\ \A k \in 1..Len(s) : s[k] \in T
  BY LenProperties, ElementOfSeq
<1>. QED BY <1>1, LenProperties

\* As the market goes on, its bars stay what they are.
LEMMA BarsStay ==
  ASSUME NEW m \in Nat, NEW n \in Nat, m <= n
  PROVE  /\ MarketBars(m) \subseteq MarketBars(n)
         /\ \A s \in Seq(MarketBars(m)) : s \in Seq(MarketBars(n))
         /\ MarketPushes(m) \subseteq MarketPushes(n)
         /\ \A s \in Seq(MarketPushes(m)) : s \in Seq(MarketPushes(n))
<1>1. MarketBars(m) \subseteq MarketBars(n)
  BY DEF MarketBars
<1>2. \A s \in Seq(MarketBars(m)) : s \in Seq(MarketBars(n))
  <2>. HIDE DEF MarketBars
  <2>. QED BY <1>1, WiderSeq
<1>3. MarketPushes(m) \subseteq MarketPushes(n)
  BY <1>2 DEF MarketPushes
<1>4. \A s \in Seq(MarketPushes(m)) : s \in Seq(MarketPushes(n))
  BY <1>3, WiderSeq
<1>. QED BY <1>1, <1>2, <1>3, <1>4

\* A part of a sequence is made of its elements.
LEMMA PartOf ==
  ASSUME NEW S, NEW s \in Seq(S), NEW m \in Int, NEW n \in Int, 1 <= m, n <= Len(s)
  PROVE  /\ SubSeq(s, m, n) \in Seq(S) /\ Len(s) \in Nat
         /\ Len(SubSeq(s, m, n)) = IF m <= n THEN n - m + 1 ELSE 0
<1>1. Len(s) \in Nat
  BY LenProperties
<1>2. \A k \in m..n : s[k] \in S
  <2>. SUFFICES ASSUME NEW k \in m..n PROVE s[k] \in S
    OBVIOUS
  <2>1. k \in 1..Len(s)
    BY <1>1
  <2>. QED BY <2>1, ElementOfSeq
<1>. QED BY <1>1, <1>2, SubSeqProperties

\* apply_push brings no bar that is neither in the ring nor in the batch, and
\* never more than MAX_CANDLES.
LEMMA AppliedBars ==
  ASSUME NEW S, ring \in Seq(S), NEW rows \in Seq(S)
  PROVE  AppliedRows(rows) \in Seq(S) /\ Len(AppliedRows(rows)) <= MaxCandles
<1>. DEFINE fresh == NotStale(rows)
            replaces == ring # <<>> /\ fresh # <<>> /\ fresh[1].t = Newest.t
            kept == IF replaces THEN SubSeq(ring, 1, Len(ring) - 1) ELSE ring
            all == kept \o fresh
<1>1. fresh \in Seq(S)
  <2>. DEFINE found == {i \in DOMAIN rows : ring = <<>> \/ rows[i].t >= Newest.t}
  <2>1. DOMAIN rows = 1..Len(rows) /\ Len(rows) \in Nat
    BY LenProperties
  <2>2. CASE found = {}
    BY <2>2, EmptySeq DEF NotStale
  <2>3. CASE found # {}
    <3>1. \E i \in found : \A j \in found : i <= j
      <4>1. found \in SUBSET Nat
        BY <2>1
      <4>2. Min(found) \in found /\ \A j \in found : Min(found) <= j
        <5>. HIDE DEF found
        <5>. QED BY <2>3, <4>1, MinOfNaturals
      <4>. QED BY <4>2
    <3>2. PICK m : m = (CHOOSE i \in found : \A j \in found : i <= j)
      OBVIOUS
    <3>3. m \in found
      <4>. HIDE DEF found
      <4>. QED BY <3>1, <3>2
    <3>4. m \in 1..Len(rows)
      BY <2>1, <3>3
    <3>5. fresh = SubSeq(rows, m, Len(rows))
      BY <2>3, <3>2 DEF NotStale
    <3>. HIDE DEF fresh, found
    <3>. QED BY <2>1, <3>4, <3>5, PartOf
  <2>. QED BY <2>2, <2>3
<1>. HIDE DEF fresh
<1>2. kept \in Seq(S)
  <2>1. Len(ring) \in Nat
    BY LenProperties
  <2>2. SubSeq(ring, 1, Len(ring) - 1) \in Seq(S)
    BY <2>1, PartOf
  <2>. QED BY <2>2
<1>. HIDE DEF kept
<1>3. all \in Seq(S)
  BY <1>1, <1>2, ConcatProperties
<1>4. AppliedRows(rows) = LastRows(all, MaxCandles)
  BY DEF AppliedRows, all, kept, fresh
<1>. HIDE DEF all
<1>5. Len(all) \in Nat /\ MaxCandles \in Nat /\ MaxCandles >= 1
  BY <1>3, LenProperties, FeedNumbers
<1>6. CASE Len(all) <= MaxCandles
  BY <1>3, <1>4, <1>6 DEF LastRows
<1>7. CASE Len(all) > MaxCandles
  <2>1. AppliedRows(rows) = SubSeq(all, Len(all) - MaxCandles + 1, Len(all))
    BY <1>4, <1>5, <1>7 DEF LastRows
  <2>2. /\ SubSeq(all, Len(all) - MaxCandles + 1, Len(all)) \in Seq(S)
        /\ Len(SubSeq(all, Len(all) - MaxCandles + 1, Len(all))) = MaxCandles
    <3>1. Len(all) - MaxCandles + 1 \in Int /\ 1 <= Len(all) - MaxCandles + 1
          /\ Len(all) - MaxCandles + 1 <= Len(all)
      BY <1>5, <1>7
    <3>2. PICK m \in Int : m = Len(all) - MaxCandles + 1
      BY <3>1
    <3>3. /\ SubSeq(all, m, Len(all)) \in Seq(S)
          /\ Len(SubSeq(all, m, Len(all))) = Len(all) - m + 1
      BY <1>3, <1>5, <3>1, <3>2, PartOf
    <3>4. Len(all) - m + 1 = MaxCandles
      BY <1>5, <3>2
    <3>. QED BY <3>2, <3>3, <3>4
  <2>. QED BY <1>5, <2>1, <2>2
<1>. QED BY <1>5, <1>6, <1>7

\* What the terminal returns are bars of the market.
LEMMA RatesAreBars ==
  ASSUME FeedKnown, NEW n \in 1..Backfill PROVE Rates(n) \in Seq(MarketBars(formingBar))
<1>1. formingBar \in Nat /\ n \in Nat /\ n <= formingBar
  BY FeedNumbers DEF FeedKnown
<1>2. \A i \in 1..n : /\ formingBar - n + i \in 1..formingBar
                      /\ (formingBar - n + i # formingBar) \in BOOLEAN
  BY <1>1
<1>3. \A i \in 1..n : [t |-> formingBar - n + i, final |-> formingBar - n + i # formingBar]
                        \in MarketBars(formingBar)
  BY <1>2 DEF MarketBars
<1>. DEFINE u == [i \in 1..n |-> [t |-> formingBar - n + i, final |-> formingBar - n + i # formingBar]]
<1>4. Rates(n) = u
  BY DEF Rates
<1>5. u \in [1..n -> MarketBars(formingBar)]
  BY <1>3
<1>. HIDE DEF u
<1>. QED BY <1>1, <1>4, <1>5

LEMMA BatchIsBars ==
  ASSUME FeedKnown, NEW sends PROVE BatchRows(sends) \in Seq(MarketBars(formingBar))
<1>1. Backfill \in 1..Backfill /\ 2 \in 1..Backfill
  BY FeedNumbers
<1>. QED BY <1>1, RatesAreBars, EmptySeq DEF BatchRows

-----------------------------------------------------------------------------

LEMMA FeedKnownStays == ASSUME FeedBounds, FeedNext PROVE FeedKnown' /\ formingBar' >= formingBar
<1>1. formingBar' \in {formingBar, formingBar + 1} /\ missed' \in {missed, TRUE}
  BY DEF FeedNext, BridgeStep, HandlerStep, BridgePushes, BridgeReadsNothing, PushTimesOut,
       PushApplied, PushBroadcast, PushAnswered, ViewerJoins, ViewerLeaves, BarCloses,
       MiniAppRestarts, BridgeRestarts
<1>2. fdLeft' = fdLeft \/ (fdLeft > 0 /\ fdLeft' = fdLeft - 1)
  BY DEF FeedNext, BridgeStep, HandlerStep, BridgePushes, BridgeReadsNothing, PushTimesOut,
       PushApplied, PushBroadcast, PushAnswered, ViewerJoins, ViewerLeaves, BarCloses,
       MiniAppRestarts, BridgeRestarts, Trouble, NoTrouble
<1>3. \/ feeder' = feeder
      \/ \E s \in {"backfill", "bars", "tick"} :
            feeder' = [feeder EXCEPT !.pc = "waiting", !.sends = s]
      \/ \E b \in BOOLEAN : feeder' = [feeder EXCEPT !.pc = "idle", !.need = b]
      \/ feeder' = [pc |-> "idle", sends |-> "none", need |-> TRUE]
  BY DEF FeedNext, BridgeStep, HandlerStep, BridgePushes, BridgeReadsNothing, PushTimesOut,
       PushApplied, PushBroadcast, PushAnswered, ViewerJoins, ViewerLeaves, BarCloses,
       MiniAppRestarts, BridgeRestarts, Acknowledged, PushRefused
<1>4. \/ viewer' \in {viewer, [joined |-> TRUE, current |-> TRUE],
                      [joined |-> FALSE, current |-> FALSE], [viewer EXCEPT !.current = FALSE]}
      \/ \E i \in DOMAIN pushes : viewer' = [viewer EXCEPT !.current = pushes[i].latest]
  BY DEF FeedNext, BridgeStep, HandlerStep, BridgePushes, BridgeReadsNothing, PushTimesOut,
       PushApplied, PushBroadcast, PushAnswered, ViewerJoins, ViewerLeaves, BarCloses,
       MiniAppRestarts, BridgeRestarts
<1>5. \A i \in DOMAIN pushes : pushes[i].latest \in BOOLEAN
  <2>1. \A i \in DOMAIN pushes : pushes[i] \in MarketPushes(formingBar)
    BY LenProperties, ElementOfSeq DEF FeedBounds, PushesKnown
  <2>. QED BY <2>1 DEF MarketPushes
<1>6. viewer' \in [joined : BOOLEAN, current : BOOLEAN]
  <2>1. viewer \in [joined : BOOLEAN, current : BOOLEAN]
    BY DEF FeedBounds, FeedKnown
  <2>2. \A b \in BOOLEAN : [viewer EXCEPT !.current = b] \in [joined : BOOLEAN, current : BOOLEAN]
    BY <2>1
  <2>3. \A a, b \in BOOLEAN : [joined |-> a, current |-> b] \in [joined : BOOLEAN, current : BOOLEAN]
    OBVIOUS
  <2>. QED BY <1>4, <1>5, <2>1, <2>2, <2>3
<1>7. feeder' \in [pc : {"idle", "waiting"}, sends : {"none", "backfill", "bars", "tick"},
                   need : BOOLEAN]
  <2>. DEFINE Feeders == [pc : {"idle", "waiting"}, sends : {"none", "backfill", "bars", "tick"},
                          need : BOOLEAN]
  <2>1. feeder \in Feeders
    BY DEF FeedBounds, FeedKnown
  <2>2. \A s \in {"backfill", "bars", "tick"} : [feeder EXCEPT !.pc = "waiting", !.sends = s] \in Feeders
    BY <2>1
  <2>3. \A b \in BOOLEAN : [feeder EXCEPT !.pc = "idle", !.need = b] \in Feeders
    BY <2>1
  <2>4. [pc |-> "idle", sends |-> "none", need |-> TRUE] \in Feeders
    OBVIOUS
  <2>. HIDE DEF Feeders
  <2>5. feeder' \in Feeders
    BY <1>3, <2>1, <2>2, <2>3, <2>4
  <2>. QED BY <2>5 DEF Feeders
<1>8. /\ formingBar' \in Nat /\ formingBar' >= formingBar /\ formingBar' >= Backfill
      /\ fdLeft' \in Nat
  BY <1>1, <1>2, FeedNumbers DEF FeedBounds, FeedKnown
<1>9. missed' \in BOOLEAN
  BY <1>1 DEF FeedBounds, FeedKnown
<1>. QED BY <1>6, <1>7, <1>8, <1>9 DEF FeedKnown

\* What a step may make of the ring.
LEMMA RingStays == ASSUME FeedBounds, FeedNext PROVE RingKnown'
<1>1. \/ ring' \in {ring, <<>>}
      \/ \E i \in DOMAIN pushes : ring' = AppliedRows(pushes[i].rows)
  BY DEF FeedNext, BridgeStep, HandlerStep, BridgePushes, BridgeReadsNothing, PushTimesOut,
       PushApplied, PushBroadcast, PushAnswered, ViewerJoins, ViewerLeaves, BarCloses,
       MiniAppRestarts, BridgeRestarts
<1>2. /\ \A s \in Seq(MarketBars(formingBar)) : s \in Seq(MarketBars(formingBar'))
      /\ <<>> \in Seq(MarketBars(formingBar')) /\ Len(<<>>) = 0 /\ MaxCandles \in Nat
  BY FeedKnownStays, BarsStay, EmptySeq, FeedNumbers DEF FeedBounds, FeedKnown
<1>3. \A i \in DOMAIN pushes : pushes[i].rows \in Seq(MarketBars(formingBar))
  <2>1. \A i \in DOMAIN pushes : pushes[i] \in MarketPushes(formingBar)
    BY LenProperties, ElementOfSeq DEF FeedBounds, PushesKnown
  <2>. QED BY <2>1 DEF MarketPushes
<1>4. ring \in Seq(MarketBars(formingBar)) /\ Len(ring) <= MaxCandles
  BY DEF FeedBounds, RingKnown
<1>5. ring' \in Seq(MarketBars(formingBar)) \union {<<>>} /\ Len(ring') <= MaxCandles
  BY <1>1, <1>2, <1>3, <1>4, AppliedBars
<1>. QED BY <1>2, <1>5 DEF RingKnown

\* What a step may make of the pushes, and what it pays for one that is given up.
LEMMA PushesStay == ASSUME FeedBounds, FeedNext PROVE PushesKnown'
<1>. DEFINE Known == MarketPushes(formingBar)
            GivenUp(p, q) == q \in {p, [p EXCEPT !.mine = FALSE], [p EXCEPT !.latest = FALSE],
                                    [p EXCEPT !.pc = "answer"],
                                    [p EXCEPT !.pc = "sending", !.latest = TRUE]}
            Paid == fdLeft' = fdLeft - 1
            W(f) == IF f.pc = "waiting" THEN 1 ELSE 0
            Sends == \E rows \in Seq(MarketBars(formingBar)) :
                        /\ pushes' = Pushed(rows) /\ feeder.pc = "idle" /\ feeder'.pc = "waiting"
            Advances == /\ pushes' = [k \in DOMAIN pushes |-> pushes'[k]]
                        /\ \A k \in DOMAIN pushes : GivenUp(pushes[k], pushes'[k])
                        /\ feeder' = feeder \/ (feeder'.pc = "idle" /\ Paid)
            Ends == \E i \in DOMAIN pushes :
                       /\ pushes' = SubSeq(pushes, 1, i - 1) \o SubSeq(pushes, i + 1, Len(pushes))
                       /\ feeder'.pc \in {feeder.pc, "idle"}
            Drops == pushes' = <<>> /\ feeder'.pc = "idle" /\ Paid
<1>1. /\ pushes \in Seq(Known) /\ Len(pushes) \in Nat /\ DOMAIN pushes = 1..Len(pushes)
      /\ \A k \in DOMAIN pushes : pushes[k] \in Known
      /\ Len(pushes) + fdLeft <= MaxFeedTrouble + W(feeder) /\ fdLeft \in Nat
      /\ feeder.pc \in {"idle", "waiting"} /\ MaxFeedTrouble \in Nat
      /\ feeder = [pc |-> feeder.pc, sends |-> feeder.sends, need |-> feeder.need]
  <2>1. pushes \in Seq(Known) /\ Len(pushes) + fdLeft <= MaxFeedTrouble + W(feeder)
    BY DEF FeedBounds, PushesKnown
  <2>2. /\ fdLeft \in Nat
        /\ feeder \in [pc : {"idle", "waiting"}, sends : {"none", "backfill", "bars", "tick"},
                       need : BOOLEAN]
    BY DEF FeedBounds, FeedKnown
  <2>3. /\ feeder.pc \in {"idle", "waiting"}
        /\ feeder = [pc |-> feeder.pc, sends |-> feeder.sends, need |-> feeder.need]
    BY <2>2
  <2>4. MaxFeedTrouble \in Nat
    BY FeedNumbers
  <2>5. Len(pushes) \in Nat /\ DOMAIN pushes = 1..Len(pushes) /\ \A k \in DOMAIN pushes : pushes[k] \in Known
    <3>. HIDE DEF Known
    <3>. QED BY <2>1, LenProperties, ElementOfSeq
  <2>. QED BY <2>1, <2>2, <2>3, <2>4, <2>5
<1>2. fdLeft' = fdLeft \/ Paid
  BY DEF FeedNext, BridgeStep, HandlerStep, BridgePushes, BridgeReadsNothing, PushTimesOut,
       PushApplied, PushBroadcast, PushAnswered, ViewerJoins, ViewerLeaves, BarCloses,
       MiniAppRestarts, BridgeRestarts, Trouble, NoTrouble
<1>3. Sends \/ Advances \/ Ends \/ Drops \/ UNCHANGED <<pushes, feeder>>
  <2>1. ASSUME NEW sends \in {"backfill", "bars", "tick"}, BridgePushes(sends) PROVE Sends
    <3>1. BatchRows(sends) \in Seq(MarketBars(formingBar))
      BY BatchIsBars DEF FeedBounds
    <3>. QED BY <1>1, <2>1, <3>1 DEF BridgePushes
  <2>2. ASSUME NEW sends \in {"backfill", "bars"}, BridgeReadsNothing(sends) PROVE Sends
    <3>1. <<>> \in Seq(MarketBars(formingBar))
      BY EmptySeq
    <3>. QED BY <1>1, <2>2, <3>1 DEF BridgeReadsNothing
  <2>3. ASSUME NEW i \in DOMAIN pushes, PushApplied(i) PROVE Advances
    <3>1. /\ feeder' = feeder
          /\ pushes' = [j \in DOMAIN pushes |->
                          IF j = i THEN [pushes[i] EXCEPT !.pc = "sending", !.latest = TRUE]
                          ELSE [pushes[j] EXCEPT !.latest = FALSE]]
      BY <2>3 DEF PushApplied
    <3>. QED BY <3>1
  <2>4. ASSUME NEW i \in DOMAIN pushes, PushBroadcast(i) PROVE Advances
    <3>1. feeder' = feeder /\ pushes' = [pushes EXCEPT ![i].pc = "answer"]
      BY <2>4 DEF PushBroadcast
    <3>. QED BY <1>1, <3>1
  <2>5. ASSUME NEW i \in DOMAIN pushes, PushAnswered(i) PROVE Ends
    <3>1. feeder'.pc \in {feeder.pc, "idle"}
      BY <1>1, <2>5 DEF PushAnswered, Acknowledged
    <3>. QED BY <2>5, <3>1 DEF PushAnswered
  <2>6. CASE PushTimesOut \/ BridgeRestarts
    <3>1. feeder'.pc = "idle"
      <4>1. PushRefused => feeder'.pc = "idle"
        BY <1>1 DEF PushRefused
      <4>. QED BY <2>6, <4>1 DEF PushTimesOut, BridgeRestarts
    <3>3. Paid
      BY <2>6 DEF PushTimesOut, BridgeRestarts, Trouble
    <3>2. pushes' = [i \in DOMAIN pushes |-> [pushes[i] EXCEPT !.mine = FALSE]]
      BY <2>6 DEF PushTimesOut, BridgeRestarts
    <3>. QED BY <3>1, <3>2, <3>3
  <2>7. CASE MiniAppRestarts
    <3>1. feeder'.pc = "idle"
      <4>1. PushRefused => feeder'.pc = "idle"
        BY <1>1 DEF PushRefused
      <4>2. feeder.pc # "waiting" => feeder.pc = "idle"
        BY <1>1
      <4>3. IF feeder.pc = "waiting" THEN PushRefused ELSE UNCHANGED feeder
        BY <2>7 DEF MiniAppRestarts
      <4>. QED BY <4>1, <4>2, <4>3
    <3>. QED BY <2>7, <3>1 DEF MiniAppRestarts, Trouble
  <2>8. CASE ViewerJoins \/ ViewerLeaves \/ BarCloses
    BY <2>8 DEF ViewerJoins, ViewerLeaves, BarCloses
  <2>. HIDE DEF Sends, Advances, Ends, Drops
  <2>. QED BY <2>1, <2>2, <2>3, <2>4, <2>5, <2>6, <2>7, <2>8 DEF FeedNext, BridgeStep, HandlerStep
<1>4. fdLeft' \in Nat /\ feeder'.pc \in {"idle", "waiting"}
      /\ \A s \in Seq(Known) : s \in Seq(MarketPushes(formingBar'))
  BY FeedKnownStays, BarsStay DEF FeedBounds, FeedKnown
<1>5. pushes' \in Seq(Known) /\ Len(pushes') + fdLeft' <= MaxFeedTrouble + W(feeder')
  <2>1. CASE Sends
    <3>1. PICK rows \in Seq(MarketBars(formingBar)) :
            pushes' = Pushed(rows) /\ feeder.pc = "idle" /\ feeder'.pc = "waiting"
      BY <2>1
    <3>2. [rows |-> rows, pc |-> "sent", mine |-> TRUE, latest |-> FALSE] \in Known
      BY DEF MarketPushes
    <3>. HIDE DEF Known
    <3>3. pushes' \in Seq(Known) /\ Len(pushes') = Len(pushes) + 1
      BY <1>1, <3>1, <3>2, AppendProperties DEF Pushed
    <3>. QED BY <1>1, <1>2, <1>4, <3>1, <3>3
  <2>2. CASE Advances
    <3>1. \A k \in DOMAIN pushes : pushes'[k] \in Known
      <4>. SUFFICES ASSUME NEW k \in DOMAIN pushes PROVE pushes'[k] \in Known
        OBVIOUS
      <4>1. pushes[k] \in Known /\ GivenUp(pushes[k], pushes'[k])
        BY <1>1, <2>2
      <4>. QED BY <4>1 DEF MarketPushes
    <3>2. pushes' \in [1..Len(pushes) -> Known]
      <4>. HIDE DEF Known
      <4>. QED BY <1>1, <2>2, <3>1
    <3>3. pushes' \in Seq(Known) /\ Len(pushes') = Len(pushes)
      <4>. HIDE DEF Known
      <4>1. Len(pushes) \in Nat
        BY <1>1, LenProperties
      <4>2. pushes' \in Seq(Known)
        BY <3>2, <4>1
      <4>3. DOMAIN pushes' = 1..Len(pushes) /\ DOMAIN pushes' = 1..Len(pushes')
        BY <3>2, <4>2, LenProperties
      <4>4. Len(pushes') \in Nat
        BY <4>2, LenProperties
      <4>5. Len(pushes') \in 1..Len(pushes) \/ Len(pushes') = 0
        BY <4>3, <4>4
      <4>6. Len(pushes) \in 1..Len(pushes') \/ Len(pushes) = 0
        BY <4>1, <4>3
      <4>. QED BY <4>1, <4>2, <4>3, <4>4, <4>5, <4>6
    <3>4. feeder' = feeder \/ (feeder'.pc = "idle" /\ Paid)
      BY <2>2
    <3>5. Len(pushes') = Len(pushes)
      BY <3>3
    <3>6. CASE feeder' = feeder
      <4>1. W(feeder') = W(feeder) /\ W(feeder) \in {0, 1}
        BY <3>6
      <4>. HIDE DEF W, Known
      <4>. QED BY <1>1, <1>2, <1>4, <3>3, <3>5, <4>1
    <3>7. CASE feeder'.pc = "idle" /\ Paid
      <4>1. W(feeder') = 0 /\ W(feeder) \in {0, 1}
        BY <3>7
      <4>. HIDE DEF W, Known
      <4>. QED BY <1>1, <1>4, <3>3, <3>5, <3>7, <4>1
    <3>. QED BY <3>4, <3>6, <3>7
  <2>3. CASE Ends
    <3>1. PICK i \in 1..Len(pushes) :
            /\ pushes' = SubSeq(pushes, 1, i - 1) \o SubSeq(pushes, i + 1, Len(pushes))
            /\ feeder'.pc \in {feeder.pc, "idle"}
      BY <1>1, <2>3
    <3>. HIDE DEF Known
    <3>2. SubSeq(pushes, 1, i - 1) \in Seq(Known) /\ Len(SubSeq(pushes, 1, i - 1)) = i - 1
      BY <1>1, PartOf
    <3>3. /\ SubSeq(pushes, i + 1, Len(pushes)) \in Seq(Known)
          /\ Len(SubSeq(pushes, i + 1, Len(pushes))) = Len(pushes) - i
      <4>1. PICK m \in Int : m = i + 1
        OBVIOUS
      <4>2. /\ SubSeq(pushes, m, Len(pushes)) \in Seq(Known)
            /\ Len(SubSeq(pushes, m, Len(pushes))) = IF m <= Len(pushes) THEN Len(pushes) - m + 1 ELSE 0
        BY <1>1, <4>1, PartOf
      <4>3. IF m <= Len(pushes) THEN Len(pushes) - m + 1 = Len(pushes) - i ELSE Len(pushes) - i = 0
        BY <1>1, <4>1
      <4>4. Len(SubSeq(pushes, m, Len(pushes))) = Len(pushes) - i
        BY <4>2, <4>3
      <4>5. SubSeq(pushes, m, Len(pushes)) = SubSeq(pushes, i + 1, Len(pushes))
        BY <4>1, Zenon
      <4>6. SubSeq(pushes, m, Len(pushes)) \in Seq(Known)
        BY <4>2
      <4>. QED BY <4>4, <4>5, <4>6, Zenon
    <3>4. pushes' \in Seq(Known) /\ Len(pushes') = Len(pushes) - 1
      <4>1. PICK before, after \in Seq(Known) :
              pushes' = before \o after /\ Len(before) = i - 1 /\ Len(after) = Len(pushes) - i
        BY <3>1, <3>2, <3>3
      <4>2. before \o after \in Seq(Known) /\ Len(before \o after) = Len(before) + Len(after)
        BY ConcatProperties
      <4>3. Len(pushes') = (i - 1) + (Len(pushes) - i)
        BY <4>1, <4>2
      <4>. QED BY <1>1, <4>1, <4>2, <4>3
    <3>5. Len(pushes') + fdLeft' <= Len(pushes) + fdLeft - 1
      BY <1>1, <1>2, <1>4, <3>4
    <3>6. Len(pushes) + fdLeft - 1 <= MaxFeedTrouble + W(feeder')
      <4>1. W(feeder) \in {0, 1} /\ W(feeder') \in {0, 1}
        OBVIOUS
      <4>. HIDE DEF W
      <4>2. Len(pushes) + fdLeft - 1 <= MaxFeedTrouble
        BY <1>1, <4>1
      <4>. QED BY <1>1, <4>1, <4>2
    <3>7. Len(pushes') \in Nat /\ W(feeder') \in {0, 1}
      BY <3>4, LenProperties
    <3>. HIDE DEF W
    <3>. QED BY <1>1, <1>4, <3>4, <3>5, <3>6, <3>7
  <2>4. CASE Drops
    <3>1. pushes' \in Seq(Known) /\ Len(pushes') = 0
      BY <2>4, EmptySeq
    <3>2. fdLeft' <= MaxFeedTrouble /\ W(feeder') = 0
      BY <1>1, <2>4
    <3>. HIDE DEF W
    <3>. QED BY <1>1, <1>4, <3>1, <3>2
  <2>5. CASE UNCHANGED <<pushes, feeder>>
    <3>. HIDE DEF Known
    <3>. QED BY <1>1, <1>2, <1>4, <2>5
  <2>. HIDE DEF Sends, Advances, Ends, Drops
  <2>. QED BY <1>3, <2>1, <2>2, <2>3, <2>4, <2>5
<1>. QED BY <1>4, <1>5 DEF PushesKnown

LEMMA FeedBegins == FeedInit => FeedBounds
<1>. SUFFICES ASSUME FeedInit PROVE FeedBounds
  OBVIOUS
<1>1. FeedKnown
  <2>1. /\ formingBar = Backfill /\ fdLeft = MaxFeedTrouble /\ missed = FALSE
        /\ feeder = [pc |-> "idle", sends |-> "none", need |-> TRUE]
        /\ viewer = [joined |-> FALSE, current |-> FALSE]
    BY DEF FeedInit
  <2>2. formingBar \in Nat /\ formingBar >= Backfill /\ fdLeft \in Nat
    BY <2>1, FeedNumbers
  <2>3. /\ feeder \in [pc : {"idle", "waiting"}, sends : {"none", "backfill", "bars", "tick"},
                        need : BOOLEAN]
        /\ viewer \in [joined : BOOLEAN, current : BOOLEAN] /\ missed \in BOOLEAN
    BY <2>1
  <2>. QED BY <2>2, <2>3 DEF FeedKnown
<1>2. /\ ring = <<>> /\ pushes = <<>> /\ fdLeft = MaxFeedTrouble /\ feeder.pc = "idle"
      /\ <<>> \in Seq(MarketBars(formingBar)) /\ <<>> \in Seq(MarketPushes(formingBar)) /\ Len(<<>>) = 0
  BY EmptySeq DEF FeedInit
<1>. QED BY <1>1, <1>2, FeedNumbers DEF FeedBounds, RingKnown, PushesKnown

LEMMA FeedStays == FeedBounds /\ [FeedNext]_feedVars => FeedBounds'
<1>1. FeedBounds /\ UNCHANGED feedVars => FeedBounds'
  BY DEF feedVars, FeedBounds, FeedKnown, RingKnown, PushesKnown
<1>. QED BY <1>1, FeedKnownStays, RingStays, PushesStay DEF FeedBounds

LEMMA FeedTypes == FeedBounds => FeedTypeOK
<1>. SUFFICES ASSUME FeedBounds PROVE FeedTypeOK
  OBVIOUS
<1>1. \A i \in DOMAIN ring : ring[i].t \in 1..formingBar /\ ring[i].final \in BOOLEAN
  <2>1. \A i \in DOMAIN ring : ring[i] \in MarketBars(formingBar)
    BY LenProperties, ElementOfSeq DEF FeedBounds, RingKnown
  <2>. QED BY <2>1 DEF MarketBars
<1>2. Len(pushes) <= MaxFeedTrouble + 1
  <2>1. Len(pushes) \in Nat /\ fdLeft \in Nat
    BY LenProperties DEF FeedBounds, PushesKnown, FeedKnown
  <2>. QED BY <2>1, FeedNumbers DEF FeedBounds, PushesKnown
<1>3. {feeder.need, viewer.joined, viewer.current, missed} \subseteq BOOLEAN
  BY DEF FeedBounds, FeedKnown
<1>. QED BY <1>1, <1>2, <1>3 DEF FeedTypeOK, FeedBounds, RingKnown

-----------------------------------------------------------------------------
(* The service                                                             *)

\* What holds of every part at once, and what each part makes of a step.
ServiceInv ==
    /\ AgentKinds /\ SlotsInv /\ BrokerInv
    /\ BacktestInv /\ LaneInv /\ LauncherInv /\ LauncherWhole
    /\ TelegramInv /\ FeedInv /\ FeedBounds /\ ViewersInv

LEMMA PartsStep ==
  [ServiceNext]_AllVars => /\ [AgentNext]_agentVars /\ [BacktestNext]_btVars /\ [LaneNext]_laneVars
                           /\ [LauncherNext]_launcherVars /\ [TelegramNext]_telegramVars
                           /\ [FeedNext]_feedVars /\ [ViewersNext]_viewersVars
<1>1. TelegramPart => TelegramNext
  BY DEF TelegramPart, TelegramNext, Telegram
<1>3. AgentPart => AgentNext
  BY DEF AgentPart, AgentNext
<1>2. ServiceNext => \/ AgentNext /\ UNCHANGED AfterAgent
                     \/ BacktestNext /\ UNCHANGED ButBacktests
                     \/ LaneNext /\ UNCHANGED ButLanes
                     \/ LauncherNext /\ UNCHANGED ButLauncher
                     \/ TelegramNext /\ UNCHANGED ButTelegram
                     \/ FeedNext /\ UNCHANGED ButFeed
                     \/ ViewersNext /\ UNCHANGED ButViewers
  BY <1>1, <1>3 DEF ServiceNext
<1>. QED BY <1>2 DEF AllVars, AfterAgent, ButBacktests, ButLanes, ButLauncher, ButTelegram, ButFeed,
                  ButViewers

LEMMA ServiceStart == ServiceInit => ServiceInv
<1>. SUFFICES ASSUME ServiceInit PROVE ServiceInv
  OBVIOUS
<1>1. /\ AgentInit /\ BacktestInit /\ LaneInit /\ LauncherInit /\ TelegramInit /\ FeedInit
      /\ ViewersInit
  BY DEF ServiceInit
<1>2. AgentKinds /\ SlotsInv /\ BrokerInv
  BY <1>1, AgentKindsStart, SlotsStart, BrokerStart
<1>. QED BY <1>1, <1>2, BacktestStart, LaneStart, LauncherBegins, TelegramStart, FeedStart, FeedBegins,
            ViewersStart DEF ServiceInv

LEMMA ServiceStep == ServiceInv /\ [ServiceNext]_AllVars => ServiceInv'
<1>. SUFFICES ASSUME ServiceInv, [ServiceNext]_AllVars PROVE ServiceInv'
  OBVIOUS
<1>1. /\ [AgentNext]_agentVars /\ [BacktestNext]_btVars /\ [LaneNext]_laneVars
      /\ [LauncherNext]_launcherVars /\ [TelegramNext]_telegramVars
      /\ [FeedNext]_feedVars /\ [ViewersNext]_viewersVars
  BY PartsStep
<1>2. AgentKinds' /\ SlotsInv' /\ BrokerInv'
  BY <1>1, BrokerMove, SlotsMove DEF ServiceInv, AgentKinds
<1>3. BacktestInv' /\ LaneInv' /\ ViewersInv'
  BY <1>1, BacktestStep, LaneStep, ViewersStep DEF ServiceInv
<1>4. LauncherInv' /\ LauncherWhole'
  BY <1>1, LauncherMoves, LauncherWholeMoves DEF ServiceInv
<1>5. TelegramInv'
  BY <1>1, TelegramMoves DEF ServiceInv
<1>6. FeedInv' /\ FeedBounds'
  BY <1>1, FeedMoves, FeedStays DEF ServiceInv
<1>. QED BY <1>2, <1>3, <1>4, <1>5, <1>6 DEF ServiceInv

\* However the agent, the back-test jobs, the heartbeats, the launcher, the Telegram
\* tasks, the feed and its viewers behave, and wherever the service restarts: the
\* slots of the agent are those of its jobs and its actions within their limits, no
\* back-test is lost, no chart trades a lane it was not given, the launcher says
\* what runs, no message or update is doubled, the ring has no hole, and whom the
\* mini app admits was a member lately.
THEOREM ServiceHolds ==
  ServiceSpec => [](/\ ServiceTypeOK /\ SlotsMatchJobs /\ ActionsBounded /\ RunsAccounted
                    /\ SafeUnlessOverlapped /\ RunsWhatItSays /\ NothingTwice /\ RingSound
                    /\ AdmissionIsRecent)
<1>1. ServiceInv => /\ ServiceTypeOK /\ SlotsMatchJobs /\ ActionsBounded /\ RunsAccounted
                    /\ SafeUnlessOverlapped /\ RunsWhatItSays /\ NothingTwice /\ RingSound
                    /\ AdmissionIsRecent
  <2>. SUFFICES ASSUME ServiceInv
                PROVE  /\ ServiceTypeOK /\ SlotsMatchJobs /\ ActionsBounded /\ RunsAccounted
                       /\ SafeUnlessOverlapped /\ RunsWhatItSays /\ NothingTwice /\ RingSound
                       /\ AdmissionIsRecent
    OBVIOUS
  <2>1. AgentTypeOK /\ SlotsMatchJobs /\ ActionsBounded
    BY AgentTypes DEF ServiceInv, SlotsInv, BrokerInv
  <2>2. BacktestTypeOK /\ RunsAccounted
    BY BacktestTypes DEF ServiceInv, BacktestInv, RunsAccounted
  <2>3. LaneTypeOK /\ SafeUnlessOverlapped
    BY LaneTypes DEF ServiceInv, LaneInv, SafeUnlessOverlapped, Told
  <2>4. LauncherTypeOK /\ RunsWhatItSays
    BY DEF ServiceInv, LauncherWhole, LauncherInv, RunsWhatItSays, KeysAgree, OneKey
  <2>5. TelegramTypeOK /\ NothingTwice
    BY TelegramTypes, OnceOnly DEF ServiceInv, TelegramInv
  <2>6. FeedTypeOK /\ RingSound
    BY FeedTypes, NoHoles DEF ServiceInv
  <2>7. ViewersTypeOK /\ AdmissionIsRecent
    BY ViewersTypes DEF ServiceInv, ViewersInv
  <2>. QED BY <2>1, <2>2, <2>3, <2>4, <2>5, <2>6, <2>7 DEF ServiceTypeOK
<1>. QED BY <1>1, ServiceStart, ServiceStep, PTL DEF ServiceSpec
=============================================================================
