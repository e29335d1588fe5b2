-------------------------------- MODULE Feed --------------------------------
(***************************************************************************)
(* The live feed: the bridge beside the terminal posts ticks and bars, the *)
(* mini app keeps the newest bars of every timeframe in a ring and sends   *)
(* each batch on to the viewers on its WebSocket.  One timeframe and one   *)
(* viewer.  A bar is [t, final]; the newest bar is still forming.          *)
(***************************************************************************)
EXTENDS Naturals, Sequences

CONSTANTS
    Backfill,    \* BACKFILL of the bridge
    MaxCandles,  \* MAX_CANDLES of the ring
    MaxFeedBars, MaxFeedTrouble \* bounds of the run

ASSUME FeedAssumption == /\ Backfill \in Nat /\ Backfill >= 4
                         /\ MaxCandles = Backfill
                         /\ {MaxFeedBars, MaxFeedTrouble} \subseteq Nat

VARIABLES
    formingBar,  \* the newest bar of the market
    ring,        \* FeedState.candles
    pushes,      \* pushes in the mini app: [rows, pc, mine, latest]
    feeder,      \* the bridge: [pc, sends, need]: need is need_backfill
    readAt,      \* the newest bar the bridge has read
    viewer,      \* [joined, current]: in the hub, shows the newest tick
    missed,      \* a read failed or came more than a bar late
    fdLeft       \* troubles still to come

feedVars == <<formingBar, ring, pushes, feeder, readAt, viewer, missed, fdLeft>>

FeedInit ==
    /\ formingBar = Backfill /\ ring = <<>> /\ pushes = <<>>
    /\ feeder = [pc |-> "idle", sends |-> "none", need |-> TRUE] /\ readAt = Backfill
    /\ viewer = [joined |-> FALSE, current |-> FALSE]
    /\ missed = FALSE /\ fdLeft = MaxFeedTrouble

Trouble == fdLeft > 0 /\ fdLeft' = fdLeft - 1
NoTrouble == UNCHANGED fdLeft

-----------------------------------------------------------------------------
(* The bridge: main *)

\* rates: the newest `count` bars of the terminal, the last one forming.
Rates(count) == [i \in 1..count |-> LET t == formingBar - count + i
                                    IN [t |-> t, final |-> t # formingBar]]
BatchRows(sends) == IF sends = "backfill" THEN Rates(Backfill)
                    ELSE IF sends = "bars" THEN Rates(2) ELSE <<>>
Pushed(rows) == Append(pushes, [rows |-> rows, pc |-> "sent", mine |-> TRUE,
                                  latest |-> FALSE])

\* A backfill when one is needed, else a tick, with the two newest bars when
\* BARS_EVERY has passed.
BridgePushes(sends) ==
    /\ feeder.pc = "idle" /\ (sends = "backfill" <=> feeder.need)
    /\ feeder' = [feeder EXCEPT !.pc = "waiting", !.sends = sends]
    /\ pushes' = Pushed(BatchRows(sends))
    /\ readAt' = IF sends = "tick" THEN readAt ELSE formingBar
    /\ UNCHANGED <<formingBar, ring, viewer, missed>> /\ NoTrouble

\* The terminal returns no bars: the push goes out without them.
BridgeReadsNothing(sends) ==
    /\ feeder.pc = "idle" /\ (sends = "backfill" <=> feeder.need) /\ sends # "tick"
    /\ feeder' = [feeder EXCEPT !.pc = "waiting", !.sends = sends]
    /\ pushes' = Pushed(<<>>)
    /\ missed' = TRUE
    /\ UNCHANGED <<formingBar, ring, readAt, viewer>> /\ Trouble

\* push returned True.  After a backfill the next batch follows at once; after
\* any other a shallow ring asks for a backfill.
Shallow(depth) == depth < Backfill \div 2
Acknowledged(depth) ==
    feeder' = [feeder EXCEPT !.pc = "idle",
                             !.need = feeder.sends # "backfill" /\ Shallow(depth)]
\* Mutant: a failed push is forgotten.
PushRefused_Forgotten == feeder' = [feeder EXCEPT !.pc = "idle"]
PushRefused == feeder' = [feeder EXCEPT !.pc = "idle", !.need = TRUE]

\* push returned False after its 5 s; the service may still be at it.
PushTimesOut ==
    /\ feeder.pc = "waiting" /\ PushRefused
    /\ pushes' = [i \in DOMAIN pushes |-> [pushes[i] EXCEPT !.mine = FALSE]]
    /\ UNCHANGED <<formingBar, ring, readAt, viewer, missed>> /\ Trouble

-----------------------------------------------------------------------------
(* The mini app: feed_push *)

\* FeedState.apply_push on ascending rows: rows before the newest bar of the
\* ring are stale, a row of the newest bar replaces it, later ones are added.
Newest == ring[Len(ring)]
NotStale(rows) ==
    LET fresh == {i \in DOMAIN rows : ring = <<>> \/ rows[i].t >= Newest.t}
    IN IF fresh = {} THEN <<>>
       ELSE SubSeq(rows, CHOOSE i \in fresh : \A j \in fresh : i <= j, Len(rows))
\* Mutant: the ring is not trimmed.
LastRows_All(s, n) == s
LastRows(s, n) == IF Len(s) <= n THEN s ELSE SubSeq(s, Len(s) - n + 1, Len(s))
AppliedRows(rows) ==
    LET fresh == NotStale(rows)
        replaces == ring # <<>> /\ fresh # <<>> /\ fresh[1].t = Newest.t
        kept == IF replaces THEN SubSeq(ring, 1, Len(ring) - 1) ELSE ring
    IN LastRows(kept \o fresh, MaxCandles)

\* Up to the first await: the state is the batch's, no viewer has it yet.
PushApplied(i) ==
    /\ pushes[i].pc = "sent"
    /\ ring' = AppliedRows(pushes[i].rows)
    /\ pushes' = [j \in DOMAIN pushes |->
                       IF j = i THEN [pushes[i] EXCEPT !.pc = "sending", !.latest = TRUE]
                       ELSE [pushes[j] EXCEPT !.latest = FALSE]]
    /\ viewer' = [viewer EXCEPT !.current = FALSE]
    /\ UNCHANGED <<formingBar, feeder, readAt, missed>> /\ NoTrouble

\* _Hub.broadcast: a viewer that takes more than a second leaves the hub.
PushBroadcast(i) ==
    /\ pushes[i].pc = "sending"
    /\ pushes' = [pushes EXCEPT ![i].pc = "answer"]
    /\ \/ ~viewer.joined /\ NoTrouble /\ UNCHANGED viewer
       \/ viewer.joined /\ NoTrouble /\ viewer' = [viewer EXCEPT !.current = pushes[i].latest]
       \/ viewer.joined /\ Trouble /\ viewer' = [joined |-> FALSE, current |-> FALSE]
    /\ UNCHANGED <<formingBar, ring, feeder, readAt, missed>>

PushAnswered(i) ==
    /\ pushes[i].pc = "answer"
    /\ IF pushes[i].mine THEN Acknowledged(Len(ring)) ELSE UNCHANGED feeder
    /\ pushes' = SubSeq(pushes, 1, i - 1) \o SubSeq(pushes, i + 1, Len(pushes))
    /\ UNCHANGED <<formingBar, ring, readAt, viewer, missed>> /\ NoTrouble

-----------------------------------------------------------------------------
(* Viewers, the market, restarts *)

\* ws_feed: the snapshot is taken in the step that adds the viewer to the hub.
ViewerJoins ==
    /\ ~viewer.joined
    /\ viewer' = [joined |-> TRUE, current |-> TRUE]
    /\ UNCHANGED <<formingBar, ring, pushes, feeder, readAt, missed>> /\ NoTrouble

ViewerLeaves ==
    /\ viewer.joined
    /\ viewer' = [joined |-> FALSE, current |-> FALSE]
    /\ UNCHANGED <<formingBar, ring, pushes, feeder, readAt, missed>> /\ NoTrouble

\* A bar lasts much longer than a round of the bridge: at most one closes between
\* two reads, unless the service is away or the bridge itself is stuck.
BarCloses ==
    /\ formingBar < Backfill + MaxFeedBars /\ formingBar' = formingBar + 1
    /\ \/ /\ formingBar = readAt \/ (feeder.pc = "idle" /\ feeder.need)
          /\ NoTrouble /\ UNCHANGED missed
       \/ formingBar # readAt /\ Trouble /\ missed' = TRUE
    /\ UNCHANGED <<ring, pushes, feeder, readAt, viewer>>

MiniAppRestarts ==
    /\ ring' = <<>> /\ pushes' = <<>>
    /\ viewer' = [joined |-> FALSE, current |-> FALSE]
    /\ IF feeder.pc = "waiting" THEN PushRefused ELSE UNCHANGED feeder
    /\ UNCHANGED <<formingBar, readAt, missed>> /\ Trouble

BridgeRestarts ==
    /\ feeder' = [pc |-> "idle", sends |-> "none", need |-> TRUE]
    /\ pushes' = [i \in DOMAIN pushes |-> [pushes[i] EXCEPT !.mine = FALSE]]
    /\ UNCHANGED <<formingBar, ring, readAt, viewer, missed>> /\ Trouble

BridgeStep == \E sends \in {"backfill", "bars", "tick"} : BridgePushes(sends)
HandlerStep == \E i \in DOMAIN pushes : \/ PushApplied(i) \/ PushBroadcast(i)
                                          \/ PushAnswered(i)
FeedNext == \/ BridgeStep \/ HandlerStep
            \/ \E sends \in {"backfill", "bars"} : BridgeReadsNothing(sends)
            \/ PushTimesOut \/ ViewerJoins \/ ViewerLeaves \/ BarCloses
            \/ MiniAppRestarts \/ BridgeRestarts

\* The loop of the bridge goes on and so do the handlers; the bars are due every
\* BARS_EVERY, so that not all batches are ticks.
FeedFairness == /\ WF_feedVars(BridgeStep) /\ WF_feedVars(HandlerStep)
                /\ SF_feedVars(BridgePushes("bars"))
FeedSpec == FeedInit /\ [][FeedNext]_feedVars /\ FeedFairness

-----------------------------------------------------------------------------
(* Properties *)

FeedTypeOK ==
    /\ Len(ring) <= MaxCandles
    /\ \A i \in DOMAIN ring : ring[i].t \in 1..formingBar /\ ring[i].final \in BOOLEAN
    /\ Len(pushes) <= MaxFeedTrouble + 1
    /\ {feeder.need, viewer.joined, viewer.current, missed} \subseteq BOOLEAN

\* The chart has no hole and every bar but the newest has its final values, after
\* outages of any length, late and repeated pushes and restarts of either side:
\* the ring holds as many bars as a backfill brings, and a push that failed is
\* followed by one.  A read that failed or came a bar late may leave a hole.
RingSound ==
    missed \/ \A i \in DOMAIN ring : /\ ring[i].t = ring[1].t + i - 1
                                     /\ ring[i].final \/ i = Len(ring)
=============================================================================
