---------------------------- MODULE CloseReports ----------------------------
(***************************************************************************)
(* How a position's close reaches the owner: the EA posts it live          *)
(* (OnTradeTransaction for a broker-side stop, the sink for a basket it    *)
(* closed itself) and back-fills what was missed (Reconciler), keeping the *)
(* ticket of the last reported deal in a terminal global, the watermark;   *)
(* the service drops a repeated ticket and serves its newest one as a      *)
(* guard against a rolled-back watermark.  A post may be lost, answered    *)
(* too late, or recorded after the EA gave up; the terminal may stop or be *)
(* killed between any two steps.                                           *)
(*                                                                         *)
(* Deal tickets are the broker's and grow over the whole account.          *)
(***************************************************************************)
EXTENDS Integers, Sequences, FiniteSets, FiniteSetsExt

CONSTANTS
  Symbols,        \* the charts that run an EA
  LiveReporters,  \* those whose own magic is the MagicNumber input: the others'
                  \* OnTradeTransaction ignores every deal
  MaxDeals,       \* bound on the closing deals
  MaxStops        \* bound on terminal stops and kills

ASSUME ConstantsAssumption ==
  /\ LiveReporters \subseteq Symbols
  /\ MaxDeals \in Nat
  /\ MaxStops \in Nat

Deals  == 1..MaxDeals
Absent == -1        \* the watermark's global does not exist yet

VARIABLES
  deals,      \* the chart of each own closing deal, in ticket order
  up, stops,  \* the terminal runs; how often it stopped
  queue,      \* the stop-outs each EA has still to handle in OnTradeTransaction
  pc, todo,   \* what each EA is doing; the backlog of its reconciler's scan
  gv, disk,   \* the watermark in the terminal's memory and in gvariables.dat
  wire,       \* posts the EA gave up on that may still reach the service
  reported,   \* how many rows of the trades table carry each ticket
  covered,    \* the deals that a ticketless (aggregate) close row stands for
  \* history
  seeded,     \* the deal each watermark was first seeded at
  unsure      \* deals whose live report failed, and basket legs whose aggregate
              \* close did not advance the watermark

eaVars      == <<queue, pc, todo>>
gvVars      == <<gv, disk>>
serviceVars == <<wire, reported, covered>>
vars == <<deals, up, stops, eaVars, gvVars, serviceVars, seeded, unsure>>

Post == [ticket : Deals \cup {0}, legs : SUBSET Deals]

TypeOK ==
  /\ deals \in Seq(Symbols) /\ Len(deals) <= MaxDeals
  /\ up \in BOOLEAN
  /\ stops \in 0..MaxStops
  /\ queue \in [Symbols -> Seq(Deals)]
  /\ pc \in [Symbols -> {"off", "boot", "idle", "aggregate", "scan"}]
  /\ todo \in [Symbols -> SUBSET Deals]
  /\ gv \in [Symbols -> Deals \cup {0, Absent}]
  /\ disk \in [Symbols -> Deals \cup {0, Absent}]
  /\ wire \subseteq Post
  /\ reported \in [Deals -> Nat]
  /\ covered \subseteq Deals
  /\ seeded \in [Symbols -> Deals \cup {0, Absent}]
  /\ unsure \subseteq Deals

Init ==
  /\ deals = <<>>
  /\ up = TRUE
  /\ stops = 0
  /\ queue = [s \in Symbols |-> <<>>]
  /\ pc = [s \in Symbols |-> "boot"]
  /\ todo = [s \in Symbols |-> {}]
  /\ gv = [s \in Symbols |-> Absent]
  /\ disk = [s \in Symbols |-> Absent]
  /\ wire = {}
  /\ reported = [t \in Deals |-> 0]
  /\ covered = {}
  /\ seeded = [s \in Symbols |-> Absent]
  /\ unsure = {}

-----------------------------------------------------------------------------
\* The own closing deals of a chart (symbol, magic, DEAL_ENTRY_OUT).
OwnDeals(s) == {t \in 1..Len(deals) : deals[t] = s}
\* Mutant: the watermark is the next ticket expected.
Newest_Next(s) == IF OwnDeals(s) = {} THEN 0 ELSE Max(OwnDeals(s)) + 1

Newest(s)   == IF OwnDeals(s) = {} THEN 0 ELSE Max(OwnDeals(s))

-----------------------------------------------------------------------------
(* The service                                                             *)

\* Mutant: the handler inserts without looking for the ticket.
Record_Unchecked(post) ==
  IF post.ticket = 0
  THEN covered' = covered \cup post.legs /\ UNCHANGED reported
  ELSE /\ reported' = [reported EXCEPT ![post.ticket] = @ + 1]
       /\ UNCHANGED covered

\* /trade-event: a close whose ticket is on record inserts nothing.
Record(post) ==
  IF post.ticket = 0
  THEN covered' = covered \cup post.legs /\ UNCHANGED reported
  ELSE /\ reported' = IF reported[post.ticket] > 0 THEN reported
                      ELSE [reported EXCEPT ![post.ticket] = @ + 1]
       /\ UNCHANGED covered

\* GET /api/last-close-ticket: the newest ticket of any chart, 0 for none.
LastCloseTicket ==
  LET known == {t \in Deals : reported[t] > 0}
  IN  IF known = {} THEN 0 ELSE Max(known)

\* PostTradeEvent, as the EA sees it: an id (the row is recorded), or -1 when
\* the answer was lost, the request is still on its way, or it was lost.
PostAnswered(post)   == Record(post) /\ UNCHANGED wire
PostUnanswered(post) ==
  \/ Record(post) /\ UNCHANGED wire
  \/ wire' = wire \cup {post} /\ UNCHANGED <<reported, covered>>
  \/ UNCHANGED serviceVars

WireDelivers == \E post \in wire :
  /\ wire' = wire \ {post}
  /\ Record(post) \/ UNCHANGED <<reported, covered>>
  /\ UNCHANGED <<deals, up, stops, eaVars, gvVars, seeded, unsure>>

-----------------------------------------------------------------------------
(* The broker                                                              *)

\* A closing deal the EA did not make as a basket close: a stop or target hit,
\* a close by hand, or a partial close (whose event the service rejects).  Only
\* stops and targets, with the terminal running, reach OnTradeTransaction.
DealHappens(s, live) ==
  /\ Len(deals) < MaxDeals
  /\ deals' = Append(deals, s)
  /\ queue' = IF live /\ up /\ s \in LiveReporters
              THEN [queue EXCEPT ![s] = Append(@, Len(deals) + 1)] ELSE queue
  /\ UNCHANGED <<up, stops, pc, todo, gvVars, serviceVars, seeded, unsure>>

-----------------------------------------------------------------------------
(* The EA                                                                  *)

\* Mutant: the raised watermark is not flushed.
Advance_Unflushed(s, t) ==
  /\ gv' = IF t > gv[s] THEN [gv EXCEPT ![s] = t] ELSE gv
  /\ UNCHANGED disk

\* AdvanceReconWatermark: raise and flush every global to disk.  A kill between
\* the two leaves what a kill before both leaves, which every caller allows for.
Advance(s, t) ==
  LET raised == IF t > gv[s] THEN [gv EXCEPT ![s] = t] ELSE gv
  IN  /\ gv' = raised
      /\ disk' = IF t > gv[s] THEN raised ELSE disk

\* OnTradeTransaction -> OnTradeEvent for one stop-out.
LiveReport(s) ==
  /\ pc[s] = "idle"
  /\ queue[s] # <<>>
  /\ LET t    == Head(queue[s])
         post == [ticket |-> t, legs |-> {t}]
     IN  \/ PostAnswered(post) /\ Advance(s, t) /\ UNCHANGED unsure
         \/ PostUnanswered(post) /\ unsure' = unsure \cup {t} /\ UNCHANGED gvVars
  /\ queue' = [queue EXCEPT ![s] = Tail(@)]
  /\ UNCHANGED <<deals, up, stops, pc, todo, seeded>>

\* CloseAll closes one or more legs and posts one close without a ticket.
CloseBasket(s, n) ==
  /\ pc[s] = "idle"
  /\ Len(deals) + n <= MaxDeals
  /\ deals' = deals \o [i \in 1..n |-> s]
  /\ LET legs == (Len(deals) + 1)..(Len(deals) + n)
         post == [ticket |-> 0, legs |-> legs]
     IN  \/ /\ PostAnswered(post)
            /\ pc' = [pc EXCEPT ![s] = "aggregate"]
            /\ todo' = [todo EXCEPT ![s] = legs]
            /\ UNCHANGED unsure
         \/ /\ PostUnanswered(post)
            /\ unsure' = unsure \cup legs
            /\ UNCHANGED <<pc, todo>>
  /\ UNCHANGED <<up, stops, queue, gvVars, seeded>>

\* Mutant: the aggregate close, having no ticket, leaves the watermark alone.
AdvancePastBasket_Skips(s) ==
  /\ pc[s] = "aggregate"
  /\ pc' = [pc EXCEPT ![s] = "idle"]
  /\ todo' = [todo EXCEPT ![s] = {}]
  /\ UNCHANGED <<deals, up, stops, queue, gvVars, serviceVars, seeded, unsure>>

\* The answered aggregate close advances the watermark to the newest own
\* closing deal on the books by now, unless HistorySelect fails.
AdvancePastBasket(s) ==
  /\ pc[s] = "aggregate"
  /\ \/ Advance(s, Newest(s)) /\ UNCHANGED unsure
     \/ unsure' = unsure \cup todo[s] /\ UNCHANGED gvVars
  /\ pc' = [pc EXCEPT ![s] = "idle"]
  /\ todo' = [todo EXCEPT ![s] = {}]
  /\ UNCHANGED <<deals, up, stops, queue, serviceVars, seeded>>

\* ReconcileOfflineCloses without a watermark: seed it, reporting nothing,
\* unless HistorySelect fails.
Seed(s) ==
  /\ pc[s] \in {"boot", "idle"}
  /\ gv[s] = Absent
  /\ \/ /\ Advance(s, Newest(s))
        /\ seeded' = [seeded EXCEPT ![s] = Newest(s)]
     \/ UNCHANGED <<gvVars, seeded>>
  /\ pc' = [pc EXCEPT ![s] = "idle"]
  /\ UNCHANGED <<deals, up, stops, queue, todo, serviceVars, unsure>>

\* The watermark a scan starts from: raised to the service's newest ticket
\* when that answers.
Guarded(s) == {gv[s]} \cup (IF LastCloseTicket > gv[s] THEN {LastCloseTicket} ELSE {})

\* Mutant: the scan starts one deal too late.
StartScan_OffByOne(s) ==
  /\ pc[s] \in {"boot", "idle"}
  /\ gv[s] # Absent
  /\ \E from \in Guarded(s) :
       /\ Advance(s, from)
       /\ LET backlog == {t \in OwnDeals(s) : t > from + 1}
          IN  \/ /\ backlog # {}
                 /\ todo' = [todo EXCEPT ![s] = backlog]
                 /\ pc' = [pc EXCEPT ![s] = "scan"]
              \/ /\ pc' = [pc EXCEPT ![s] = "idle"]
                 /\ UNCHANGED todo
  /\ UNCHANGED <<deals, up, stops, queue, serviceVars, seeded, unsure>>

\* Collect the unreported deals; HistorySelect may fail.
StartScan(s) ==
  /\ pc[s] \in {"boot", "idle"}
  /\ gv[s] # Absent
  /\ \E from \in Guarded(s) :
       /\ Advance(s, from)
       /\ LET backlog == {t \in OwnDeals(s) : t > from}
          IN  \/ /\ backlog # {}
                 /\ todo' = [todo EXCEPT ![s] = backlog]
                 /\ pc' = [pc EXCEPT ![s] = "scan"]
              \/ /\ pc' = [pc EXCEPT ![s] = "idle"]
                 /\ UNCHANGED todo
  /\ UNCHANGED <<deals, up, stops, queue, serviceVars, seeded, unsure>>

\* Post the oldest deal of the backlog; the first failure ends the scan.
ScanAnswered(s) ==
  /\ pc[s] = "scan"
  /\ LET t    == Min(todo[s])
         rest == todo[s] \ {t}
     IN  /\ PostAnswered([ticket |-> t, legs |-> {t}])
         /\ Advance(s, t)
         /\ todo' = [todo EXCEPT ![s] = rest]
         /\ pc' = [pc EXCEPT ![s] = IF rest = {} THEN "idle" ELSE "scan"]
  /\ UNCHANGED <<deals, up, stops, queue, seeded, unsure>>

\* Mutant: the scan goes on after a failed post.
ScanFails_Continues(s) ==
  /\ pc[s] = "scan"
  /\ LET t    == Min(todo[s])
         rest == todo[s] \ {t}
     IN  /\ PostUnanswered([ticket |-> t, legs |-> {t}])
         /\ todo' = [todo EXCEPT ![s] = rest]
         /\ pc' = [pc EXCEPT ![s] = IF rest = {} THEN "idle" ELSE "scan"]
  /\ UNCHANGED <<deals, up, stops, queue, gvVars, seeded, unsure>>

ScanFails(s) ==
  /\ pc[s] = "scan"
  /\ LET t == Min(todo[s])
     IN  PostUnanswered([ticket |-> t, legs |-> {t}])
  /\ todo' = [todo EXCEPT ![s] = {}]
  /\ pc' = [pc EXCEPT ![s] = "idle"]
  /\ UNCHANGED <<deals, up, stops, queue, gvVars, seeded, unsure>>

-----------------------------------------------------------------------------
(* The terminal                                                            *)

\* What a stop of the terminal, clean or not, interrupts.
Interrupted == UNION {IF pc[s] = "aggregate" THEN todo[s] ELSE {} : s \in Symbols}

GoesDown ==
  /\ up
  /\ stops < MaxStops
  /\ up' = FALSE
  /\ stops' = stops + 1
  /\ queue' = [s \in Symbols |-> <<>>]
  /\ pc' = [s \in Symbols |-> "off"]
  /\ todo' = [s \in Symbols |-> {}]
  /\ unsure' = unsure \cup Interrupted
  /\ UNCHANGED <<deals, serviceVars, seeded>>

\* A clean shutdown saves the globals; a hard kill loses what was not flushed.
TerminalStops == GoesDown /\ disk' = gv /\ UNCHANGED gv
TerminalKilled == GoesDown /\ gv' = disk /\ UNCHANGED disk

TerminalStarts ==
  /\ ~up
  /\ up' = TRUE
  /\ pc' = [s \in Symbols |-> "boot"]
  /\ UNCHANGED <<deals, stops, queue, todo, gvVars, serviceVars, seeded, unsure>>

-----------------------------------------------------------------------------
Next ==
  \/ \E s \in Symbols :
       \/ \E live \in BOOLEAN : DealHappens(s, live)
       \/ \E n \in 1..2 : CloseBasket(s, n)
       \/ LiveReport(s) \/ AdvancePastBasket(s)
       \/ Seed(s) \/ StartScan(s) \/ ScanAnswered(s) \/ ScanFails(s)
  \/ WireDelivers
  \/ TerminalStops \/ TerminalKilled \/ TerminalStarts

Spec == Init /\ [][Next]_vars

\* The EA's handlers run when they can and the terminal is started again.  The
\* two judgements about the outside: HistorySelect does not fail for ever, and a
\* scan that is retried every 60 s is not unanswered every time.
Fairness ==
  /\ WF_vars(TerminalStarts)
  /\ \A s \in Symbols :
       /\ WF_vars(LiveReport(s))
       /\ WF_vars(AdvancePastBasket(s))
       /\ WF_vars(Seed(s) /\ gv'[s] # Absent)
       /\ WF_vars(StartScan(s) /\ pc'[s] = "scan")
       /\ SF_vars(ScanAnswered(s))

LiveSpec == Spec /\ Fairness

-----------------------------------------------------------------------------
\* The owner's record never carries one ticket twice, whatever was re-posted,
\* delivered late or replayed after a kill (/trade-event).
NoDuplicateTicket == \A t \in Deals : reported[t] <= 1

\* A deal is reported both by its basket's aggregate close and by itself only
\* when the aggregate close could not advance the watermark (UiSink).
BasketReportedOnce == \A t \in covered : reported[t] > 0 => t \in unsure

\* The watermark never moves back, not even by a hard kill: every advance was
\* flushed (AdvanceReconWatermark).
WatermarkDurable == [][\A s \in Symbols : gv'[s] >= gv[s]]_vars

\* A scan never steps over a deal of its own chart: when its post moves the
\* watermark, everything between the old and the new one is on record.
ScanInOrder ==
  [][\A s \in Symbols : pc[s] = "scan" /\ gv'[s] # gv[s] =>
       \A t \in OwnDeals(s) : gv[s] < t /\ t <= gv'[s] => reported'[t] > 0]_vars

\* Every close is eventually at or below its chart's watermark: the reconciler
\* does not stay behind once the service answers again.
CatchesUp ==
  \A t \in Deals, s \in Symbols :
    (t <= Len(deals) /\ deals[t] = s) ~> (gv[s] >= t)

\* "the scan stops at the first failed post so nothing is skipped", "At-least-
\* once delivery, in order, no duplicates": when the report of a deal closed after
\* the watermark was seeded has failed, the watermark stays below it until the deal
\* is on record, or at least on its way.
NothingSkipped ==
  \A s \in Symbols : \A t \in OwnDeals(s) \cap unsure :
    seeded[s] # Absent /\ t > seeded[s] /\ gv[s] >= t =>
      reported[t] > 0 \/ t \in covered \/ \E post \in wire : t \in post.legs
=============================================================================
