------------------------- MODULE CloseReportsProofs -------------------------
(***************************************************************************)
(* Proofs about CloseReports, for any set of charts and any bounds: types, *)
(* no ticket recorded twice, a watermark that never moves back, and a scan *)
(* that steps over nothing.                                                *)
(***************************************************************************)
EXTENDS CloseReports, NatLemmas

Marks == Deals \cup {0, Absent}

\* No advance of a watermark is waiting to be flushed.
Flushed == disk = gv

\* A scan's backlog is not empty, lies above the watermark, and has every deal
\* of the chart between the watermark and any of its own.
BacklogOf(s) == pc[s] = "scan" =>
  /\ todo[s] # {}
  /\ \A t \in todo[s] : t \in OwnDeals(s) /\ t > gv[s]
  /\ \A t \in OwnDeals(s), x \in todo[s] : t > gv[s] /\ t <= x => t \in todo[s]

Backlog == \A s \in Symbols : BacklogOf(s)

\* The inductive invariant.
Inv == TypeOK /\ Flushed /\ Backlog

-----------------------------------------------------------------------------
(* What the operators return                                               *)

LEMMA OwnDealsAreDeals ==
  ASSUME TypeOK, NEW s \in Symbols
  PROVE  OwnDeals(s) \in SUBSET Deals
BY ConstantsAssumption, LenProperties DEF TypeOK, OwnDeals, Deals

LEMMA NewestType ==
  ASSUME TypeOK, NEW s \in Symbols
  PROVE  Newest(s) \in Deals \cup {0}
<1>. USE ConstantsAssumption
<1>1. OwnDeals(s) \in SUBSET (0..MaxDeals)
  BY OwnDealsAreDeals DEF Deals
<1>2. CASE OwnDeals(s) = {}
  BY <1>2 DEF Newest
<1>3. CASE OwnDeals(s) # {}
  <2>1. Max(OwnDeals(s)) \in OwnDeals(s)
    BY <1>1, <1>3, MaxOfNaturals
  <2>. QED BY <1>3, <2>1, OwnDealsAreDeals DEF Newest
<1>. QED BY <1>2, <1>3

LEMMA LastCloseTicketType == LastCloseTicket \in Deals \cup {0}
<1>. DEFINE known == {t \in Deals : reported[t] > 0}
<1>1. CASE known = {}
  BY <1>1 DEF LastCloseTicket
<1>2. CASE known # {}
  <2>1. known \in SUBSET (0..MaxDeals)
    BY ConstantsAssumption DEF Deals
  <2>2. Max(known) \in known
    BY <1>2, <2>1, MaxOfNaturals, ConstantsAssumption
  <2>. QED BY <1>2, <2>2 DEF LastCloseTicket
<1>. QED BY <1>1, <1>2

LEMMA RecordType ==
  ASSUME TypeOK, NEW post \in Post, Record(post)
  PROVE  reported' \in [Deals -> Nat] /\ covered' \in SUBSET Deals
<1>1. CASE post.ticket = 0
  BY <1>1 DEF TypeOK, Post, Record
<1>2. CASE post.ticket \in Deals
  <2>1. reported[post.ticket] \in Nat /\ post.ticket # 0
    BY <1>2 DEF TypeOK, Deals
  <2>. QED BY <1>2, <2>1 DEF TypeOK, Record
<1>. QED BY <1>1, <1>2 DEF Post

LEMMA PostUnansweredType ==
  ASSUME TypeOK, NEW post \in Post, PostUnanswered(post)
  PROVE  /\ reported' \in [Deals -> Nat]
         /\ covered' \in SUBSET Deals
         /\ wire' \in SUBSET Post
<1>1. CASE Record(post) /\ UNCHANGED wire
  BY <1>1, RecordType DEF TypeOK
<1>2. CASE wire' = wire \cup {post} /\ UNCHANGED <<reported, covered>>
  BY <1>2 DEF TypeOK
<1>3. CASE UNCHANGED serviceVars
  BY <1>3 DEF TypeOK, serviceVars
<1>. QED BY <1>1, <1>2, <1>3 DEF PostUnanswered

LEMMA AdvanceRaises ==
  ASSUME TypeOK, Flushed, NEW s \in Symbols, NEW t \in Marks, Advance(s, t)
  PROVE  /\ gv' \in [Symbols -> Marks]
         /\ disk' = gv'
         /\ gv'[s] = IF t > gv[s] THEN t ELSE gv[s]
         /\ \A q \in Symbols : q # s => gv'[q] = gv[q]
<1>1. gv \in [Symbols -> Marks]
  BY DEF TypeOK, Marks
<1>2. CASE t > gv[s]
  BY <1>1, <1>2 DEF Advance, Flushed
<1>3. CASE ~ (t > gv[s])
  BY <1>1, <1>3 DEF Advance, Flushed
<1>. QED BY <1>2, <1>3

-----------------------------------------------------------------------------
(* The invariant                                                           *)

\* The inductive invariant of the reports holds in the beginning, with nothing sent or done.
THEOREM InvInit == Init => Inv
<1>. SUFFICES ASSUME Init PROVE Inv
  OBVIOUS
<1>1. TypeOK
  BY ConstantsAssumption, EmptySeq DEF Init, TypeOK
<1>2. Flushed /\ Backlog
  BY DEF Init, Flushed, Backlog, BacklogOf
<1>. QED BY <1>1, <1>2 DEF Inv

\* A scan has an oldest deal left.
LEMMA BacklogMin ==
  ASSUME Inv, NEW s \in Symbols, pc[s] = "scan"
  PROVE  /\ Min(todo[s]) \in todo[s]
         /\ Min(todo[s]) \in Deals
         /\ \A t \in todo[s] : Min(todo[s]) <= t
<1>1. todo[s] \in SUBSET Deals /\ todo[s] # {}
  BY DEF Inv, TypeOK, Backlog, BacklogOf
<1>2. todo[s] \in SUBSET Nat
  BY <1>1 DEF Deals
<1>. QED BY <1>1, <1>2, MinOfNaturals

\* Every step keeps the types.
LEMMA TypeStep ==
  ASSUME Inv, [Next]_vars
  PROVE  TypeOK'
<1>. USE DEF Inv
<1>0. CASE UNCHANGED vars
  BY <1>0 DEF vars, eaVars, gvVars, serviceVars, TypeOK
<1>1. ASSUME NEW s \in Symbols, NEW live \in BOOLEAN, DealHappens(s, live) PROVE TypeOK'
  <2>1. deals' \in Seq(Symbols) /\ Len(deals') <= MaxDeals
    BY <1>1, ConstantsAssumption DEF TypeOK, DealHappens
  <2>2. queue' \in [Symbols -> Seq(Deals)]
    <3>1. Len(deals) + 1 \in Deals
      BY <1>1, ConstantsAssumption DEF TypeOK, DealHappens, Deals
    <3>2. \A q \in Seq(Deals) : Append(q, Len(deals) + 1) \in Seq(Deals)
      BY <3>1
    <3>. QED BY <1>1, <3>2 DEF TypeOK, DealHappens
  <2>. QED BY <1>1, <2>1, <2>2 DEF TypeOK, DealHappens, gvVars, serviceVars
<1>2. ASSUME NEW s \in Symbols, NEW n \in 1..2, CloseBasket(s, n) PROVE TypeOK'
  <2>. DEFINE legs == (Len(deals) + 1)..(Len(deals) + n)
              post == [ticket |-> 0, legs |-> legs]
  <2>1. legs \in SUBSET Deals
    BY <1>2, ConstantsAssumption DEF TypeOK, CloseBasket, Deals
  <2>2. post \in Post
    BY <2>1 DEF Post
  <2>3. deals' \in Seq(Symbols) /\ Len(deals') <= MaxDeals
    <3>1. [i \in 1..n |-> s] \in Seq(Symbols) /\ Len([i \in 1..n |-> s]) = n
      OBVIOUS
    <3>. HIDE DEF legs, post
    <3>2. deals' = deals \o [i \in 1..n |-> s] /\ Len(deals) + n <= MaxDeals
      BY <1>2 DEF CloseBasket
    <3>. QED BY <3>1, <3>2, ConcatProperties DEF TypeOK
  <2>. HIDE DEF legs
  <2>4. CASE PostAnswered(post) /\ pc' = [pc EXCEPT ![s] = "aggregate"]
                /\ todo' = [todo EXCEPT ![s] = legs] /\ UNCHANGED unsure
    <3>1. reported' \in [Deals -> Nat] /\ covered' \in SUBSET Deals /\ wire' = wire
      BY <2>2, <2>4, RecordType DEF PostAnswered
    <3>. QED BY <1>2, <2>1, <2>3, <2>4, <3>1 DEF TypeOK, CloseBasket, gvVars
  <2>5. CASE PostUnanswered(post) /\ unsure' = unsure \cup legs /\ UNCHANGED <<pc, todo>>
    <3>1. reported' \in [Deals -> Nat] /\ covered' \in SUBSET Deals /\ wire' \in SUBSET Post
      BY <2>2, <2>5, PostUnansweredType
    <3>. QED BY <1>2, <2>1, <2>3, <2>5, <3>1 DEF TypeOK, CloseBasket, gvVars
  <2>. QED BY <1>2, <2>4, <2>5 DEF CloseBasket, legs
<1>3. ASSUME NEW s \in Symbols, LiveReport(s) PROVE TypeOK'
  <2>. DEFINE t == Head(queue[s])
              post == [ticket |-> t, legs |-> {t}]
  <2>1. t \in Deals /\ Tail(queue[s]) \in Seq(Deals)
    BY <1>3, HeadTailProperties DEF LiveReport, TypeOK
  <2>2. post \in Post
    BY <2>1 DEF Post
  <2>3. queue' \in [Symbols -> Seq(Deals)]
    BY <1>3, <2>1 DEF LiveReport, TypeOK
  <2>. HIDE DEF t
  <2>4. CASE PostAnswered(post) /\ Advance(s, t)
    <3>1. reported' \in [Deals -> Nat] /\ covered' \in SUBSET Deals /\ wire' = wire
      BY <2>2, <2>4, RecordType DEF PostAnswered
    <3>2. gv' \in [Symbols -> Marks] /\ disk' = gv'
      BY <2>1, <2>4, AdvanceRaises DEF Marks
    <3>. QED BY <1>3, <2>3, <3>1, <3>2 DEF TypeOK, LiveReport, Marks
  <2>5. CASE PostUnanswered(post) /\ UNCHANGED gvVars
    <3>1. reported' \in [Deals -> Nat] /\ covered' \in SUBSET Deals /\ wire' \in SUBSET Post
      BY <2>2, <2>5, PostUnansweredType
    <3>. QED BY <1>3, <2>3, <2>5, <3>1 DEF TypeOK, LiveReport, gvVars
  <2>. QED BY <1>3, <2>4, <2>5 DEF LiveReport, t
<1>4. ASSUME NEW s \in Symbols, AdvancePastBasket(s) PROVE TypeOK'
  <2>1. CASE Advance(s, Newest(s)) /\ UNCHANGED unsure
    <3>1. gv' \in [Symbols -> Marks] /\ disk' = gv'
      BY <2>1, NewestType, AdvanceRaises DEF Marks
    <3>. QED BY <1>4, <2>1, <3>1 DEF TypeOK, AdvancePastBasket, serviceVars, Marks
  <2>2. CASE unsure' = unsure \cup todo[s] /\ UNCHANGED gvVars
    BY <1>4, <2>2 DEF TypeOK, AdvancePastBasket, serviceVars, gvVars
  <2>. QED BY <1>4, <2>1, <2>2 DEF AdvancePastBasket
<1>5. ASSUME NEW s \in Symbols, Seed(s) PROVE TypeOK'
  <2>1. CASE Advance(s, Newest(s)) /\ seeded' = [seeded EXCEPT ![s] = Newest(s)]
    <3>1. gv' \in [Symbols -> Marks] /\ disk' = gv'
      BY <2>1, NewestType, AdvanceRaises DEF Marks
    <3>2. seeded' \in [Symbols -> Marks]
      BY <2>1, NewestType DEF TypeOK, Marks
    <3>. QED BY <1>5, <3>1, <3>2 DEF TypeOK, Seed, serviceVars, Marks
  <2>2. CASE UNCHANGED <<gvVars, seeded>>
    BY <1>5, <2>2 DEF TypeOK, Seed, serviceVars, gvVars
  <2>. QED BY <1>5, <2>1, <2>2 DEF Seed
<1>6. ASSUME NEW s \in Symbols, StartScan(s) PROVE TypeOK'
  <2>1. PICK from \in Guarded(s) : Advance(s, from)
    BY <1>6 DEF StartScan
  <2>2. from \in Marks
    BY LastCloseTicketType DEF Guarded, TypeOK, Marks
  <2>3. gv' \in [Symbols -> Marks] /\ disk' = gv'
    BY <2>1, <2>2, AdvanceRaises
  <2>4. todo' \in [Symbols -> SUBSET Deals] /\ pc' \in [Symbols -> {"off", "boot", "idle", "aggregate", "scan"}]
    <3>1. OwnDeals(s) \subseteq Deals
      BY OwnDealsAreDeals
    <3>2. \/ UNCHANGED todo
          \/ \E b \in SUBSET OwnDeals(s) : todo' = [todo EXCEPT ![s] = b]
      BY <1>6 DEF StartScan
    <3>3. todo' \in [Symbols -> SUBSET Deals]
      BY <3>1, <3>2 DEF TypeOK
    <3>4. \/ pc' = [pc EXCEPT ![s] = "scan"]
          \/ pc' = [pc EXCEPT ![s] = "idle"]
      BY <1>6 DEF StartScan
    <3>. QED BY <3>3, <3>4 DEF TypeOK
  <2>5. UNCHANGED <<deals, up, stops, queue, wire, reported, covered, seeded, unsure>>
    BY <1>6 DEF StartScan, serviceVars
  <2>. QED BY <2>3, <2>4, <2>5 DEF TypeOK, Marks
<1>7. ASSUME NEW s \in Symbols, ScanAnswered(s) PROVE TypeOK'
  <2>. DEFINE t == Min(todo[s])
              post == [ticket |-> t, legs |-> {t}]
  <2>1. t \in Deals
    BY <1>7, BacklogMin DEF ScanAnswered
  <2>2. post \in Post
    BY <2>1 DEF Post
  <2>. HIDE DEF t
  <2>3. reported' \in [Deals -> Nat] /\ covered' \in SUBSET Deals /\ wire' = wire
    BY <1>7, <2>2, RecordType DEF ScanAnswered, PostAnswered, t
  <2>4. gv' \in [Symbols -> Marks] /\ disk' = gv'
    BY <1>7, <2>1, AdvanceRaises DEF ScanAnswered, Marks, t
  <2>5. todo' \in [Symbols -> SUBSET Deals] /\ pc' \in [Symbols -> {"off", "boot", "idle", "aggregate", "scan"}]
    BY <1>7 DEF ScanAnswered, TypeOK
  <2>. QED BY <1>7, <2>3, <2>4, <2>5 DEF TypeOK, ScanAnswered, Marks
<1>8. ASSUME NEW s \in Symbols, ScanFails(s) PROVE TypeOK'
  <2>. DEFINE t == Min(todo[s])
              post == [ticket |-> t, legs |-> {t}]
  <2>1. t \in Deals
    BY <1>8, BacklogMin DEF ScanFails
  <2>2. post \in Post
    BY <2>1 DEF Post
  <2>. HIDE DEF t
  <2>3. reported' \in [Deals -> Nat] /\ covered' \in SUBSET Deals /\ wire' \in SUBSET Post
    BY <1>8, <2>2, PostUnansweredType DEF ScanFails, t
  <2>. QED BY <1>8, <2>3 DEF TypeOK, ScanFails, gvVars
<1>9. ASSUME WireDelivers PROVE TypeOK'
  <2>1. PICK post \in wire : /\ wire' = wire \ {post}
                             /\ Record(post) \/ UNCHANGED <<reported, covered>>
    BY <1>9 DEF WireDelivers
  <2>2. post \in Post
    BY DEF TypeOK
  <2>3. reported' \in [Deals -> Nat] /\ covered' \in SUBSET Deals
    BY <2>1, <2>2, RecordType DEF TypeOK
  <2>. QED BY <1>9, <2>1, <2>3 DEF TypeOK, WireDelivers, eaVars, gvVars
<1>10. ASSUME GoesDown, gv' \in {gv, disk}, disk' \in {gv, disk} PROVE TypeOK'
  <2>1. Interrupted \in SUBSET Deals
    BY DEF Interrupted, TypeOK
  <2>2. queue' \in [Symbols -> Seq(Deals)]
    BY <1>10, EmptySeq DEF GoesDown
  <2>3. stops' \in 0..MaxStops
    BY <1>10, ConstantsAssumption DEF TypeOK, GoesDown
  <2>4. gv' \in [Symbols -> Marks] /\ disk' \in [Symbols -> Marks]
    BY <1>10 DEF TypeOK, Marks
  <2>. QED BY <1>10, <2>1, <2>2, <2>3, <2>4 DEF TypeOK, GoesDown, serviceVars, Marks
<1>11. ASSUME TerminalStarts PROVE TypeOK'
  BY <1>11 DEF TypeOK, TerminalStarts, gvVars, serviceVars
<1>12. TerminalStops => TypeOK'
  BY <1>10 DEF TerminalStops
<1>13. TerminalKilled => TypeOK'
  BY <1>10 DEF TerminalKilled
<1>. QED
  BY <1>0, <1>1, <1>2, <1>3, <1>4, <1>5, <1>6, <1>7, <1>8, <1>9, <1>11, <1>12, <1>13
     DEF Next

\* A step leaves the watermarks flushed and none lower; while a chart scans,
\* only the answered post of its scan moves its watermark.
Raised == \A s \in Symbols : /\ gv'[s] >= gv[s]
                             /\ pc[s] = "scan" /\ gv'[s] # gv[s] => ScanAnswered(s)

LEMMA MarkStep ==
  ASSUME Inv, [Next]_vars
  PROVE  Flushed' /\ Raised
<1>. USE DEF Inv
<1>1. \A s \in Symbols : gv[s] \in Int
  BY ConstantsAssumption DEF TypeOK, Deals, Absent
<1>2. ASSUME UNCHANGED gvVars PROVE Flushed' /\ Raised
  <2>1. gv' = gv /\ disk' = disk
    BY <1>2 DEF gvVars
  <2>. QED BY <1>1, <2>1 DEF Flushed, Raised
<1>3. ASSUME NEW s \in Symbols, NEW t \in Marks, Advance(s, t),
             pc[s] # "scan" \/ ScanAnswered(s)
      PROVE  Flushed' /\ Raised
  <2>1. disk' = gv' /\ gv'[s] >= gv[s] /\ \A q \in Symbols : q # s => gv'[q] = gv[q]
    <3>1. t \in Int /\ gv[s] \in Int
      BY <1>1, ConstantsAssumption DEF Marks, Deals, Absent
    <3>. QED BY <1>3, <3>1, AdvanceRaises
  <2>2. \A q \in Symbols : gv'[q] >= gv[q] /\ (pc[q] = "scan" /\ gv'[q] # gv[q] => ScanAnswered(q))
    <3>1. \A q \in Symbols : q # s => gv'[q] >= gv[q]
      BY <1>1, <2>1
    <3>. QED BY <1>3, <2>1, <3>1
  <2>. QED BY <2>1, <2>2 DEF Flushed, Raised
<1>4. ASSUME NEW s \in Symbols, LiveReport(s) PROVE Flushed' /\ Raised
  <2>1. Head(queue[s]) \in Marks
    BY <1>4, HeadTailProperties DEF LiveReport, TypeOK, Marks
  <2>. QED BY <1>2, <1>3, <1>4, <2>1 DEF LiveReport
<1>5. ASSUME NEW s \in Symbols, AdvancePastBasket(s) PROVE Flushed' /\ Raised
  <2>1. Newest(s) \in Marks
    BY NewestType DEF Marks
  <2>. QED BY <1>2, <1>3, <1>5, <2>1 DEF AdvancePastBasket
<1>6. ASSUME NEW s \in Symbols, Seed(s) PROVE Flushed' /\ Raised
  <2>1. Newest(s) \in Marks
    BY NewestType DEF Marks
  <2>2. pc[s] # "scan"
    BY <1>6 DEF Seed
  <2>3. CASE Advance(s, Newest(s))
    BY <1>3, <2>1, <2>2, <2>3
  <2>4. CASE UNCHANGED <<gvVars, seeded>>
    BY <1>2, <2>4
  <2>. QED BY <1>6, <2>3, <2>4 DEF Seed
<1>7. ASSUME NEW s \in Symbols, StartScan(s) PROVE Flushed' /\ Raised
  <2>1. PICK from \in Guarded(s) : Advance(s, from)
    BY <1>7 DEF StartScan
  <2>2. from \in Marks
    BY LastCloseTicketType DEF Guarded, TypeOK, Marks
  <2>3. pc[s] # "scan"
    BY <1>7 DEF StartScan
  <2>. QED BY <1>3, <2>1, <2>2, <2>3
<1>8. ASSUME NEW s \in Symbols, ScanAnswered(s) PROVE Flushed' /\ Raised
  <2>1. Min(todo[s]) \in Marks
    BY <1>8, BacklogMin DEF ScanAnswered, Marks
  <2>2. Advance(s, Min(todo[s]))
    BY <1>8 DEF ScanAnswered
  <2>. QED BY <1>3, <1>8, <2>1, <2>2
<1>9. TerminalStops \/ TerminalKilled => UNCHANGED gvVars
  BY DEF TerminalStops, TerminalKilled, Flushed, gvVars
<1>10. UNCHANGED vars => UNCHANGED gvVars
  BY DEF vars, gvVars
<1>11. ASSUME NEW s \in Symbols, NEW live \in BOOLEAN, DealHappens(s, live) PROVE UNCHANGED gvVars
  BY <1>11 DEF DealHappens, gvVars
<1>12. ASSUME NEW s \in Symbols, NEW n \in 1..2, CloseBasket(s, n) PROVE UNCHANGED gvVars
  BY <1>12 DEF CloseBasket, gvVars
<1>13. ASSUME NEW s \in Symbols, ScanFails(s) PROVE UNCHANGED gvVars
  BY <1>13 DEF ScanFails, gvVars
<1>14. WireDelivers \/ TerminalStarts => UNCHANGED gvVars
  BY DEF WireDelivers, TerminalStarts, gvVars
<1>. QED
  BY <1>2, <1>4, <1>5, <1>6, <1>7, <1>8, <1>9, <1>10, <1>11, <1>12, <1>13, <1>14 DEF Next

\* New deals come after the old ones: what lies below the old length is as before.
LEMMA OwnDealsGrow ==
  ASSUME TypeOK, NEW s \in Symbols, NEW more \in Seq(Symbols), deals' = deals \o more
  PROVE  \A t \in 1..Len(deals) : t \in OwnDeals(s)' <=> t \in OwnDeals(s)
BY ConcatProperties, LenProperties DEF TypeOK, OwnDeals

\* A chart's backlog survives every step that leaves it, its watermark and the
\* chart's activity alone, also when deals are added.
LEMMA BacklogKept ==
  ASSUME Inv, NEW s \in Symbols, pc'[s] = "scan" => pc[s] = "scan",
         todo'[s] = todo[s], gv'[s] = gv[s],
         NEW more \in Seq(Symbols), deals' = deals \o more
  PROVE  BacklogOf(s)'
<1>. SUFFICES ASSUME pc[s] = "scan"
              PROVE  /\ todo[s] # {}
                     /\ \A t \in todo[s] : t \in OwnDeals(s)' /\ t > gv[s]
                     /\ \A t \in OwnDeals(s)', x \in todo[s] :
                          t > gv[s] /\ t <= x => t \in todo[s]
  BY DEF BacklogOf
<1>1. /\ todo[s] # {}
      /\ \A t \in todo[s] : t \in OwnDeals(s) /\ t > gv[s]
      /\ \A t \in OwnDeals(s), x \in todo[s] : t > gv[s] /\ t <= x => t \in todo[s]
  BY DEF Inv, Backlog, BacklogOf
<1>2. \A t \in OwnDeals(s) : t \in 1..Len(deals)
  BY DEF OwnDeals
<1>3. \A t \in 1..Len(deals) : t \in OwnDeals(s)' <=> t \in OwnDeals(s)
  BY OwnDealsGrow DEF Inv
<1>4. \A t \in OwnDeals(s)' : t \in Nat \ {0}
  BY LenProperties DEF OwnDeals
<1>5. Len(deals) \in Nat
  BY DEF Inv, TypeOK
<1>6. ASSUME NEW t \in OwnDeals(s)', NEW x \in todo[s], t <= x PROVE t \in OwnDeals(s)
  <2>1. x \in 1..Len(deals)
    BY <1>1, <1>2
  <2>2. t \in 1..Len(deals)
    BY <1>4, <1>5, <1>6, <2>1
  <2>. QED BY <1>3, <2>2
<1>. QED BY <1>1, <1>2, <1>3, <1>6

\* A step under which the backlogs of the moved charts hold, and which leaves
\* the other charts' backlogs and watermarks alone, keeps every backlog.
LEMMA BacklogsKept ==
  ASSUME Inv, NEW more \in Seq(Symbols), deals' = deals \o more,
         NEW moved,
         \A q \in Symbols \cap moved : BacklogOf(q)',
         \A q \in Symbols \ moved : pc'[q] = pc[q] /\ todo'[q] = todo[q] /\ gv'[q] = gv[q]
  PROVE  Backlog'
<1>1. ASSUME NEW q \in Symbols PROVE BacklogOf(q)'
  <2>1. CASE q \in moved
    BY <2>1
  <2>2. CASE q \notin moved
    BY <2>2, BacklogKept
  <2>. QED BY <2>1, <2>2
<1>. QED BY <1>1 DEF Backlog

\* Every step keeps the backlogs.
LEMMA BacklogStep ==
  ASSUME Inv, [Next]_vars
  PROVE  Backlog'
<1>. USE DEF Inv
<1>0. deals' = deals => deals' = deals \o <<>> /\ <<>> \in Seq(Symbols)
  BY EmptySeq, ConcatEmptySeq DEF TypeOK
<1>1. ASSUME UNCHANGED <<deals, pc, todo, gv>> PROVE Backlog'
  <2>1. /\ \A q \in Symbols \ {} : pc'[q] = pc[q] /\ todo'[q] = todo[q] /\ gv'[q] = gv[q]
        /\ \A q \in Symbols \cap {} : BacklogOf(q)'
    BY <1>1
  <2>. QED BY <1>0, <1>1, <2>1, BacklogsKept
<1>2. ASSUME NEW s \in Symbols, UNCHANGED deals, BacklogOf(s)',
             \A q \in Symbols : q # s => pc'[q] = pc[q] /\ todo'[q] = todo[q] /\ gv'[q] = gv[q]
      PROVE  Backlog'
  <2>1. /\ \A q \in Symbols \ {s} : pc'[q] = pc[q] /\ todo'[q] = todo[q] /\ gv'[q] = gv[q]
        /\ \A q \in Symbols \cap {s} : BacklogOf(q)'
    BY <1>2
  <2>. QED BY <1>0, <1>2, <2>1, BacklogsKept
<1>3. ASSUME NEW s \in Symbols, NEW live \in BOOLEAN, DealHappens(s, live) PROVE Backlog'
  <2>1. deals' = deals \o <<s>> /\ <<s>> \in Seq(Symbols)
    BY <1>3, AppendIsConcat DEF DealHappens, TypeOK
  <2>2. /\ \A q \in Symbols \ {} : pc'[q] = pc[q] /\ todo'[q] = todo[q] /\ gv'[q] = gv[q]
        /\ \A q \in Symbols \cap {} : BacklogOf(q)'
    BY <1>3 DEF DealHappens, gvVars
  <2>. QED BY <2>1, <2>2, BacklogsKept
<1>4. ASSUME NEW s \in Symbols, NEW n \in 1..2, CloseBasket(s, n) PROVE Backlog'
  <2>1. deals' = deals \o [i \in 1..n |-> s] /\ [i \in 1..n |-> s] \in Seq(Symbols)
    BY <1>4 DEF CloseBasket
  <2>2. pc' = [pc EXCEPT ![s] = "aggregate"] \/ pc' = pc
    BY <1>4 DEF CloseBasket
  <2>3. pc'[s] # "scan"
    BY <1>4, <2>2 DEF CloseBasket, TypeOK
  <2>4. \A q \in Symbols \ {s} : pc'[q] = pc[q] /\ todo'[q] = todo[q] /\ gv'[q] = gv[q]
    BY <1>4 DEF CloseBasket, TypeOK, gvVars
  <2>. QED BY <2>1, <2>3, <2>4, BacklogsKept DEF BacklogOf
<1>5. ASSUME NEW s \in Symbols, LiveReport(s) PROVE Backlog'
  <2>1. Head(queue[s]) \in Marks
    BY <1>5, HeadTailProperties DEF LiveReport, TypeOK, Marks
  <2>2. UNCHANGED <<deals, pc, todo>> /\ pc'[s] # "scan"
    BY <1>5 DEF LiveReport
  <2>3. Advance(s, Head(queue[s])) \/ UNCHANGED gvVars
    BY <1>5 DEF LiveReport
  <2>4. \A q \in Symbols : q # s => gv'[q] = gv[q]
    BY <2>1, <2>3, AdvanceRaises DEF gvVars
  <2>. QED BY <1>2, <2>2, <2>4 DEF BacklogOf
<1>6. ASSUME NEW s \in Symbols, AdvancePastBasket(s) PROVE Backlog'
  <2>1. Newest(s) \in Marks
    BY NewestType DEF Marks
  <2>2. /\ UNCHANGED deals
        /\ pc'[s] # "scan"
        /\ \A q \in Symbols : q # s => pc'[q] = pc[q] /\ todo'[q] = todo[q]
    BY <1>6 DEF AdvancePastBasket, TypeOK
  <2>3. Advance(s, Newest(s)) \/ UNCHANGED gvVars
    BY <1>6 DEF AdvancePastBasket
  <2>4. \A q \in Symbols : q # s => gv'[q] = gv[q]
    BY <2>1, <2>3, AdvanceRaises DEF gvVars
  <2>. QED BY <1>2, <2>2, <2>4 DEF BacklogOf
<1>7. ASSUME NEW s \in Symbols, Seed(s) PROVE Backlog'
  <2>1. Newest(s) \in Marks
    BY NewestType DEF Marks
  <2>2. /\ UNCHANGED deals
        /\ pc'[s] # "scan"
        /\ \A q \in Symbols : q # s => pc'[q] = pc[q] /\ todo'[q] = todo[q]
    BY <1>7 DEF Seed, TypeOK
  <2>3. Advance(s, Newest(s)) \/ UNCHANGED gvVars
    BY <1>7 DEF Seed
  <2>4. \A q \in Symbols : q # s => gv'[q] = gv[q]
    BY <2>1, <2>3, AdvanceRaises DEF gvVars
  <2>. QED BY <1>2, <2>2, <2>4 DEF BacklogOf
<1>8. ASSUME NEW s \in Symbols, StartScan(s) PROVE Backlog'
  <2>. DEFINE backlog(from) == {t \in OwnDeals(s) : t > from}
  <2>1. PICK from \in Guarded(s) :
          /\ Advance(s, from)
          /\ \/ /\ backlog(from) # {}
                /\ todo' = [todo EXCEPT ![s] = backlog(from)]
                /\ pc' = [pc EXCEPT ![s] = "scan"]
             \/ /\ pc' = [pc EXCEPT ![s] = "idle"]
                /\ UNCHANGED todo
    BY <1>8 DEF StartScan
  <2>2. from \in Marks /\ from >= gv[s]
    <3>1. gv[s] \in Int /\ gv[s] \in Marks
      BY ConstantsAssumption DEF TypeOK, Deals, Absent, Marks
    <3>2. CASE from = gv[s]
      BY <3>1, <3>2
    <3>3. CASE from = LastCloseTicket /\ LastCloseTicket > gv[s]
      <4>1. LastCloseTicket \in Int /\ LastCloseTicket \in Marks
        BY LastCloseTicketType, ConstantsAssumption DEF Deals, Marks
      <4>. QED BY <3>1, <3>3, <4>1
    <3>. QED BY <2>1, <3>2, <3>3 DEF Guarded
  <2>3. gv'[s] = from /\ \A q \in Symbols : q # s => gv'[q] = gv[q]
    <3>1. from \in Int /\ gv[s] \in Int
      BY <2>2, ConstantsAssumption DEF TypeOK, Deals, Absent, Marks
    <3>2. gv'[s] = IF from > gv[s] THEN from ELSE gv[s]
      BY <2>1, <2>2, AdvanceRaises
    <3>. QED BY <2>1, <2>2, <3>1, <3>2, AdvanceRaises
  <2>4. UNCHANGED deals
    BY <1>8 DEF StartScan
  <2>5. OwnDeals(s)' = OwnDeals(s)
    BY <2>4 DEF OwnDeals
  <2>6. \A q \in Symbols : q # s => pc'[q] = pc[q] /\ todo'[q] = todo[q]
    BY <2>1 DEF TypeOK
  <2>7. CASE todo'[s] = backlog(from) /\ backlog(from) # {}
    BY <1>2, <2>3, <2>4, <2>5, <2>6, <2>7 DEF BacklogOf
  <2>8. CASE pc'[s] # "scan"
    BY <1>2, <2>3, <2>4, <2>6, <2>8 DEF BacklogOf
  <2>. QED BY <2>1, <2>7, <2>8 DEF TypeOK
<1>9. ASSUME NEW s \in Symbols, ScanAnswered(s) PROVE Backlog'
  <2>. DEFINE t == Min(todo[s])
              rest == todo[s] \ {t}
  <2>1. /\ t \in todo[s] /\ t \in Deals
        /\ \A x \in todo[s] : t <= x
    BY <1>9, BacklogMin DEF ScanAnswered
  <2>2. /\ UNCHANGED deals
        /\ Advance(s, t)
        /\ todo' = [todo EXCEPT ![s] = rest]
        /\ pc' = [pc EXCEPT ![s] = IF rest = {} THEN "idle" ELSE "scan"]
    BY <1>9 DEF ScanAnswered
  <2>3. /\ todo[s] \in SUBSET Deals
        /\ \A x \in todo[s] : x \in OwnDeals(s) /\ x > gv[s]
        /\ \A y \in OwnDeals(s), x \in todo[s] : y > gv[s] /\ y <= x => y \in todo[s]
    BY <1>9 DEF ScanAnswered, Backlog, BacklogOf, TypeOK
  <2>4. OwnDeals(s)' = OwnDeals(s) /\ OwnDeals(s) \in SUBSET Deals
    BY <2>2, OwnDealsAreDeals DEF OwnDeals
  <2>. HIDE DEF t
  <2>5. gv'[s] = t /\ \A q \in Symbols : q # s => gv'[q] = gv[q]
    BY <2>1, <2>2, <2>3, AdvanceRaises DEF Marks
  <2>6. /\ todo'[s] = rest
        /\ pc'[s] = "scan" => rest # {}
        /\ \A q \in Symbols : q # s => pc'[q] = pc[q] /\ todo'[q] = todo[q]
    BY <2>2 DEF TypeOK
  <2>7. \A x \in rest : x \in OwnDeals(s) /\ x > t
    BY <2>1, <2>3, ConstantsAssumption DEF Deals
  <2>8. \A y \in OwnDeals(s), x \in rest : y > t /\ y <= x => y \in rest
    <3>1. gv[s] \in Int /\ t > gv[s] /\ t \in Int /\ OwnDeals(s) \in SUBSET Int
      BY <2>1, <2>3, <2>4, ConstantsAssumption DEF TypeOK, Deals, Absent
    <3>. QED BY <2>3, <3>1
  <2>9. BacklogOf(s)'
    BY <2>4, <2>5, <2>6, <2>7, <2>8 DEF BacklogOf
  <2>. QED BY <1>2, <2>2, <2>5, <2>6, <2>9
<1>10. ASSUME NEW s \in Symbols, ScanFails(s) PROVE Backlog'
  <2>1. /\ UNCHANGED <<deals, gv>>
        /\ pc'[s] # "scan"
        /\ \A q \in Symbols : q # s => pc'[q] = pc[q] /\ todo'[q] = todo[q]
    BY <1>10 DEF ScanFails, TypeOK, gvVars
  <2>. QED BY <1>2, <2>1 DEF BacklogOf
<1>11. ASSUME UNCHANGED deals, \A q \in Symbols : pc'[q] # "scan" PROVE Backlog'
  <2>1. \A q \in Symbols : BacklogOf(q)'
    BY <1>11 DEF BacklogOf
  <2>. QED BY <2>1 DEF Backlog
<1>12. TerminalStops \/ TerminalKilled \/ TerminalStarts => Backlog'
  BY <1>11 DEF TerminalStops, TerminalKilled, TerminalStarts, GoesDown
<1>13. WireDelivers \/ UNCHANGED vars => Backlog'
  BY <1>1 DEF WireDelivers, vars, eaVars, gvVars
<1>. QED
  BY <1>3, <1>4, <1>5, <1>6, <1>7, <1>8, <1>9, <1>10, <1>12, <1>13 DEF Next

\* Every step of the code keeps it, failures, losses and restarts included.
THEOREM InvStep == Inv /\ [Next]_vars => Inv'
BY TypeStep, MarkStep, BacklogStep DEF Inv

\* So it holds in every reachable state.
THEOREM InvHolds == Spec => []Inv
BY InvInit, InvStep, PTL DEF Spec

-----------------------------------------------------------------------------
(* The theorems                                                            *)

\* Every reachable state has its types: in particular only tickets of deals that
\* may exist are ever watermarked, queued or posted (OnTradeEvent, Reconciler).
THEOREM TypeCorrect == Spec => []TypeOK
<1>1. Inv => TypeOK
  BY DEF Inv
<1>. QED BY <1>1, InvHolds, PTL

\* A watermark never moves back, whatever stops or kills the terminal
\* (AdvanceReconWatermark flushes each advance).
THEOREM Durable == Spec => WatermarkDurable
<1>1. Inv /\ [Next]_vars => [\A s \in Symbols : gv'[s] >= gv[s]]_vars
  BY MarkStep DEF Raised
<1>. QED BY <1>1, InvHolds, PTL DEF Spec, WatermarkDurable

\* A scan that moves its chart's watermark has just recorded the one own deal
\* between the old and the new watermark (ReconcileOfflineCloses).
LEMMA ScanStep ==
  ASSUME Inv, [Next]_vars, NEW s \in Symbols, pc[s] = "scan", gv'[s] # gv[s],
         NEW t \in OwnDeals(s), gv[s] < t, t <= gv'[s]
  PROVE  reported'[t] > 0
<1>. DEFINE m    == Min(todo[s])
            post == [ticket |-> m, legs |-> {m}]
<1>. USE DEF Inv
<1>1. Advance(s, m) /\ Record(post)
  BY MarkStep DEF Raised, ScanAnswered, PostAnswered
<1>2. m \in todo[s] /\ m \in Deals /\ \A x \in todo[s] : m <= x
  BY BacklogMin
<1>3. todo[s] \in SUBSET Deals /\ (t <= m => t \in todo[s])
  BY <1>2 DEF Backlog, BacklogOf, TypeOK
<1>. HIDE DEF m
<1>4. gv'[s] = m
  BY <1>1, <1>2, AdvanceRaises DEF Marks
<1>5. t = m
  <2>1. t \in Int /\ m \in Int
    BY <1>2, OwnDealsAreDeals, ConstantsAssumption DEF Deals
  <2>. QED BY <1>2, <1>3, <1>4, <2>1
<1>6. reported[m] \in Nat /\ post.ticket = m /\ m # 0
  BY <1>2, ConstantsAssumption DEF TypeOK, Deals
<1>7. reported'[m] > 0
  BY <1>1, <1>2, <1>6 DEF Record, TypeOK
<1>. QED BY <1>5, <1>7

\* A scan never moves its chart's watermark past an own deal that is not on record:
\* ReconcileOfflineCloses posts in the order of tickets and stops at a failure.
THEOREM InOrder == Spec => ScanInOrder
<1>1. Inv /\ [Next]_vars =>
        [\A s \in Symbols : pc[s] = "scan" /\ gv'[s] # gv[s] =>
           \A t \in OwnDeals(s) : gv[s] < t /\ t <= gv'[s] => reported'[t] > 0]_vars
  BY ScanStep
<1>. QED BY <1>1, InvHolds, PTL DEF Spec, ScanInOrder

\* What the service records of a post: a ticket at most once.
LEMMA RecordOnce ==
  ASSUME TypeOK, NoDuplicateTicket, NEW post, Record(post)
  PROVE  NoDuplicateTicket'
<1>1. \A t \in Deals : reported[t] \in Nat /\ reported[t] <= 1
  BY DEF TypeOK, NoDuplicateTicket
<1>2. CASE reported' = reported
  BY <1>2 DEF NoDuplicateTicket
<1>3. CASE /\ reported' = [reported EXCEPT ![post.ticket] = @ + 1]
           /\ ~ (reported[post.ticket] > 0)
  BY <1>1, <1>3 DEF NoDuplicateTicket, TypeOK
<1>. QED BY <1>2, <1>3 DEF Record

LEMMA OnceStep ==
  ASSUME TypeOK, NoDuplicateTicket, [Next]_vars
  PROVE  NoDuplicateTicket'
<1>1. ASSUME reported' = reported PROVE NoDuplicateTicket'
  BY <1>1 DEF NoDuplicateTicket
<1>2. ASSUME NEW post, PostAnswered(post) \/ PostUnanswered(post) PROVE NoDuplicateTicket'
  BY <1>1, <1>2, RecordOnce DEF PostAnswered, PostUnanswered, serviceVars
<1>3. ASSUME NEW s \in Symbols, NEW n \in 1..2, CloseBasket(s, n) PROVE NoDuplicateTicket'
  BY <1>2, <1>3 DEF CloseBasket
<1>4. ASSUME NEW s \in Symbols, LiveReport(s) PROVE NoDuplicateTicket'
  BY <1>2, <1>4 DEF LiveReport
<1>5. ASSUME NEW s \in Symbols, ScanAnswered(s) \/ ScanFails(s) PROVE NoDuplicateTicket'
  BY <1>2, <1>5 DEF ScanAnswered, ScanFails
<1>6. ASSUME WireDelivers PROVE NoDuplicateTicket'
  BY <1>1, <1>6, RecordOnce DEF WireDelivers
<1>7. ASSUME NEW s \in Symbols, AdvancePastBasket(s) \/ Seed(s) \/ StartScan(s)
      PROVE  NoDuplicateTicket'
  BY <1>1, <1>7 DEF AdvancePastBasket, Seed, StartScan, serviceVars
<1>8. ASSUME NEW s \in Symbols, NEW live \in BOOLEAN, DealHappens(s, live)
      PROVE  NoDuplicateTicket'
  BY <1>1, <1>8 DEF DealHappens, serviceVars
<1>9. TerminalStops \/ TerminalKilled \/ TerminalStarts \/ UNCHANGED vars => NoDuplicateTicket'
  BY <1>1 DEF TerminalStops, TerminalKilled, TerminalStarts, GoesDown, serviceVars, vars
<1>. QED BY <1>3, <1>4, <1>5, <1>6, <1>7, <1>8, <1>9 DEF Next

\* No ticket is ever on record twice (/trade-event drops a known ticket).
THEOREM NoDuplicate == Spec => []NoDuplicateTicket
<1>1. Init => NoDuplicateTicket
  BY DEF Init, NoDuplicateTicket
<1>2. TypeOK /\ NoDuplicateTicket /\ [Next]_vars => NoDuplicateTicket'
  BY OnceStep
<1>. QED BY <1>1, <1>2, TypeCorrect, PTL DEF Spec

-----------------------------------------------------------------------------
(* A basket's legs are not reported again                                  *)

Queued(s, t) == \E i \in 1..Len(queue[s]) : queue[s][i] = t

\* A deal that nobody will report again: nothing that is under way carries its
\* ticket, and its chart's watermark has passed it or is about to.
Settled(t) ==
  /\ t <= Len(deals) /\ reported[t] = 0
  /\ \A s \in Symbols : ~Queued(s, t)
  /\ \A post \in wire : post.ticket # t
  /\ LET s == deals[t] IN gv[s] >= t \/ (pc[s] = "aggregate" /\ t \in todo[s])

\* The legs of an aggregate close that was answered are settled; what is under
\* way is about deals there are, or about legs whose close was not answered.
Baskets ==
  /\ \A t \in covered \ unsure : Settled(t)
  /\ \A post \in wire : IF post.ticket = 0 THEN post.legs \subseteq unsure
                                           ELSE post.ticket <= Len(deals)
  /\ \A s \in Symbols, t \in Deals : Queued(s, t) => t <= Len(deals)
  /\ \A t \in Deals : reported[t] > 0 => t <= Len(deals)

\* What a post does that carries a ticket, answered or not.
LEMMA TicketPost ==
  ASSUME TypeOK, NEW x \in Deals, NEW post \in Post, post.ticket = x,
         PostAnswered(post) \/ PostUnanswered(post)
  PROVE  /\ covered' = covered
         /\ \A t \in Deals : reported'[t] > 0 => reported[t] > 0 \/ t = x
         /\ wire' \subseteq wire \cup {post}
<1>1. x # 0
  BY DEF Deals
<1>2. \/ Record(post) /\ wire' = wire
      \/ wire' = wire \cup {post} /\ UNCHANGED <<reported, covered>>
      \/ UNCHANGED serviceVars
  BY DEF PostAnswered, PostUnanswered
<1>3. ASSUME Record(post)
      PROVE  covered' = covered /\ \A t \in Deals : t # x => reported'[t] = reported[t]
  BY <1>1, <1>3 DEF Record, TypeOK
<1>. QED BY <1>2, <1>3 DEF serviceVars

\* What a post does that carries no ticket and is not answered.
LEMMA LegsPost ==
  ASSUME TypeOK, NEW post \in Post, post.ticket = 0, PostUnanswered(post)
  PROVE  /\ reported' = reported
         /\ covered' \subseteq covered \cup post.legs
         /\ wire' \subseteq wire \cup {post}
BY DEF PostUnanswered, Record, serviceVars

LEMMA OwnBelowNewest ==
  ASSUME TypeOK, NEW s \in Symbols, NEW t \in OwnDeals(s)
  PROVE  t <= Newest(s)
<1>1. OwnDeals(s) \in SUBSET Nat
  BY OwnDealsAreDeals DEF Deals
<1>2. \A x \in OwnDeals(s) : x <= MaxDeals
  BY OwnDealsAreDeals, ConstantsAssumption DEF Deals
<1>3. OwnDeals(s) # {} /\ OwnDeals(s) \in SUBSET (0..MaxDeals)
  BY <1>1, <1>2, ConstantsAssumption
<1>4. t <= Max(OwnDeals(s))
  BY <1>3, MaxOfNaturals, ConstantsAssumption
<1>. QED BY <1>3, <1>4 DEF Newest

\* Every step but an answered aggregate close: a ticket that becomes recorded or
\* comes under way belongs to no settled leg, or it is a new deal's.
LEMMA BasketsKept ==
  ASSUME Inv, Inv', Baskets,
         NEW more \in Seq(Symbols), deals' = deals \o more,
         covered' \ unsure' \subseteq covered \ unsure, unsure \subseteq unsure',
         NEW x, x \in Deals => x <= Len(deals) /\ x \notin covered \ unsure,
         \A t \in Deals : reported'[t] > 0 => reported[t] > 0 \/ t = x,
         \A post \in wire' : \/ post \in wire
                             \/ post.ticket = x /\ post.ticket # 0
                             \/ post.ticket = 0 /\ post.legs \subseteq unsure',
         \A s \in Symbols, t \in Deals :
            Queued(s, t)' => Queued(s, t) \/ (t > Len(deals) /\ t <= Len(deals')),
         \A s \in Symbols :
            /\ gv'[s] >= gv[s]
            /\ pc[s] = "aggregate" =>
                 \/ pc'[s] = "aggregate" /\ todo'[s] = todo[s]
                 \/ gv'[s] >= Newest(s)
                 \/ todo[s] \subseteq unsure'
  PROVE  Baskets'
<1>. USE DEF Inv
<1>a. /\ Len(deals) \in Nat /\ Len(deals') \in Nat /\ Len(deals) <= Len(deals')
      /\ \A t \in 1..Len(deals) : deals'[t] = deals[t] /\ deals[t] \in Symbols
  BY ConcatProperties, LenProperties, ElementOfSeq DEF TypeOK
<1>b. \A s \in Symbols : gv[s] \in Int /\ gv'[s] \in Int
  BY ConstantsAssumption DEF TypeOK, Deals, Absent
<1>c. /\ covered \subseteq Deals /\ reported' \in [Deals -> Nat] /\ wire \subseteq Post /\ wire' \subseteq Post
      /\ \A t \in Deals : t \in Nat \ {0}
  BY DEF TypeOK, Deals
<1>1. ASSUME NEW t \in covered' \ unsure' PROVE Settled(t)'
  <2>1. t \in covered \ unsure /\ t \in Deals /\ t \in Nat \ {0} /\ t \notin unsure'
    BY <1>c
  <2>2. Settled(t)
    BY <2>1 DEF Baskets
  <2>3. t # x
    BY <2>1
  <2>4. t <= Len(deals') /\ reported'[t] = 0
    BY <1>a, <1>c, <2>1, <2>2, <2>3 DEF Settled
  <2>5. \A s \in Symbols : ~Queued(s, t)'
    BY <1>a, <2>1, <2>2 DEF Settled
  <2>6. \A post \in wire' : post.ticket # t
    BY <2>1, <2>2, <2>3 DEF Settled
  <2>. DEFINE s == deals[t]
  <2>7. t \in 1..Len(deals) /\ s \in Symbols /\ deals'[t] = s
    BY <1>a, <2>1, <2>2 DEF Settled
  <2>8. t \in OwnDeals(s)
    BY <2>7 DEF OwnDeals
  <2>9. gv[s] >= t \/ (pc[s] = "aggregate" /\ t \in todo[s])
    BY <2>2 DEF Settled
  <2>10. t <= Newest(s) /\ Newest(s) \in Int
    BY <2>7, <2>8, OwnBelowNewest, NewestType, ConstantsAssumption DEF Deals
  <2>. HIDE DEF s
  <2>11. gv'[s] >= t \/ (pc'[s] = "aggregate" /\ t \in todo'[s])
    <3>1. CASE gv[s] >= t
      BY <1>b, <2>1, <2>7, <3>1
    <3>2. CASE pc[s] = "aggregate" /\ t \in todo[s]
      BY <1>b, <2>1, <2>7, <2>10, <3>2
    <3>. QED BY <2>9, <3>1, <3>2
  <2>. QED BY <2>4, <2>5, <2>6, <2>7, <2>11 DEF Settled
<1>2. ASSUME NEW post \in wire'
      PROVE  IF post.ticket = 0 THEN post.legs \subseteq unsure' ELSE post.ticket <= Len(deals')
  <2>1. post.ticket = 0 \/ post.ticket \in Deals
    BY <1>c DEF Post
  <2>2. CASE post \in wire
    BY <1>a, <1>c, <2>1, <2>2 DEF Baskets
  <2>3. CASE post.ticket = x /\ post.ticket # 0
    BY <1>a, <1>c, <2>1, <2>3
  <2>4. CASE post.ticket = 0 /\ post.legs \subseteq unsure'
    BY <2>4
  <2>. QED BY <2>2, <2>3, <2>4
<1>3. \A s \in Symbols, t \in Deals : Queued(s, t)' => t <= Len(deals')
  BY <1>a, <1>c DEF Baskets
<1>4. \A t \in Deals : reported'[t] > 0 => t <= Len(deals')
  BY <1>a, <1>c DEF Baskets
<1>. QED BY <1>1, <1>2, <1>3, <1>4 DEF Baskets

\* No EA runs while the terminal does not.
OffWhenDown == ~up => \A s \in Symbols : pc[s] = "off"

LEMMA OffStep ==
  ASSUME TypeOK, OffWhenDown, [Next]_vars
  PROVE  OffWhenDown'
<1>1. ASSUME NEW s \in Symbols, pc[s] # "off", up' = up PROVE OffWhenDown'
  BY <1>1 DEF OffWhenDown
<1>2. ASSUME UNCHANGED <<up, pc>> PROVE OffWhenDown'
  BY <1>2 DEF OffWhenDown
<1>3. ASSUME NEW s \in Symbols, NEW live \in BOOLEAN, DealHappens(s, live) PROVE OffWhenDown'
  BY <1>2, <1>3 DEF DealHappens
<1>4. ASSUME NEW s \in Symbols, NEW n \in 1..2, CloseBasket(s, n) PROVE OffWhenDown'
  BY <1>1, <1>4 DEF CloseBasket
<1>5. ASSUME NEW s \in Symbols,
             \/ LiveReport(s) \/ AdvancePastBasket(s) \/ Seed(s)
             \/ StartScan(s) \/ ScanAnswered(s) \/ ScanFails(s)
      PROVE  OffWhenDown'
  BY <1>1, <1>5 DEF LiveReport, AdvancePastBasket, Seed, StartScan, ScanAnswered, ScanFails
<1>6. WireDelivers => OffWhenDown'
  BY <1>2 DEF WireDelivers, eaVars
<1>7. TerminalStops \/ TerminalKilled \/ TerminalStarts => OffWhenDown'
  BY DEF TerminalStops, TerminalKilled, TerminalStarts, GoesDown, OffWhenDown
<1>8. UNCHANGED vars => OffWhenDown'
  BY <1>2 DEF vars, eaVars
<1>. QED BY <1>3, <1>4, <1>5, <1>6, <1>7, <1>8 DEF Next

LEMMA BasketsStep ==
  ASSUME Inv, Inv', OffWhenDown, Baskets, [Next]_vars
  PROVE  Baskets'
<1>. USE DEF Inv
<1>a. Raised
  BY MarkStep
<1>b. deals' = deals => <<>> \in Seq(Symbols) /\ deals' = deals \o <<>>
  BY EmptySeq, ConcatEmptySeq DEF TypeOK
<1>c. Len(deals) \in Nat /\ deals \in Seq(Symbols) /\ \A t \in Deals : t \in Nat \ {0}
  BY LenProperties DEF TypeOK, Deals
<1>d. \A s \in Symbols : gv[s] \in Int /\ gv'[s] \in Int
  BY ConstantsAssumption DEF TypeOK, Deals, Absent
\* Nothing is posted, queued or closed.
<1>1. ASSUME UNCHANGED <<deals, reported, covered, wire>>, unsure \subseteq unsure',
             \A s \in Symbols, t \in Deals : Queued(s, t)' => Queued(s, t),
             \A s \in Symbols : pc[s] = "aggregate" =>
                 \/ pc'[s] = "aggregate" /\ todo'[s] = todo[s]
                 \/ gv'[s] >= Newest(s)
                 \/ todo[s] \subseteq unsure'
      PROVE  Baskets'
  <2>1. 0 \notin Deals
    BY DEF Deals
  <2>. QED BY <1>a, <1>b, <1>1, <2>1, BasketsKept DEF Raised
\* A post with a ticket that belongs to no settled leg.
<1>2. ASSUME NEW s \in Symbols, NEW x \in Deals, x <= Len(deals), x \notin covered \ unsure,
             LET post == [ticket |-> x, legs |-> {x}]
             IN  PostAnswered(post) \/ PostUnanswered(post),
             UNCHANGED deals, unsure \subseteq unsure',
             \A q \in Symbols, t \in Deals : Queued(q, t)' => Queued(q, t),
             \A q \in Symbols : pc[q] = "aggregate" => pc'[q] = "aggregate" /\ todo'[q] = todo[q]
      PROVE  Baskets'
  <2>. DEFINE post == [ticket |-> x, legs |-> {x}]
  <2>1. post \in Post /\ post.ticket = x /\ x # 0
    BY <1>c DEF Post
  <2>2. PostAnswered(post) \/ PostUnanswered(post)
    BY <1>2
  <2>. HIDE DEF post
  <2>3. /\ covered' = covered
        /\ \A t \in Deals : reported'[t] > 0 => reported[t] > 0 \/ t = x
        /\ wire' \subseteq wire \cup {post}
    BY <2>1, <2>2, TicketPost
  <2>4. \A p \in wire' : p \in wire \/ (p.ticket = x /\ p.ticket # 0)
    BY <2>1, <2>3
  <2>5. \A q \in Symbols :
           /\ gv'[q] >= gv[q]
           /\ pc[q] = "aggregate" => pc'[q] = "aggregate" /\ todo'[q] = todo[q]
    BY <1>a, <1>2 DEF Raised
  <2>6. /\ <<>> \in Seq(Symbols) /\ deals' = deals \o <<>>
        /\ covered' \ unsure' \subseteq covered \ unsure /\ unsure \subseteq unsure'
    BY <1>b, <1>2, <2>3
  <2>. QED BY <1>2, <2>3, <2>4, <2>5, <2>6, BasketsKept
<1>3. ASSUME NEW s \in Symbols, NEW live \in BOOLEAN, DealHappens(s, live) PROVE Baskets'
  <2>1. /\ deals' = deals \o <<s>> /\ <<s>> \in Seq(Symbols) /\ Len(deals') = Len(deals) + 1
        /\ UNCHANGED <<reported, covered, wire, unsure, pc, todo>>
        /\ queue' = queue \/ queue' = [queue EXCEPT ![s] = Append(@, Len(deals) + 1)]
    BY <1>3, <1>c, AppendIsConcat DEF DealHappens, serviceVars
  <2>2. ASSUME NEW q \in Symbols, NEW t \in Deals, Queued(q, t)'
        PROVE  Queued(q, t) \/ t = Len(deals) + 1
    <3>1. CASE queue'[q] = queue[q]
      BY <2>2, <3>1 DEF Queued
    <3>2. CASE queue'[q] = Append(queue[q], Len(deals) + 1)
      <4>1. queue[q] \in Seq(Deals)
        BY DEF TypeOK
      <4>2. PICK i \in 1..Len(queue'[q]) : queue'[q][i] = t
        BY <2>2 DEF Queued
      <4>. DEFINE z == queue[q]
      <4>3. z \in Seq(Deals) /\ i \in 1..Len(Append(z, Len(deals) + 1)) /\ Append(z, Len(deals) + 1)[i] = t
        BY <3>2, <4>1, <4>2
      <4>. HIDE DEF z
      <4>4. (i \in 1..Len(z) /\ z[i] = t) \/ t = Len(deals) + 1
        BY <4>3
      <4>. QED BY <4>4 DEF Queued, z
    <3>. QED BY <2>1, <3>1, <3>2 DEF TypeOK
  <2>3. 0 \notin Deals
    BY DEF Deals
  <2>4. \A q \in Symbols, t \in Deals :
           Queued(q, t)' => Queued(q, t) \/ (t > Len(deals) /\ t <= Len(deals'))
    BY <1>c, <2>1, <2>2
  <2>. QED BY <1>a, <2>1, <2>3, <2>4, BasketsKept DEF Raised
<1>4. ASSUME NEW s \in Symbols, NEW n \in 1..2, CloseBasket(s, n) PROVE Baskets'
  <2>. DEFINE legs == (Len(deals) + 1)..(Len(deals) + n)
              post == [ticket |-> 0, legs |-> legs]
              more == [i \in 1..n |-> s]
  <2>1. /\ more \in Seq(Symbols) /\ Len(more) = n /\ deals' = deals \o more
        /\ legs \in SUBSET Deals /\ post \in Post
    <3>1. legs \in SUBSET Deals
      BY <1>4, <1>c, ConstantsAssumption DEF CloseBasket, Deals
    <3>2. post \in Post
      BY <3>1 DEF Post
    <3>3. more \in Seq(Symbols) /\ Len(more) = n
      OBVIOUS
    <3>. HIDE DEF legs, post
    <3>. QED BY <1>4, <3>1, <3>2, <3>3 DEF CloseBasket
  <2>2. Len(deals') = Len(deals) + n /\ \A t \in legs : deals'[t] = s
    <3>1. \A t \in legs : t - Len(deals) \in 1..n /\ t > Len(deals) /\ t <= Len(deals) + n
      BY <1>c
    <3>. HIDE DEF legs
    <3>2. \A t \in legs : more[t - Len(deals)] = s
      BY <3>1
    <3>. HIDE DEF more
    <3>. QED BY <1>c, <2>1, <3>1, <3>2, ConcatProperties
  <2>3. \A t \in legs : t \in Deals /\ t > Len(deals) /\ t <= Len(deals')
    BY <1>c, <2>1, <2>2
  <2>4. UNCHANGED <<queue, gv>> /\ pc[s] = "idle"
    BY <1>4 DEF CloseBasket, gvVars
  <2>5. post.ticket = 0 /\ post.legs = legs /\ 0 \notin Deals
    BY DEF Deals
  <2>6. \/ /\ PostAnswered(post) /\ unsure' = unsure
           /\ pc' = [pc EXCEPT ![s] = "aggregate"] /\ todo' = [todo EXCEPT ![s] = legs]
        \/ /\ PostUnanswered(post) /\ unsure' = unsure \cup legs
           /\ UNCHANGED <<pc, todo>>
    BY <1>4 DEF CloseBasket
  <2>. HIDE DEF legs, post, more
  <2>7. CASE /\ PostUnanswered(post) /\ unsure' = unsure \cup legs
             /\ UNCHANGED <<pc, todo>>
    <3>1. reported' = reported /\ covered' \subseteq covered \cup legs /\ wire' \subseteq wire \cup {post}
      BY <2>1, <2>5, <2>7, LegsPost
    <3>2. \A q \in Symbols, t \in Deals : Queued(q, t)' => Queued(q, t)
      BY <2>4 DEF Queued
    <3>. QED BY <1>a, <2>1, <2>5, <2>7, <3>1, <3>2, BasketsKept DEF Raised
  <2>8. CASE /\ PostAnswered(post) /\ unsure' = unsure
             /\ pc' = [pc EXCEPT ![s] = "aggregate"] /\ todo' = [todo EXCEPT ![s] = legs]
    <3>1. covered' = covered \cup legs /\ reported' = reported /\ wire' = wire
      BY <2>5, <2>8 DEF PostAnswered, Record
    <3>2. \A t \in 1..Len(deals) : deals'[t] = deals[t] /\ deals[t] \in Symbols
      BY <1>c, <2>1, ConcatProperties, ElementOfSeq
    <3>3. \A q \in Symbols, t \in Deals : Queued(q, t)' <=> Queued(q, t)
      BY <2>4 DEF Queued
    <3>4. /\ pc'[s] = "aggregate" /\ todo'[s] = legs
          /\ \A q \in Symbols : q # s => pc'[q] = pc[q] /\ todo'[q] = todo[q]
      BY <2>8 DEF TypeOK
    <3>5. ASSUME NEW t \in covered \ unsure PROVE Settled(t)'
      <4>1. Settled(t) /\ t \in Deals
        BY DEF Baskets, TypeOK
      <4>2. t <= Len(deals') /\ t \in 1..Len(deals)
        BY <1>c, <2>2, <4>1 DEF Settled
      <4>. QED BY <2>4, <3>1, <3>2, <3>3, <3>4, <4>1, <4>2 DEF Settled
    <3>6. ASSUME NEW t \in legs PROVE Settled(t)'
      <4>1. t \in Deals /\ t <= Len(deals') /\ t > Len(deals) /\ deals'[t] = s
        BY <2>2, <2>3
      <4>2. reported'[t] = 0
        <5>1. ~ (t <= Len(deals)) /\ reported[t] \in Nat
          BY <1>c, <4>1 DEF TypeOK
        <5>2. ~ (reported[t] > 0)
          BY <4>1, <5>1 DEF Baskets
        <5>. QED BY <3>1, <5>1, <5>2
      <4>3. \A q \in Symbols : ~Queued(q, t)'
        BY <1>c, <3>3, <4>1 DEF Baskets
      <4>4. \A p \in wire' : p.ticket # t
        BY <1>c, <2>5, <3>1, <4>1 DEF Baskets
      <4>. QED BY <3>4, <4>1, <4>2, <4>3, <4>4 DEF Settled
    <3>7. Len(deals) <= Len(deals') /\ Len(deals') \in Nat
      BY <1>c, <2>2
    <3>8. \A p \in wire' : IF p.ticket = 0 THEN p.legs \subseteq unsure' ELSE p.ticket <= Len(deals')
      <4>1. \A p \in wire : p.ticket = 0 \/ p.ticket \in Nat
        BY <1>c DEF TypeOK, Post
      <4>. QED BY <1>c, <2>8, <3>1, <3>7, <4>1 DEF Baskets
    <3>9. \A q \in Symbols, t \in Deals : Queued(q, t)' => t <= Len(deals')
      BY <1>c, <3>3, <3>7 DEF Baskets
    <3>10. \A t \in Deals : reported'[t] > 0 => t <= Len(deals')
      BY <1>c, <3>1, <3>7 DEF Baskets
    <3>. QED BY <2>8, <3>1, <3>5, <3>6, <3>8, <3>9, <3>10 DEF Baskets
  <2>. QED BY <2>6, <2>7, <2>8
<1>5. ASSUME NEW s \in Symbols, LiveReport(s) PROVE Baskets'
  <2>. DEFINE z == queue[s]
              x == Head(z)
  <2>1. /\ z \in Seq(Deals) /\ z # <<>> /\ queue' = [queue EXCEPT ![s] = Tail(z)]
        /\ UNCHANGED <<deals, pc, todo>> /\ unsure \subseteq unsure'
    BY <1>5 DEF LiveReport, TypeOK
  <2>2. x = z[1] /\ 1 \in 1..Len(z) /\ x \in Deals
    BY <2>1, HeadTailProperties
  <2>3. Queued(s, x)
    BY <2>2 DEF Queued
  <2>4. LET post == [ticket |-> x, legs |-> {x}] IN PostAnswered(post) \/ PostUnanswered(post)
    BY <1>5 DEF LiveReport
  <2>. HIDE DEF x
  <2>5. x <= Len(deals) /\ x \notin covered \ unsure
    BY <2>2, <2>3 DEF Baskets, Settled
  <2>6. ASSUME NEW q \in Symbols, NEW t \in Deals, Queued(q, t)' PROVE Queued(q, t)
    <3>1. CASE q # s
      BY <2>1, <2>6, <3>1 DEF Queued, TypeOK
    <3>2. CASE q = s
      <4>1. queue'[q] = Tail(z)
        BY <2>1, <3>2 DEF TypeOK
      <4>2. PICK i \in 1..Len(Tail(z)) : Tail(z)[i] = t
        BY <2>6, <4>1 DEF Queued
      <4>. HIDE DEF z
      <4>3. i + 1 \in 1..Len(z) /\ z[i + 1] = t
        BY <2>1, <4>2
      <4>. QED BY <3>2, <4>3 DEF Queued, z
    <3>. QED BY <3>1, <3>2
  <2>. QED BY <1>2, <2>1, <2>2, <2>4, <2>5, <2>6
<1>6. ASSUME NEW s \in Symbols, AdvancePastBasket(s) PROVE Baskets'
  <2>1. /\ UNCHANGED <<deals, queue, reported, covered, wire>>
        /\ \A q \in Symbols : q # s => pc'[q] = pc[q] /\ todo'[q] = todo[q]
    BY <1>6 DEF AdvancePastBasket, serviceVars, TypeOK
  <2>2. \A q \in Symbols, t \in Deals : Queued(q, t)' => Queued(q, t)
    BY <2>1 DEF Queued
  <2>3. CASE Advance(s, Newest(s)) /\ UNCHANGED unsure
    <3>1. Newest(s) \in Marks /\ Newest(s) \in Int /\ gv[s] \in Int
      BY <1>d, NewestType, ConstantsAssumption DEF Marks, Deals
    <3>2. gv'[s] = IF Newest(s) > gv[s] THEN Newest(s) ELSE gv[s]
      BY <2>3, <3>1, AdvanceRaises
    <3>3. gv'[s] >= Newest(s)
      BY <3>1, <3>2
    <3>. QED BY <1>1, <2>1, <2>2, <2>3, <3>3
  <2>4. CASE unsure' = unsure \cup todo[s]
    BY <1>1, <2>1, <2>2, <2>4
  <2>. QED BY <1>6, <2>3, <2>4 DEF AdvancePastBasket
<1>7. ASSUME NEW s \in Symbols, Seed(s) \/ StartScan(s) PROVE Baskets'
  <2>1. /\ UNCHANGED <<deals, queue, reported, covered, wire, unsure>> /\ pc[s] # "aggregate"
    BY <1>7 DEF Seed, StartScan, serviceVars
  <2>2. \A q \in Symbols : q # s => pc'[q] = pc[q] /\ todo'[q] = todo[q]
    BY <1>7 DEF Seed, StartScan, TypeOK
  <2>3. \A q \in Symbols, t \in Deals : Queued(q, t)' => Queued(q, t)
    BY <2>1 DEF Queued
  <2>. QED BY <1>1, <2>1, <2>2, <2>3
<1>8. ASSUME NEW s \in Symbols, ScanAnswered(s) \/ ScanFails(s) PROVE Baskets'
  <2>. DEFINE x == Min(todo[s])
  <2>1. pc[s] = "scan" /\ UNCHANGED <<deals, queue, unsure>>
    BY <1>8 DEF ScanAnswered, ScanFails
  <2>2. \A q \in Symbols : q # s => pc'[q] = pc[q] /\ todo'[q] = todo[q]
    BY <1>8 DEF ScanAnswered, ScanFails, TypeOK
  <2>3. x \in todo[s] /\ x \in Deals
    BY <2>1, BacklogMin
  <2>4. LET post == [ticket |-> x, legs |-> {x}] IN PostAnswered(post) \/ PostUnanswered(post)
    BY <1>8 DEF ScanAnswered, ScanFails
  <2>. HIDE DEF x
  <2>5. x \in OwnDeals(s) /\ x > gv[s]
    BY <2>1, <2>3 DEF Backlog, BacklogOf
  <2>6. x <= Len(deals) /\ deals[x] = s
    BY <1>c, <2>5 DEF OwnDeals
  <2>7. x \notin covered \ unsure
    BY <1>c, <1>d, <2>1, <2>3, <2>5, <2>6 DEF Baskets, Settled
  <2>8. \A q \in Symbols, t \in Deals : Queued(q, t)' => Queued(q, t)
    BY <2>1 DEF Queued
  <2>. QED BY <1>2, <2>1, <2>2, <2>3, <2>4, <2>6, <2>7, <2>8
<1>9. ASSUME WireDelivers PROVE Baskets'
  <2>1. PICK post \in wire : /\ wire' = wire \ {post}
                             /\ Record(post) \/ UNCHANGED <<reported, covered>>
    BY <1>9 DEF WireDelivers
  <2>2. UNCHANGED <<deals, queue, pc, todo, unsure>>
    BY <1>9 DEF WireDelivers, eaVars
  <2>3. \A q \in Symbols, t \in Deals : Queued(q, t)' => Queued(q, t)
    BY <2>2 DEF Queued
  <2>4. post \in Post /\ 0 \notin Deals
    BY DEF TypeOK, Deals
  <2>5. CASE UNCHANGED <<reported, covered>>
    BY <1>a, <1>b, <2>1, <2>2, <2>3, <2>4, <2>5, BasketsKept DEF Raised
  <2>6. CASE Record(post) /\ post.ticket = 0
    <3>1. reported' = reported /\ covered' \subseteq covered \cup unsure
      BY <2>6 DEF Record, Baskets
    <3>. QED BY <1>a, <1>b, <2>1, <2>2, <2>3, <2>4, <3>1, BasketsKept DEF Raised
  <2>7. CASE Record(post) /\ post.ticket # 0
    <3>. DEFINE x == post.ticket
    <3>1. covered' = covered /\ \A t \in Deals : t # x => reported'[t] = reported[t]
      BY <2>7 DEF Record, TypeOK
    <3>2. x \in Deals /\ x <= Len(deals) /\ x \notin covered \ unsure
      BY <2>4, <2>7 DEF Baskets, Settled, Post
    <3>. HIDE DEF x
    <3>3. \A t \in Deals : reported'[t] > 0 => reported[t] > 0 \/ t = x
      BY <3>1
    <3>. QED BY <1>a, <1>b, <2>1, <2>2, <2>3, <3>1, <3>2, <3>3, BasketsKept DEF Raised
  <2>. QED BY <2>1, <2>5, <2>6, <2>7
<1>10. ASSUME TerminalStops \/ TerminalKilled PROVE Baskets'
  <2>1. /\ queue' = [s \in Symbols |-> <<>>] /\ unsure' = unsure \cup Interrupted
        /\ UNCHANGED <<deals, reported, covered, wire>>
    BY <1>10 DEF TerminalStops, TerminalKilled, GoesDown, serviceVars
  <2>2. \A s \in Symbols, t \in Deals : Queued(s, t)' => Queued(s, t)
    BY <2>1 DEF Queued
  <2>3. \A s \in Symbols : pc[s] = "aggregate" => todo[s] \subseteq Interrupted
    BY DEF Interrupted
  <2>. QED BY <1>1, <2>1, <2>2, <2>3
<1>11. ASSUME TerminalStarts PROVE Baskets'
  <2>1. UNCHANGED <<deals, queue, reported, covered, wire, unsure, todo>>
    BY <1>11 DEF TerminalStarts, serviceVars
  <2>2. \A s \in Symbols : pc[s] # "aggregate"
    BY <1>11 DEF TerminalStarts, OffWhenDown
  <2>. QED BY <1>1, <2>1, <2>2 DEF Queued
<1>12. UNCHANGED vars => Baskets'
  BY <1>1 DEF vars, eaVars, serviceVars, Queued
<1>. QED BY <1>3, <1>4, <1>5, <1>6, <1>7, <1>8, <1>9, <1>10, <1>11, <1>12 DEF Next

\* A basket's close and the closes of its legs are not both on the owner's
\* record, unless the aggregate close was not answered, HistorySelect failed or
\* the terminal went down before the watermark was past the legs (UiSink).
THEOREM ReportedOnce == Spec => []BasketReportedOnce
<1>1. Init => Baskets
  BY DEF Init, Baskets, Queued
<1>2. Baskets => BasketReportedOnce
  BY DEF Baskets, Settled, BasketReportedOnce
<1>3. Inv /\ Inv' /\ OffWhenDown /\ Baskets /\ [Next]_vars => Baskets'
  BY BasketsStep
<1>4. Init => OffWhenDown
  BY DEF Init, OffWhenDown
<1>5. Inv /\ OffWhenDown /\ [Next]_vars => OffWhenDown'
  BY OffStep DEF Inv
<1>. QED BY <1>1, <1>2, <1>3, <1>4, <1>5, InvHolds, PTL DEF Spec
=============================================================================
