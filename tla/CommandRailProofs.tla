-------------------------- MODULE CommandRailProofs --------------------------
(***************************************************************************)
(* Proofs about CommandRail, for any charts, taps, signals and bounds:     *)
(* types, no command carried out twice or by another chart's EA, and an    *)
(* "executed" that is true.                                                *)
(***************************************************************************)
EXTENDS CommandRail, NatLemmas

\* The slots whose tap passed its guard and has yet to create its row.
Guarded == {w \in Slots : task[w].pc = "guarded"}

\* Every such slot has a row id left.
Room == lastPid + Cardinality(Guarded) <= MaxProposals

\* Rows are created in the order of their ids.
Unborn == \A p \in Pids : p > lastPid => status[p] = "none"

\* The statuses of a row no EA has been given.
Untouched == {"none", "pending", "approved", "skipped", "expired"}

Carries(s, p) == reply[s] # NoReply /\ reply[s].pid = p

\* A row no EA has been given is on no wire and was not carried out.
Unhanded ==
  \A p \in Pids : status[p] \in Untouched =>
    effect[p].runs = 0 /\ \A s \in Symbols : ~Carries(s, p)

\* The verb an EA is told fits the kind of the row: an entry, a stop move and a
\* brake reset are handed over as what they are, every other row as a close.
Fits(c, r) ==
  /\ c.target = r.lane
  /\ c.verb = "execute" <=> r.kind = "entry"
  /\ c.verb = "move_sl" <=> r.kind = "move_sl"
  /\ c.verb = "reset_brake" <=> r.kind = "reset_brake"
  /\ c.dir = r.dir

\* A row popped for a heartbeat, or carried by its response, was not carried
\* out, no other heartbeat has it, and the command fits the row.
OnTheWay ==
  \A s \in Symbols, p \in Pids : Carries(s, p) =>
    /\ effect[p].runs = 0
    /\ reply[s] \in Command => Fits(reply[s], row[p])
    /\ \A q \in Symbols : Carries(q, p) => q = s

\* A result on its way tells the truth about a row that was carried out.
Reported ==
  \A r \in results : effect[r.pid].runs = 1 /\ (r.ok => Kept(r.pid))

\* What the owner reads, and where the command ran.
Done ==
  \A p \in Pids :
    /\ effect[p].runs <= 1
    /\ status[p] = "executed" => effect[p].runs = 1 /\ Kept(p)
    /\ effect[p].runs > 0 => row[p].lane \in {AnyEa, effect[p].at}

Delivery == Unhanded /\ OnTheWay /\ Reported /\ Done

\* The inductive invariant.
Inv == TypeOK /\ Room /\ Unborn /\ Delivery

-----------------------------------------------------------------------------
(* What the operators return                                               *)

LEMMA RepliesDiffer ==
  /\ \A c \in Command : c # NoReply /\ c \notin Popped /\ c.verb # "popped"
  /\ \A c \in Popped : c # NoReply /\ c.verb = "popped"
  /\ "popped" \notin Verbs
BY DEF Command, NoReply, Verbs, Popped

LEMMA CompareAndSetType ==
  ASSUME TypeOK, NEW p, NEW expected, NEW to \in Statuses, CompareAndSet(p, expected, to)
  PROVE  /\ status' \in [Pids -> Statuses]
         /\ age' \in [Pids -> Nat]
         /\ \A q \in Pids : status'[q] # status[q] => status[q] = expected /\ status'[q] = to
BY DEF TypeOK, CompareAndSet

LEMMA CreateType ==
  ASSUME TypeOK, lastPid < MaxProposals, NEW r \in Row, NEW w \in Wish, Create(r, w)
  PROVE  /\ lastPid' \in 1..MaxProposals /\ lastPid' = lastPid + 1
         /\ status' \in [Pids -> Statuses]
         /\ row' \in [Pids -> Row]
         /\ wish' \in [Pids -> Wish]
         /\ status' = [status EXCEPT ![lastPid'] = "pending"]
         /\ \A q \in Pids : q # lastPid' => row'[q] = row[q] /\ wish'[q] = wish[q]
<1>1. lastPid' \in 1..MaxProposals /\ lastPid' = lastPid + 1
  BY ConstantsAssumption DEF TypeOK, Create
<1>2. /\ status' = [status EXCEPT ![lastPid'] = "pending"]
      /\ row' = [row EXCEPT ![lastPid'] = r]
      /\ wish' = [wish EXCEPT ![lastPid'] = w]
  BY DEF Create
<1>3. "pending" \in Statuses
  BY DEF Statuses, Live
<1>. QED BY <1>1, <1>2, <1>3 DEF TypeOK

LEMMA AskType ==
  ASSUME NEW k \in Kinds, NEW d \in Dirs, NEW l \in Lanes,
         NEW v \in Verbs \cup {"close_half", "move_sl_be"}, NEW t \in 0..MaxTicket
  PROVE  Ask(k, d, l, v, t).row \in Row /\ Ask(k, d, l, v, t).wish \in Wish
BY DEF Ask, Row, Wish

LEMMA NewestType ==
  ASSUME NEW rows \in SUBSET Pids
  PROVE  Newest(rows) \in 0..MaxProposals
<1>. USE ConstantsAssumption
<1>1. CASE rows = {}
  BY <1>1 DEF Newest
<1>2. CASE rows # {}
  <2>1. rows \in SUBSET (0..MaxProposals)
    BY DEF Pids
  <2>2. Max(rows) \in rows
    BY <1>2, <2>1, MaxOfNaturals
  <2>. QED BY <1>2, <2>1, <2>2 DEF Newest
<1>. QED BY <1>1, <1>2

LEMMA OldestApprovedType ==
  ASSUME NEW st
  PROVE  \/ OldestApproved(st) = 0
         \/ OldestApproved(st) \in Pids /\ st[OldestApproved(st)] = "approved"
<1>. DEFINE approved == {p \in Pids : st[p] = "approved"}
<1>1. CASE approved = {}
  BY <1>1 DEF OldestApproved
<1>2. CASE approved # {}
  <2>1. approved \in SUBSET Nat
    BY DEF Pids
  <2>2. Min(approved) \in approved
    BY <1>2, <2>1, MinOfNaturals
  <2>. QED BY <1>2, <2>2 DEF OldestApproved
<1>. QED BY <1>1, <1>2

\* A sweep settles rows, and makes none less handed over than it was.
LEMMA SweptType ==
  ASSUME TypeOK
  PROVE  /\ Swept \in [Pids -> Statuses]
         /\ \A p \in Pids : /\ Swept[p] \in Untouched => status[p] \in Untouched
                            /\ Swept[p] \in {"approved", "none", "executed"} => status[p] = Swept[p]
                            /\ status[p] = "none" => Swept[p] = "none"
BY DEF TypeOK, Swept, Statuses, Live, Terminal, Untouched

LEMMA CommandType ==
  ASSUME TypeOK, NEW s \in Symbols, NEW p \in Pids
  PROVE  /\ CommandFor(s, p) \in Command
         /\ CommandFor(s, p).pid = p
         /\ Fits(CommandFor(s, p), row[p])
         /\ CommandFor(s, p).verb = "close_ticket" => TicketSource(s, p) \in Symbols
<1>1. row[p] \in Row
  BY DEF TypeOK
<1>2. row[p].dir \in Dirs /\ row[p].lane \in Lanes
  BY <1>1 DEF Row
<1>3. TicketSource(s, p) \in Symbols \cup {AnyEa}
  BY <1>2 DEF TicketSource, Lanes
<1>4. CommandFor(s, p).verb \in Verbs
  BY DEF CommandFor, Verbs
<1>5. CommandFor(s, p).verb = "close_ticket" => TicketSource(s, p) # AnyEa
  BY DEF CommandFor
<1>6. CommandFor(s, p).ticket \in 0..MaxTicket
  <2>1. CASE CommandFor(s, p).verb = "close_ticket"
    BY <1>3, <1>5, <2>1 DEF CommandFor, TypeOK
  <2>2. CASE CommandFor(s, p).verb # "close_ticket"
    BY <2>2, ConstantsAssumption DEF CommandFor
  <2>. QED BY <2>1, <2>2
<1>7. Fits(CommandFor(s, p), row[p])
  BY DEF CommandFor, Fits
<1>. QED BY <1>2, <1>3, <1>4, <1>5, <1>6, <1>7 DEF CommandFor, Command

\* What was done for a row is judged by the row and its effect alone.
LEMMA KeptSame ==
  ASSUME NEW p, effect'[p] = effect[p], row'[p] = row[p], wish'[p] = wish[p]
  PROVE  Kept(p)' <=> Kept(p)
BY DEF Kept, HandedAnother

\* The slots are two, so what they reserve is a number.
LEMMA GuardedFinite == IsFiniteSet(Guarded) /\ Cardinality(Guarded) \in Nat
<1>1. IsFiniteSet({"loop"} \cup {"dash"})
  BY FS_Singleton, FS_Union
<1>2. Guarded \subseteq {"loop"} \cup {"dash"}
  BY DEF Guarded, Slots
<1>. QED BY <1>1, <1>2, FS_Subset, FS_CardinalityType

-----------------------------------------------------------------------------
(* Reserved rows                                                           *)

\* A tap that starts reserves one row; RoomForRow says there is one.
LEMMA ReserveRoom ==
  ASSUME TypeOK, NEW w \in Slots, task[w].pc # "guarded", RoomForRow,
         lastPid' = lastPid, Guarded' = Guarded \cup {w}
  PROVE  Room'
<1>1. w \notin Guarded
  BY DEF Guarded
<1>2. Cardinality(Guarded') = Cardinality(Guarded) + 1
  BY <1>1, GuardedFinite, FS_AddElement
<1>3. lastPid + Cardinality(Guarded) < MaxProposals
  BY DEF RoomForRow, Guarded
<1>. QED BY <1>2, <1>3, GuardedFinite, ConstantsAssumption DEF Room, TypeOK

\* A reservation is spent on the row it was made for.
LEMMA SpendRoom ==
  ASSUME TypeOK, Room, NEW w \in Guarded,
         lastPid' = lastPid + 1, Guarded' = Guarded \ {w}
  PROVE  lastPid < MaxProposals /\ Room'
<1>1. Cardinality(Guarded') = Cardinality(Guarded) - 1
  BY GuardedFinite, FS_RemoveElement
<1>2. Cardinality(Guarded) # 0
  BY GuardedFinite, FS_EmptySet
<1>. QED BY <1>1, <1>2, GuardedFinite, ConstantsAssumption DEF Room, TypeOK

\* Without a tap starting or ending, or a row created, nothing is reserved.
LEMMA SameRoom ==
  ASSUME TypeOK, Room, lastPid' = lastPid, Guarded' = Guarded
  PROVE  Room'
BY DEF Room

-----------------------------------------------------------------------------
(* The steps that hand nothing over and carry nothing out                  *)

\* Delivery survives a step that carries nothing out, may lose responses and
\* results, hands nothing over, calls a row executed only if it was, and
\* rewrites only rows that no EA has been given.
LEMMA DeliveryKept ==
  ASSUME TypeOK, Delivery, effect' = effect, results' \subseteq results,
         \A s \in Symbols : reply'[s] = reply[s] \/ reply'[s] = NoReply,
         \A p \in Pids : status'[p] \in Untouched => status[p] \in Untouched,
         \A p \in Pids : status'[p] = "executed" =>
            status[p] = "executed" \/ (effect[p].runs = 1 /\ Kept(p)),
         \A p \in Pids : (row'[p] = row[p] /\ wish'[p] = wish[p]) \/ status[p] \in Untouched
  PROVE  Delivery'
<1>. USE DEF Delivery
<1>1. \A s \in Symbols, p \in Pids : Carries(s, p)' => Carries(s, p) /\ reply'[s] = reply[s]
  BY DEF Carries
<1>2. Unhanded'
  BY <1>1 DEF Unhanded
<1>3. OnTheWay'
  BY <1>1 DEF OnTheWay, Unhanded
<1>6. \A p \in Pids : effect[p].runs > 0 => row'[p] = row[p] /\ (Kept(p)' <=> Kept(p))
  <2>. SUFFICES ASSUME NEW p \in Pids, effect[p].runs > 0
                PROVE  row'[p] = row[p] /\ (Kept(p)' <=> Kept(p))
    OBVIOUS
  <2>1. row'[p] = row[p] /\ wish'[p] = wish[p]
    BY DEF Unhanded
  <2>. QED BY <2>1, KeptSame
<1>4. Reported'
  <2>. SUFFICES ASSUME NEW r \in results
                PROVE  effect[r.pid].runs = 1 /\ (r.ok => Kept(r.pid)')
    BY DEF Reported
  <2>1. r.pid \in Pids /\ effect[r.pid].runs = 1 /\ (r.ok => Kept(r.pid))
    BY DEF Reported, TypeOK, Result
  <2>. QED BY <1>6, <2>1
<1>5. Done'
  BY <1>6 DEF Done
<1>. QED BY <1>2, <1>3, <1>4, <1>5

\* A step of the clock, the basket, the wire or a restart: rows, what was done
\* and reservations are as before, or reservations are all given up.
LEMMA QuietStep ==
  ASSUME Inv, TypeOK', UNCHANGED <<lastPid, status, row, effect, wish>>,
         Guarded' = Guarded \/ Guarded' = {},
         results' \subseteq results,
         \A s \in Symbols : reply'[s] = reply[s] \/ reply'[s] = NoReply
  PROVE  Inv'
<1>. USE DEF Inv
<1>1. Room'
  <2>1. CASE Guarded' = Guarded
    BY <2>1, SameRoom
  <2>2. CASE Guarded' = {}
    BY <2>2, FS_EmptySet, ConstantsAssumption DEF Room, TypeOK
  <2>. QED BY <2>1, <2>2
<1>2. Unborn'
  BY DEF Unborn
<1>3. Delivery'
  BY DeliveryKept
<1>. QED BY <1>1, <1>2, <1>3

\* A step that decides rows: a compare-and-set on rows that exist.
LEMMA DecideStep ==
  ASSUME Inv, TypeOK', UNCHANGED <<lastPid, row, reply, results, effect, wish>>, Guarded' = Guarded,
         NEW p, NEW expected \in Live, NEW to \in Statuses \ {"none", "executed"},
         expected = "dispatched" => to \notin Untouched,
         CompareAndSet(p, expected, to)
  PROVE  Inv'
<1>. USE DEF Inv
<1>1. \A q \in Pids : status'[q] # status[q] => status[q] = expected /\ status'[q] = to
  BY CompareAndSetType
<1>2. Room'
  BY SameRoom
<1>3. Unborn'
  BY <1>1 DEF Unborn, Live
<1>4. expected # "dispatched" => expected \in Untouched
  BY DEF Live, Untouched
<1>5. Delivery'
  BY <1>1, <1>4, DeliveryKept
<1>. QED BY <1>2, <1>3, <1>5

\* A step that creates a row.
LEMMA CreateStep ==
  ASSUME Inv, TypeOK', lastPid < MaxProposals, Room', NEW r \in Row, NEW w \in Wish,
         Create(r, w), UNCHANGED <<reply, results, effect>>
  PROVE  Inv'
<1>. USE DEF Inv
<1>1. /\ lastPid' = lastPid + 1 /\ lastPid' \in Pids
      /\ status' = [status EXCEPT ![lastPid'] = "pending"]
      /\ \A q \in Pids : q # lastPid' => row'[q] = row[q] /\ wish'[q] = wish[q]
  BY CreateType DEF Pids
<1>2. \A q \in Pids : q # lastPid' => status'[q] = status[q]
  BY <1>1 DEF TypeOK
<1>3. lastPid \in Nat /\ lastPid' > lastPid /\ status'[lastPid'] = "pending"
  BY <1>1, ConstantsAssumption DEF TypeOK
<1>4. status[lastPid'] = "none"
  BY <1>1, <1>3 DEF Unborn
<1>5. Unborn'
  <2>1. \A q \in Pids : q > lastPid' => q # lastPid' /\ q > lastPid
    BY <1>1, <1>3 DEF Pids
  <2>. QED BY <1>2, <2>1 DEF Unborn
<1>6. Delivery'
  <2>1. \A q \in Pids : status'[q] \in Untouched => status[q] \in Untouched
    BY <1>2, <1>4 DEF Untouched
  <2>2. \A q \in Pids : status'[q] = "executed" => status[q] = "executed"
    BY <1>2, <1>3
  <2>3. \A q \in Pids : (row'[q] = row[q] /\ wish'[q] = wish[q]) \/ status[q] \in Untouched
    BY <1>1, <1>4 DEF Untouched
  <2>. QED BY <2>1, <2>2, <2>3, DeliveryKept
<1>. QED BY <1>5, <1>6

-----------------------------------------------------------------------------
(* Taps                                                                    *)

LEMMA StartTaskStep ==
  ASSUME Inv, NEW w \in Slots, NEW a, a.row \in Row, a.wish \in Wish, NEW sym \in Lanes,
         StartTask(w, a, sym)
  PROVE  Inv'
<1>. USE DEF Inv
<1>. DEFINE new == [pc |-> "guarded", row |-> a.row, wish |-> a.wish, sym |-> sym, pid |-> 0]
<1>1. /\ task' = [task EXCEPT ![w] = new]
      /\ task[w].pc = "idle" /\ RoomForRow
      /\ UNCHANGED <<rowVars, hb, lastSym, pendingTicket, study, restarts, eaVars, historyVars>>
  BY DEF StartTask
<1>2. new \in Task
  BY ConstantsAssumption DEF Task
<1>3. TypeOK'
  BY <1>1, <1>2 DEF TypeOK, rowVars, eaVars, historyVars
<1>4. Guarded' = Guarded \cup {w}
  BY <1>1 DEF Guarded, TypeOK
<1>5. Room'
  BY <1>1, <1>4, ReserveRoom DEF rowVars
<1>6. Unborn' /\ Delivery'
  <2>1. UNCHANGED <<lastPid, status, row, reply, results, effect, wish>>
    BY <1>1 DEF rowVars, eaVars, historyVars
  <2>. QED BY <2>1, DeliveryKept DEF Unborn
<1>. QED BY <1>3, <1>5, <1>6

LEMMA TapStep ==
  ASSUME Inv, Taps
  PROVE  Inv'
<1>1. Slots = {"loop", "dash"} /\ 0 \in 0..MaxTicket /\ AnyEa \in Lanes /\ Symbols \subseteq Lanes
  BY ConstantsAssumption DEF Slots, Lanes
<1>2. ASSUME NEW w \in Slots, NEW k \in Kinds, NEW d \in Dirs, NEW l \in Lanes,
             NEW v \in Verbs \cup {"close_half", "move_sl_be"}, NEW t \in 0..MaxTicket,
             NEW sym \in Lanes, StartTask(w, Ask(k, d, l, v, t), sym)
      PROVE  Inv'
  BY <1>2, AskType, StartTaskStep
<1>3. lastSym \in Lanes
  BY DEF Inv, TypeOK
<1>. USE <1>1 DEF Kinds, Dirs, Verbs
<1>4. TapExitNow => Inv'
  BY <1>2 DEF TapExitNow
<1>5. TapManualEntry => Inv'
  BY <1>2 DEF TapManualEntry
<1>6. ASSUME NEW kind \in {"move_sl", "move_sl_be", "close_half"}, TapOnBasket(kind) PROVE Inv'
  BY <1>2, <1>6 DEF TapOnBasket
<1>7. TapBrakeReset => Inv'
  BY <1>2, <1>3 DEF TapBrakeReset
<1>8. TapStop => Inv'
  BY <1>2 DEF TapStop
<1>9. AgentIntent("agent_close", "exit", "close_all") => Inv'
  BY <1>2 DEF AgentIntent
<1>10. AgentIntent("agent_move", "move_sl", "move_sl") => Inv'
  BY <1>2 DEF AgentIntent
<1>11. TapCloseAll => Inv'
  BY <1>2, <1>3 DEF TapCloseAll
<1>12. TapClosePosition => Inv'
  <2>. SUFFICES ASSUME NEW s \in Symbols, NEW t \in legs[s],
                       StartTask("dash", Ask("exit", "SELL", lastSym, "close_ticket", t), s)
                PROVE  Inv'
    BY DEF TapClosePosition
  <2>1. t \in 0..MaxTicket
    BY ConstantsAssumption DEF Inv, TypeOK, Tickets
  <2>. QED BY <1>2, <1>3, <2>1
<1>13. TapQuickEntry => Inv'
  BY <1>2 DEF TapQuickEntry
<1>. QED
  BY <1>4, <1>5, <1>6, <1>7, <1>8, <1>9, <1>10, <1>11, <1>12, <1>13 DEF Taps

LEMMA TaskStepKeeps ==
  ASSUME Inv, NEW w \in Slots, TaskStep(w)
  PROVE  Inv'
<1>. USE DEF Inv
<1>0. task[w] \in Task
  BY DEF TypeOK
<1>1. CASE TaskCreate(w)
  <2>. DEFINE new == [task[w] EXCEPT !.pc = "created", !.pid = lastPid + 1]
  <2>1. /\ task[w].pc = "guarded"
        /\ Create(task[w].row, task[w].wish)
        /\ task' = [task EXCEPT ![w] = new]
        /\ UNCHANGED <<age, hb, lastSym, pendingTicket, study, restarts, eaVars, effect>>
    BY <1>1 DEF TaskCreate, TypeOK
  <2>2. task[w].row \in Row /\ task[w].wish \in Wish
    BY <1>0, <2>1 DEF Task
  <2>3. w \in Guarded /\ lastPid' = lastPid + 1
    BY <2>1 DEF Guarded, Create
  <2>4. new.pc = "created"
    BY <1>0, <2>1 DEF Task
  <2>5. Guarded' = Guarded \ {w}
    BY <2>1, <2>4 DEF Guarded, TypeOK
  <2>6. lastPid < MaxProposals /\ Room'
    BY <2>3, <2>5, SpendRoom
  <2>7. new \in Task
    <3>1. lastPid + 1 \in 0..MaxProposals
      BY <2>6, ConstantsAssumption DEF TypeOK
    <3>. QED BY <1>0, <2>1, <3>1 DEF Task
  <2>8. TypeOK'
    <3>1. /\ lastPid' \in 0..MaxProposals
          /\ status' \in [Pids -> Statuses]
          /\ row' \in [Pids -> Row]
          /\ wish' \in [Pids -> Wish]
      BY <2>1, <2>2, <2>6, CreateType
    <3>2. task' \in [Slots -> Task]
      BY <2>1, <2>7 DEF TypeOK
    <3>. QED BY <2>1, <3>1, <3>2 DEF TypeOK, eaVars
  <2>. QED BY <2>1, <2>2, <2>6, <2>8, CreateStep DEF eaVars
<1>2. CASE TaskApprove(w)
  <2>. DEFINE new == IF task[w].wish.verb = "close_ticket"
                     THEN [task[w] EXCEPT !.pc = "approved"] ELSE IdleTask
  <2>1. /\ task[w].pc = "created"
        /\ CompareAndSet(task[w].pid, "pending", "approved")
        /\ task' = [task EXCEPT ![w] = new]
        /\ UNCHANGED <<lastPid, row, hb, lastSym, pendingTicket, study, restarts, eaVars, historyVars>>
    BY <1>2 DEF TaskApprove
  <2>2. new \in Task /\ new.pc # "guarded"
    BY <1>0, <2>1 DEF Task, IdleTask
  <2>3. "pending" \in Live /\ "approved" \in Statuses \ {"none", "executed"}
    BY DEF Live, Statuses
  <2>4. status' \in [Pids -> Statuses] /\ age' \in [Pids -> Nat]
    BY <2>1, <2>3, CompareAndSetType
  <2>5. TypeOK'
    BY <2>1, <2>2, <2>4 DEF TypeOK, eaVars, historyVars
  <2>6. Guarded' = Guarded
    BY <2>1, <2>2 DEF Guarded, TypeOK
  <2>7. UNCHANGED <<lastPid, row, reply, results, effect, wish>>
    BY <2>1 DEF eaVars, historyVars
  <2>. QED BY <2>1, <2>3, <2>5, <2>6, <2>7, DecideStep
<1>3. CASE TaskNoteTicket(w)
  <2>1. /\ task[w].pc = "approved"
        /\ pendingTicket' = [pendingTicket EXCEPT ![task[w].sym] = task[w].wish.ticket]
        /\ task' = [task EXCEPT ![w] = IdleTask]
        /\ UNCHANGED <<rowVars, hb, lastSym, study, restarts, eaVars, historyVars>>
    BY <1>3 DEF TaskNoteTicket
  <2>2. task[w].wish.ticket \in 0..MaxTicket
    BY <1>0, <2>1 DEF Task, Wish
  <2>3. pendingTicket' \in [Symbols -> 0..MaxTicket] /\ task' \in [Slots -> Task]
    BY <2>1, <2>2 DEF TypeOK, Task, IdleTask
  <2>4. TypeOK'
    BY <2>1, <2>3 DEF TypeOK, rowVars, eaVars, historyVars
  <2>5. Guarded' = Guarded
    BY <2>1 DEF Guarded, TypeOK, IdleTask
  <2>. QED BY <2>1, <2>4, <2>5, QuietStep DEF rowVars, eaVars, historyVars
<1>. QED BY <1>1, <1>2, <1>3 DEF TaskStep

LEMMA DecideKeeps ==
  ASSUME Inv, NEW p \in Pids, NEW to \in {"approved", "skipped"}, Decide(p, to)
  PROVE  Inv'
<1>1. /\ CompareAndSet(p, "pending", to)
      /\ UNCHANGED <<lastPid, row, memVars, eaVars, historyVars>>
  BY DEF Decide
<1>2. "pending" \in Live /\ to \in Statuses \ {"none", "executed"}
  BY DEF Live, Terminal, Statuses
<1>3. status' \in [Pids -> Statuses] /\ age' \in [Pids -> Nat]
  BY <1>1, <1>2, CompareAndSetType DEF Inv
<1>4. TypeOK'
  BY <1>1, <1>3 DEF Inv, TypeOK, memVars, eaVars, historyVars
<1>5. Guarded' = Guarded
  BY <1>1 DEF Guarded, memVars
<1>. QED BY <1>1, <1>2, <1>4, <1>5, DecideStep DEF eaVars, historyVars

-----------------------------------------------------------------------------
(* Analyses                                                                *)

LEMMA AnalyzeStep ==
  ASSUME Inv, NEW s \in Symbols,
         \/ AnalyzeRead(s) \/ AnalyzeExpirePending(s)
         \/ AnalyzeExpireApproved(s) \/ AnalyzePropose(s)
  PROVE  Inv'
<1>. USE DEF Inv
<1>0. study[s] \in Study
  BY DEF TypeOK
<1>1. RowsWith("pending") \in SUBSET Pids /\ RowsWith("approved") \in SUBSET Pids
  BY DEF RowsWith
<1>2. /\ "pending" \in Live /\ "approved" \in Live
      /\ "expired" \in Statuses \ {"none", "executed"}
  BY DEF Live, Terminal, Statuses
<1>3. CASE AnalyzeRead(s)
  <2>1. PICK signal \in Signals :
          study' = [study EXCEPT ![s] = [pc |-> "read", signal |-> signal,
                                         pending |-> Newest(RowsWith("pending"))]]
    BY <1>3 DEF AnalyzeRead
  <2>2. Newest(RowsWith("pending")) \in 0..MaxProposals
    BY <1>1, NewestType
  <2>3. study' \in [Symbols -> Study]
    BY <2>1, <2>2 DEF TypeOK, Study
  <2>4. UNCHANGED <<rowVars, hb, lastSym, pendingTicket, task, restarts, eaVars, historyVars>>
    BY <1>3 DEF AnalyzeRead
  <2>5. TypeOK' /\ Guarded' = Guarded
    BY <2>3, <2>4 DEF TypeOK, Guarded, rowVars, eaVars, historyVars
  <2>. QED BY <2>4, <2>5, QuietStep DEF rowVars, eaVars, historyVars
<1>4. CASE AnalyzeExpirePending(s)
  <2>. DEFINE p     == study[s].pending
              stale == p # 0 /\ StaleFor(p, study[s].signal)
              new   == [pc |-> "checked", signal |-> study[s].signal,
                        pending |-> IF stale THEN 0 ELSE p,
                        approved |-> Newest(RowsWith("approved"))]
  <2>1. /\ study[s].pc = "read"
        /\ IF stale THEN CompareAndSet(p, "pending", "expired") ELSE UNCHANGED <<status, age>>
        /\ study' = [study EXCEPT ![s] = new]
        /\ UNCHANGED <<lastPid, row, hb, lastSym, pendingTicket, task, restarts, eaVars, historyVars>>
    BY <1>4 DEF AnalyzeExpirePending
  <2>2. new \in Study
    <3>1. Newest(RowsWith("approved")) \in 0..MaxProposals
      BY <1>1, NewestType
    <3>2. study[s].signal \in Signals /\ p \in 0..MaxProposals /\ 0 \in 0..MaxProposals
      BY <1>0, <2>1, ConstantsAssumption DEF Study
    <3>. QED BY <3>1, <3>2 DEF Study
  <2>3. status' \in [Pids -> Statuses] /\ age' \in [Pids -> Nat]
    BY <1>2, <2>1, CompareAndSetType DEF TypeOK
  <2>. HIDE DEF new
  <2>4. TypeOK' /\ Guarded' = Guarded
    BY <2>1, <2>2, <2>3 DEF TypeOK, Guarded, eaVars, historyVars
  <2>5. UNCHANGED <<lastPid, row, reply, results, effect, wish>>
    BY <2>1 DEF eaVars, historyVars
  <2>6. CASE stale
    BY <1>2, <2>1, <2>4, <2>5, <2>6, DecideStep
  <2>7. CASE ~stale
    BY <2>1, <2>4, <2>5, <2>7, QuietStep
  <2>. QED BY <2>6, <2>7
<1>5. CASE AnalyzeExpireApproved(s)
  <2>. DEFINE p     == study[s].approved
              stale == p # 0 /\ StaleFor(p, study[s].signal)
              new   == [pc |-> "proposing", signal |-> study[s].signal, pending |-> study[s].pending]
  <2>1. /\ study[s].pc = "checked"
        /\ IF stale THEN CompareAndSet(p, "approved", "expired") ELSE UNCHANGED <<status, age>>
        /\ study' = [study EXCEPT ![s] = new]
        /\ UNCHANGED <<lastPid, row, hb, lastSym, pendingTicket, task, restarts, eaVars, historyVars>>
    BY <1>5 DEF AnalyzeExpireApproved
  <2>2. new \in Study
    BY <1>0, <2>1 DEF Study
  <2>3. status' \in [Pids -> Statuses] /\ age' \in [Pids -> Nat]
    BY <1>2, <2>1, CompareAndSetType DEF TypeOK
  <2>. HIDE DEF new
  <2>4. TypeOK' /\ Guarded' = Guarded
    BY <2>1, <2>2, <2>3 DEF TypeOK, Guarded, eaVars, historyVars
  <2>5. UNCHANGED <<lastPid, row, reply, results, effect, wish>>
    BY <2>1 DEF eaVars, historyVars
  <2>6. CASE stale
    BY <1>2, <2>1, <2>4, <2>5, <2>6, DecideStep
  <2>7. CASE ~stale
    BY <2>1, <2>4, <2>5, <2>7, QuietStep
  <2>. QED BY <2>6, <2>7
<1>6. CASE AnalyzePropose(s)
  <2>1. /\ study' = [study EXCEPT ![s] = IdleStudy]
        /\ UNCHANGED <<age, hb, lastSym, pendingTicket, task, restarts, eaVars, effect>>
    BY <1>6 DEF AnalyzePropose
  <2>2. study' \in [Symbols -> Study] /\ Guarded' = Guarded
    BY <2>1 DEF TypeOK, Study, IdleStudy, Guarded
  <2>3. CASE UNCHANGED <<lastPid, status, row, wish>>
    <3>1. TypeOK'
      BY <2>1, <2>2, <2>3 DEF TypeOK, eaVars
    <3>. QED BY <2>1, <2>2, <2>3, <3>1, QuietStep DEF eaVars
  <2>4. ASSUME WouldPropose(s), RoomForRow, NEW a, a.row \in Row, a.wish \in Wish,
               Create(a.row, a.wish)
        PROVE  Inv'
    <3>1. lastPid + Cardinality(Guarded) < MaxProposals
      BY <2>4 DEF RoomForRow, Guarded
    <3>2. lastPid < MaxProposals
      BY <3>1, GuardedFinite, ConstantsAssumption DEF TypeOK
    <3>3. lastPid' \in 1..MaxProposals /\ lastPid' = lastPid + 1
      BY <2>4, <3>2, CreateType
    <3>4. Room'
      BY <2>2, <3>1, <3>3, GuardedFinite, ConstantsAssumption DEF Room, TypeOK
    <3>5. /\ lastPid' \in 0..MaxProposals
          /\ status' \in [Pids -> Statuses]
          /\ row' \in [Pids -> Row]
          /\ wish' \in [Pids -> Wish]
      BY <2>4, <3>2, <3>3, CreateType
    <3>6. TypeOK'
      BY <2>1, <2>2, <3>5 DEF TypeOK, eaVars
    <3>. QED BY <2>1, <2>4, <3>2, <3>4, <3>6, CreateStep DEF eaVars
  <2>5. CASE WouldPropose(s) /\ RoomForRow /\ study[s].signal = "EXIT"
             /\ Create(Ask("exit", "BUY", s, "close_all", 0).row, Ask("exit", "BUY", s, "close_all", 0).wish)
    <3>1. /\ Ask("exit", "BUY", s, "close_all", 0).row \in Row
          /\ Ask("exit", "BUY", s, "close_all", 0).wish \in Wish
      BY AskType, ConstantsAssumption DEF Kinds, Dirs, Lanes, Verbs
    <3>. QED BY <2>4, <2>5, <3>1
  <2>6. CASE WouldPropose(s) /\ RoomForRow /\ study[s].signal # "EXIT"
             /\ Create(Ask("entry", study[s].signal, s, "execute", 0).row,
                       Ask("entry", study[s].signal, s, "execute", 0).wish)
    <3>1. study[s].signal \in Dirs
      BY <2>6 DEF WouldPropose
    <3>2. /\ Ask("entry", study[s].signal, s, "execute", 0).row \in Row
          /\ Ask("entry", study[s].signal, s, "execute", 0).wish \in Wish
      BY <3>1, AskType, ConstantsAssumption DEF Kinds, Lanes, Verbs
    <3>. QED BY <2>4, <2>6, <3>2
  <2>. QED BY <1>6, <2>3, <2>5, <2>6 DEF AnalyzePropose
<1>. QED BY <1>3, <1>4, <1>5, <1>6

-----------------------------------------------------------------------------
(* Heartbeats                                                              *)

LEMMA BeatPopStep ==
  ASSUME Inv, NEW s \in Symbols, BeatPop(s)
  PROVE  Inv'
<1>. USE DEF Inv
<1>. DEFINE p   == OldestApproved(Swept)
            got == IF p = 0 THEN NoReply ELSE [verb |-> "popped", pid |-> p]
<1>1. /\ beat' = [beat EXCEPT ![s] = "popped"]
      /\ status' = [q \in Pids |-> IF q = p THEN "dispatched" ELSE Swept[q]]
      /\ reply' = [reply EXCEPT ![s] = got]
      /\ age' = [q \in Pids |-> IF Swept[q] = status[q] THEN age[q] ELSE 0]
      /\ UNCHANGED <<lastPid, row, memVars, results, legs, dir, nextTicket, historyVars>>
  BY DEF BeatPop
<1>2. /\ Swept \in [Pids -> Statuses]
      /\ \A q \in Pids : /\ Swept[q] \in Untouched => status[q] \in Untouched
                         /\ Swept[q] \in {"approved", "none", "executed"} => status[q] = Swept[q]
                         /\ status[q] = "none" => Swept[q] = "none"
  BY SweptType
<1>3. p # 0 => p \in Pids /\ Swept[p] = "approved"
  BY OldestApprovedType
<1>4. p = 0 => p \notin Pids
  BY DEF Pids
<1>5. got \in Popped \cup {NoReply}
  BY <1>3 DEF Popped
<1>6. p # 0 => got # NoReply /\ got.pid = p /\ got \notin Command
  BY <1>3, <1>5, RepliesDiffer DEF NoReply
<1>7. p = 0 => got = NoReply
  OBVIOUS
<1>. HIDE DEF p, got
<1>8. TypeOK'
  <2>1. status' \in [Pids -> Statuses]
    BY <1>1, <1>2 DEF Statuses, Live
  <2>2. /\ reply' \in [Symbols -> Command \cup Popped \cup {NoReply}]
        /\ beat' \in [Symbols -> {"idle", "posted", "popped", "replied"}]
        /\ age' \in [Pids -> Nat]
    BY <1>1, <1>5 DEF TypeOK
  <2>. QED BY <1>1, <2>1, <2>2 DEF TypeOK, memVars, historyVars
<1>9. Room'
  <2>1. Guarded' = Guarded
    BY <1>1 DEF Guarded, memVars
  <2>. QED BY <1>1, <2>1, SameRoom
<1>10. \A q \in Pids : q # p => status'[q] = Swept[q]
  BY <1>1
<1>11. p # 0 => status'[p] = "dispatched" /\ status[p] = "approved"
  BY <1>1, <1>2, <1>3
<1>12. Unborn'
  BY <1>1, <1>2, <1>4, <1>10, <1>11 DEF Unborn
<1>13. UNCHANGED <<effect, row, wish, results>>
  BY <1>1 DEF historyVars
<1>14. p # 0 => effect[p].runs = 0 /\ \A q \in Symbols : ~Carries(q, p)
  BY <1>3, <1>11 DEF Delivery, Unhanded, Untouched
<1>15. \A q \in Symbols : q # s => reply'[q] = reply[q]
  BY <1>1 DEF TypeOK
<1>16. reply'[s] = got
  BY <1>1 DEF TypeOK
<1>17. \A q \in Symbols, r \in Pids : Carries(q, r)' =>
         IF q = s THEN r = p /\ p # 0 ELSE Carries(q, r)
  BY <1>6, <1>7, <1>15, <1>16 DEF Carries
<1>18. Unhanded'
  <2>1. ASSUME NEW r \in Pids, status'[r] \in Untouched
        PROVE  effect[r].runs = 0 /\ \A q \in Symbols : ~Carries(q, r)'
    <3>1. r # p
      BY <1>4, <1>11, <2>1 DEF Untouched
    <3>2. status[r] \in Untouched
      BY <1>2, <1>10, <2>1, <3>1
    <3>. QED BY <1>17, <3>1, <3>2 DEF Delivery, Unhanded
  <2>. QED BY <1>13, <2>1 DEF Unhanded
<1>19. OnTheWay'
  <2>1. ASSUME NEW q \in Symbols, NEW r \in Pids, Carries(q, r)'
        PROVE  /\ effect[r].runs = 0
               /\ reply'[q] \in Command => Fits(reply'[q], row[r])
               /\ \A o \in Symbols : Carries(o, r)' => o = q
    <3>1. CASE q = s
      BY <1>6, <1>14, <1>16, <1>17, <2>1, <3>1
    <3>2. CASE q # s
      <4>1. Carries(q, r) /\ (p # 0 => r # p)
        BY <1>14, <1>17, <2>1, <3>2
      <4>. QED BY <1>15, <1>17, <3>2, <4>1 DEF Delivery, OnTheWay
    <3>. QED BY <3>1, <3>2
  <2>. QED BY <1>13, <2>1 DEF OnTheWay
<1>20. Reported' /\ Done'
  <2>1. \A q \in Pids : status'[q] = "executed" => status[q] = "executed"
    BY <1>2, <1>10, <1>11, <1>4
  <2>2. \A q \in Pids : Kept(q)' <=> Kept(q)
    BY <1>13, KeptSame
  <2>3. \A r \in results : r.pid \in Pids
    BY DEF TypeOK, Result
  <2>4. Reported'
    BY <1>13, <2>2, <2>3 DEF Delivery, Reported
  <2>5. Done'
    BY <1>13, <2>1, <2>2 DEF Delivery, Done
  <2>. QED BY <2>4, <2>5
<1>. QED BY <1>8, <1>9, <1>12, <1>18, <1>19, <1>20 DEF Delivery

LEMMA BeatAnswerStep ==
  ASSUME Inv, NEW s \in Symbols, BeatAnswer(s)
  PROVE  Inv'
<1>. USE DEF Inv
<1>1. /\ beat' = [beat EXCEPT ![s] = "replied"]
      /\ UNCHANGED <<rowVars, hb, lastSym, task, study, restarts, results, legs, dir, nextTicket,
                     historyVars>>
  BY DEF BeatAnswer
<1>2. beat' \in [Symbols -> {"idle", "posted", "popped", "replied"}] /\ Guarded' = Guarded
  BY <1>1 DEF TypeOK, Guarded
<1>3. Room' /\ Unborn'
  BY <1>1, <1>2, SameRoom DEF Unborn, rowVars
<1>4. CASE reply[s] = NoReply /\ UNCHANGED <<reply, pendingTicket>>
  <2>1. TypeOK'
    BY <1>1, <1>2, <1>4 DEF TypeOK, rowVars, historyVars
  <2>2. Delivery'
    BY <1>1, <1>4, DeliveryKept DEF rowVars, historyVars
  <2>. QED BY <1>3, <2>1, <2>2
<1>5. CASE reply[s] # NoReply
  <2>. DEFINE p   == reply[s].pid
              cmd == CommandFor(s, p)
  <2>1. /\ reply' = [reply EXCEPT ![s] = cmd]
        /\ pendingTicket' = IF cmd.verb = "close_ticket"
                            THEN [pendingTicket EXCEPT ![TicketSource(s, p)] = 0]
                            ELSE pendingTicket
    BY <1>5 DEF BeatAnswer
  <2>2. p \in Pids /\ Carries(s, p)
    BY <1>5 DEF TypeOK, Command, Popped, Carries
  <2>3. /\ cmd \in Command /\ cmd.pid = p /\ Fits(cmd, row[p])
        /\ cmd # NoReply
    BY <2>2, CommandType, RepliesDiffer
  <2>. HIDE DEF cmd, p
  <2>4. TypeOK'
    <3>1. reply' \in [Symbols -> Command \cup Popped \cup {NoReply}]
      BY <2>1, <2>3 DEF TypeOK
    <3>2. pendingTicket' \in [Symbols -> 0..MaxTicket]
      <4>1. 0 \in 0..MaxTicket
        BY ConstantsAssumption
      <4>. QED BY <2>1, <4>1 DEF TypeOK
    <3>. QED BY <1>1, <1>2, <3>1, <3>2 DEF TypeOK, rowVars, historyVars
  <2>5. UNCHANGED <<status, row, wish, results, effect>>
    BY <1>1 DEF rowVars, historyVars
  <2>6. \A q \in Symbols, r \in Pids : Carries(q, r)' => Carries(q, r)
    BY <2>1, <2>2, <2>3 DEF TypeOK, Carries
  <2>7. Unhanded' /\ Reported' /\ Done'
    <3>1. \A q \in Pids : Kept(q)' <=> Kept(q)
      BY <2>5, KeptSame
    <3>2. \A r \in results : r.pid \in Pids
      BY DEF TypeOK, Result
    <3>3. Unhanded'
      BY <2>5, <2>6 DEF Delivery, Unhanded
    <3>4. Reported'
      BY <2>5, <3>1, <3>2 DEF Delivery, Reported
    <3>5. Done'
      BY <2>5, <3>1 DEF Delivery, Done
    <3>. QED BY <3>3, <3>4, <3>5
  <2>8. OnTheWay'
    <3>1. ASSUME NEW q \in Symbols, NEW r \in Pids, Carries(q, r)'
          PROVE  /\ effect[r].runs = 0
                 /\ reply'[q] \in Command => Fits(reply'[q], row[r])
                 /\ \A o \in Symbols : Carries(o, r)' => o = q
      <4>1. /\ effect[r].runs = 0 /\ \A o \in Symbols : Carries(o, r)' => o = q
            /\ reply[q] \in Command => Fits(reply[q], row[r])
        BY <2>6, <3>1 DEF Delivery, OnTheWay
      <4>2. CASE q = s
        BY <2>1, <2>3, <3>1, <4>1, <4>2 DEF TypeOK, Carries
      <4>3. CASE q # s
        BY <2>1, <4>1, <4>3 DEF TypeOK
      <4>. QED BY <4>2, <4>3
    <3>. QED BY <2>5, <3>1 DEF OnTheWay
  <2>. QED BY <1>3, <2>4, <2>7, <2>8 DEF Delivery
<1>. QED BY <1>4, <1>5 DEF BeatAnswer

LEMMA BeatStep ==
  ASSUME Inv, NEW s \in Symbols, BeatArrive(s) \/ ReplyLost(s)
  PROVE  Inv'
<1>. USE DEF Inv
<1>1. CASE BeatArrive(s)
  <2>1. TypeOK' /\ Guarded' = Guarded
    BY <1>1 DEF BeatArrive, TypeOK, Guarded, rowVars, historyVars, Lanes
  <2>. QED BY <1>1, <2>1, QuietStep DEF BeatArrive, rowVars, historyVars
<1>2. CASE ReplyLost(s)
  <2>1. TypeOK' /\ Guarded' = Guarded
    BY <1>2 DEF ReplyLost, TypeOK, Guarded, rowVars, memVars, historyVars
  <2>2. \A q \in Symbols : reply'[q] = reply[q] \/ reply'[q] = NoReply
    BY <1>2 DEF ReplyLost, TypeOK
  <2>. QED BY <1>2, <2>1, <2>2, QuietStep DEF ReplyLost, rowVars, historyVars
<1>. QED BY <1>1, <1>2

-----------------------------------------------------------------------------
(* The EA                                                                  *)

\* An EA did what the verb it was told says.
AsTold(s, closed, adjusted) ==
  /\ reply[s].verb = "execute" => legs'[s] # {} /\ dir'[s] = reply[s].dir
  /\ reply[s].verb \in {"move_sl", "reset_brake"} => adjusted
  /\ reply[s].verb = "close_ticket" => Cardinality(closed) = 1
  /\ reply[s].verb = "close_all" => legs'[s] = {}

\* A verb that fits the row and was done in full gives the row what it asked
\* for, or all that the other verb it was handed over as can give.
LEMMA KeepsPromise ==
  ASSUME NEW s, NEW p, NEW closed, NEW adjusted, row[p] \in Row, reply[s].verb \in Verbs,
         Fits(reply[s], row[p]), AsTold(s, closed, adjusted),
         row' = row, wish' = wish,
         effect'[p].done = Fulfilled(s, p, closed, adjusted),
         effect'[p].verb = reply[s].verb, effect'[p].closed = closed,
         effect'[p].flat = (legs'[s] = {})
  PROVE  Kept(p)'
<1>1. CASE reply[s].verb = "execute"
  <2>1. row[p].kind = "entry" /\ row[p].dir = reply[s].dir
    BY <1>1 DEF Fits
  <2>2. Fulfilled(s, p, closed, adjusted)
    BY <1>1, <2>1 DEF Fulfilled, AsTold
  <2>. QED BY <2>2 DEF Kept
<1>2. CASE reply[s].verb \in {"move_sl", "reset_brake"}
  <2>1. row[p].kind \in {"move_sl", "reset_brake"}
    BY <1>2 DEF Fits
  <2>2. Fulfilled(s, p, closed, adjusted)
    BY <1>2, <2>1 DEF Fulfilled, AsTold
  <2>. QED BY <2>2 DEF Kept
<1>3. CASE reply[s].verb = "close_ticket"
  BY <1>3 DEF AsTold, Kept, HandedAnother
<1>4. CASE reply[s].verb = "close_all"
  <2>1. legs'[s] = {} /\ row[p].kind \in {"exit", "close_half", "move_sl_be"}
    BY <1>4 DEF Fits, AsTold, Row, Kinds
  <2>2. CASE row[p].kind = "exit" /\ wish[p].ticket = 0
    <3>1. Fulfilled(s, p, closed, adjusted)
      BY <2>1, <2>2 DEF Fulfilled
    <3>. QED BY <3>1 DEF Kept
  <2>3. CASE row[p].kind \in {"close_half", "move_sl_be"} \/ wish[p].ticket # 0
    BY <1>4, <2>1, <2>3 DEF Kept, HandedAnother
  <2>. QED BY <2>1, <2>2, <2>3
<1>. QED BY <1>1, <1>2, <1>3, <1>4 DEF Verbs

\* A command carried out and reported: for the first time, by the EA it names,
\* with an "ok" that is true.
LEMMA ReportStep ==
  ASSUME Inv, NEW s \in Symbols, NEW verb \in Verbs, Obeys(s, verb),
         NEW ok \in BOOLEAN, NEW adjusted \in BOOLEAN, NEW closed \in SUBSET Tickets,
         ok => AsTold(s, closed, adjusted), Report(s, ok, closed, adjusted),
         legs' \in [Symbols -> SUBSET Tickets], dir' \in [Symbols -> Dirs],
         nextTicket' \in 1..(MaxTicket + 1)
  PROVE  Inv'
<1>. USE DEF Inv
<1>1. /\ beat' = [beat EXCEPT ![s] = "idle"]
      /\ reply' = [reply EXCEPT ![s] = NoReply]
      /\ reply[s] # NoReply /\ reply[s].target \in {AnyEa, s} /\ reply[s].verb = verb
      /\ UNCHANGED <<rowVars, memVars, wish>>
  BY DEF Obeys, Answered
<1>2. reply[s] \in Command
  BY <1>1, RepliesDiffer DEF TypeOK
<1>p. PICK p \in Pids : p = reply[s].pid
  BY <1>2 DEF Command
<1>3. p \in Pids /\ Carries(s, p)
  BY <1>1, <1>p DEF Carries
<1>. DEFINE new == [runs |-> IF effect[p].runs < 2 THEN effect[p].runs + 1 ELSE effect[p].runs,
                    done |-> Fulfilled(s, p, closed, adjusted),
                    verb |-> reply[s].verb, at |-> s, closed |-> closed, flat |-> legs'[s] = {}]
<1>4. /\ results' = results \cup {[pid |-> p, ok |-> ok]}
      /\ effect' = [effect EXCEPT ![p] = new]
  BY <1>p DEF Report, TypeOK
<1>5. /\ effect[p].runs = 0
      /\ Fits(reply[s], row[p])
      /\ \A q \in Symbols : Carries(q, p) => q = s
  BY <1>2, <1>3 DEF Delivery, OnTheWay
<1>6. new.runs = 1 /\ new \in Effect
  <2>1. Fulfilled(s, p, closed, adjusted) \in BOOLEAN
    BY DEF Fulfilled
  <2>. QED BY <1>1, <1>5, <2>1 DEF Effect, Lanes
<1>. HIDE DEF new
<1>7. /\ effect'[p] = new
      /\ \A q \in Pids : q # p => effect'[q] = effect[q]
  BY <1>3, <1>4 DEF TypeOK
<1>8. /\ new.done = Fulfilled(s, p, closed, adjusted) /\ new.at = s
      /\ new.verb = reply[s].verb /\ new.closed = closed /\ new.flat = (legs'[s] = {})
  BY DEF new
<1>9. TypeOK'
  <2>1. results' \subseteq Result
    BY <1>3, <1>4 DEF TypeOK, Result
  <2>2. effect' \in [Pids -> Effect]
    BY <1>4, <1>6 DEF TypeOK
  <2>3. /\ reply' \in [Symbols -> Command \cup Popped \cup {NoReply}]
        /\ beat' \in [Symbols -> {"idle", "posted", "popped", "replied"}]
    BY <1>1 DEF TypeOK
  <2>. QED BY <1>1, <2>1, <2>2, <2>3 DEF TypeOK, rowVars, memVars
<1>10. Room' /\ Unborn'
  <2>1. UNCHANGED <<lastPid, status>> /\ Guarded' = Guarded
    BY <1>1 DEF Guarded, rowVars, memVars
  <2>. QED BY <2>1, SameRoom DEF Unborn
<1>11. \A q \in Symbols, r \in Pids : Carries(q, r)' => /\ Carries(q, r) /\ r # p
                                                        /\ reply'[q] = reply[q]
  BY <1>1, <1>5 DEF Carries, TypeOK
<1>12. status[p] \notin Untouched
  BY <1>3 DEF Delivery, Unhanded
<1>13. UNCHANGED <<status, row, wish>>
  BY <1>1 DEF rowVars
<1>18. \A q \in Pids : q # p => (Kept(q)' <=> Kept(q))
  BY <1>7, <1>13, KeptSame
<1>19. ASSUME ok PROVE Kept(p)'
  <2>1. row[p] \in Row /\ reply[s].verb \in Verbs
    BY <1>1, <1>3 DEF TypeOK
  <2>2. AsTold(s, closed, adjusted) /\ Fits(reply[s], row[p]) /\ row' = row /\ wish' = wish
    BY <1>5, <1>13, <1>19
  <2>3. /\ effect'[p].done = Fulfilled(s, p, closed, adjusted)
        /\ effect'[p].verb = reply[s].verb /\ effect'[p].closed = closed
        /\ effect'[p].flat = (legs'[s] = {})
    BY <1>7, <1>8
  <2>. QED BY <2>1, <2>2, <2>3, KeepsPromise
<1>14. Unhanded'
  BY <1>7, <1>11, <1>12, <1>13 DEF Delivery, Unhanded
<1>15. OnTheWay'
  BY <1>7, <1>11, <1>13 DEF Delivery, OnTheWay
<1>16. Reported'
  <2>1. \A r \in results : r.pid \in Pids /\ r.pid # p
    BY <1>5 DEF TypeOK, Result, Delivery, Reported
  <2>2. \A r \in results : effect'[r.pid] = effect[r.pid]
    BY <1>7, <2>1
  <2>3. effect'[p].runs = 1 /\ results' = results \cup {[pid |-> p, ok |-> ok]}
    BY <1>4, <1>6, <1>7
  <2>4. \A r \in results : effect'[r.pid].runs = 1 /\ (r.ok => Kept(r.pid)')
    BY <1>18, <2>1, <2>2 DEF Delivery, Reported
  <2>5. ASSUME NEW r \in results' PROVE effect'[r.pid].runs = 1 /\ (r.ok => Kept(r.pid)')
    <3>1. CASE r \in results
      BY <2>4, <3>1
    <3>2. CASE r = [pid |-> p, ok |-> ok]
      <4>1. r.pid = p /\ r.ok = ok
        BY <3>2
      <4>. QED BY <1>19, <2>3, <4>1
    <3>. QED BY <2>3, <3>1, <3>2
  <2>. QED BY <2>5 DEF Reported
<1>17. Done'
  <2>1. status[p] # "executed"
    BY <1>3, <1>5 DEF Delivery, Done
  <2>2. row[p].lane \in {AnyEa, s}
    BY <1>1, <1>5 DEF Fits
  <2>3. ASSUME NEW q \in Pids
        PROVE  /\ effect'[q].runs <= 1
               /\ status'[q] = "executed" => effect'[q].runs = 1 /\ Kept(q)'
               /\ effect'[q].runs > 0 => row'[q].lane \in {AnyEa, effect'[q].at}
    <3>1. CASE q = p
      BY <1>6, <1>7, <1>8, <1>13, <2>1, <2>2, <3>1
    <3>2. CASE q # p
      BY <1>7, <1>13, <1>18, <3>2 DEF Delivery, Done
    <3>. QED BY <3>1, <3>2
  <2>. QED BY <2>3 DEF Done
<1>. QED BY <1>9, <1>10, <1>14, <1>15, <1>16, <1>17 DEF Delivery

LEMMA EaStepKeeps ==
  ASSUME Inv, NEW s \in Symbols, EaStep(s)
  PROVE  Inv'
<1>. USE DEF Inv
<1>1. /\ legs \in [Symbols -> SUBSET Tickets] /\ dir \in [Symbols -> Dirs]
      /\ nextTicket \in 1..(MaxTicket + 1)
  BY DEF TypeOK
<1>2. {"execute", "move_sl", "reset_brake", "close_ticket", "close_all"} \subseteq Verbs
  BY DEF Verbs
<1>3. CASE EaIgnore(s)
  <2>1. /\ beat' = [beat EXCEPT ![s] = "idle"]
        /\ reply' = [reply EXCEPT ![s] = NoReply]
        /\ UNCHANGED <<rowVars, memVars, results, legs, dir, nextTicket, historyVars>>
    BY <1>3 DEF EaIgnore, Answered
  <2>2. TypeOK' /\ Guarded' = Guarded
    BY <2>1 DEF TypeOK, Guarded, rowVars, memVars, historyVars
  <2>3. \A q \in Symbols : reply'[q] = reply[q] \/ reply'[q] = NoReply
    BY <2>1 DEF TypeOK
  <2>. QED BY <2>1, <2>2, <2>3, QuietStep DEF rowVars, historyVars
<1>4. CASE EaExecute(s)
  <2>. DEFINE d == reply[s].dir
  <2>1. Obeys(s, "execute") /\ reply[s].verb = "execute"
    BY <1>4 DEF EaExecute, Obeys
  <2>2. d \in Dirs
    BY <2>1, RepliesDiffer DEF Obeys, TypeOK, Command
  <2>3. ASSUME legs'[s] # {}, dir'[s] = d, NEW closed PROVE AsTold(s, closed, FALSE)
    BY <2>1, <2>3 DEF AsTold
  <2>. HIDE DEF d
  <2>4. CASE UNCHANGED <<legs, dir, nextTicket>> /\ Report(s, FALSE, {}, FALSE)
    <3>1. /\ legs' \in [Symbols -> SUBSET Tickets] /\ dir' \in [Symbols -> Dirs]
          /\ nextTicket' \in 1..(MaxTicket + 1) /\ {} \in SUBSET Tickets
      BY <1>1, <2>4
    <3>. QED BY <1>2, <2>1, <2>4, <3>1, ReportStep
  <2>5. CASE /\ legs[s] # {} /\ dir[s] = d
             /\ UNCHANGED <<legs, dir, nextTicket>>
             /\ Report(s, TRUE, {}, FALSE)
    <3>1. AsTold(s, {}, FALSE)
      BY <2>3, <2>5
    <3>2. /\ legs' \in [Symbols -> SUBSET Tickets] /\ dir' \in [Symbols -> Dirs]
          /\ nextTicket' \in 1..(MaxTicket + 1) /\ {} \in SUBSET Tickets
      BY <1>1, <2>5
    <3>. QED BY <1>2, <2>1, <2>5, <3>1, <3>2, ReportStep
  <2>6. ASSUME NEW left \in SUBSET legs[s],
               legs' = [legs EXCEPT ![s] = left],
               UNCHANGED <<dir, nextTicket>>,
               Report(s, FALSE, legs[s] \ left, FALSE)
        PROVE  Inv'
    <3>1. legs[s] \ left \in SUBSET Tickets /\ legs' \in [Symbols -> SUBSET Tickets]
      BY <1>1, <2>6
    <3>. QED BY <1>1, <1>2, <2>1, <2>6, <3>1, ReportStep
  <2>7. CASE /\ nextTicket <= MaxTicket
             /\ legs' = [legs EXCEPT ![s] = {nextTicket}]
             /\ dir' = [dir EXCEPT ![s] = d]
             /\ nextTicket' = nextTicket + 1
             /\ Report(s, TRUE, legs[s], FALSE)
    <3>1. nextTicket \in Tickets /\ nextTicket' \in 1..(MaxTicket + 1)
      BY <1>1, <2>7, ConstantsAssumption DEF Tickets
    <3>2. /\ legs' \in [Symbols -> SUBSET Tickets] /\ dir' \in [Symbols -> Dirs]
          /\ legs[s] \in SUBSET Tickets
      BY <1>1, <2>2, <2>7, <3>1
    <3>3. legs'[s] # {} /\ dir'[s] = d
      BY <1>1, <2>7
    <3>4. AsTold(s, legs[s], FALSE)
      BY <2>3, <3>3
    <3>. QED BY <1>2, <2>1, <2>7, <3>1, <3>2, <3>4, ReportStep
  <2>. QED BY <1>4, <2>4, <2>5, <2>6, <2>7 DEF EaExecute, d
<1>5. ASSUME NEW verb \in {"move_sl", "reset_brake"}, Obeys(s, verb),
             UNCHANGED <<legs, dir, nextTicket>>,
             NEW ok \in BOOLEAN, Report(s, ok, {}, ok)
      PROVE  Inv'
  <2>1. ok => AsTold(s, {}, ok)
    BY <1>5 DEF AsTold, Obeys
  <2>. QED BY <1>1, <1>2, <1>5, <2>1, ReportStep
<1>8. CASE EaMoveStops(s)
  <2>1. PICK ok \in BOOLEAN : Report(s, ok, {}, ok)
    BY <1>8 DEF EaMoveStops
  <2>. QED BY <1>5, <1>8, <2>1 DEF EaMoveStops
<1>9. CASE EaResetBrake(s)
  <2>1. PICK ok \in BOOLEAN : Report(s, ok, {}, ok)
    BY <1>9 DEF EaResetBrake
  <2>. QED BY <1>5, <1>9, <2>1 DEF EaResetBrake
<1>6. CASE EaCloseTicket(s)
  <2>. DEFINE t == reply[s].ticket
  <2>1. /\ Obeys(s, "close_ticket") /\ UNCHANGED <<dir, nextTicket>>
        /\ reply[s].verb = "close_ticket"
    BY <1>6 DEF EaCloseTicket, Obeys
  <2>5. ASSUME NEW closed, Cardinality(closed) = 1 PROVE AsTold(s, closed, FALSE)
    BY <2>1, <2>5 DEF AsTold
  <2>2. ASSUME NEW o \in Symbols, t \in legs[o],
               legs' = [legs EXCEPT ![o] = @ \ {t}], Report(s, TRUE, {t}, FALSE)
        PROVE  Inv'
    <3>1. {t} \in SUBSET Tickets /\ legs' \in [Symbols -> SUBSET Tickets]
      BY <1>1, <2>2
    <3>2. AsTold(s, {t}, FALSE)
      BY <2>5, FS_Singleton
    <3>. QED BY <1>1, <1>2, <2>1, <2>2, <3>1, <3>2, ReportStep
  <2>3. CASE /\ Cardinality(legs[s]) = 1 /\ legs' = [legs EXCEPT ![s] = {}]
             /\ Report(s, TRUE, legs[s], FALSE)
    <3>1. legs[s] \in SUBSET Tickets /\ legs' \in [Symbols -> SUBSET Tickets]
      BY <1>1, <2>3
    <3>2. AsTold(s, legs[s], FALSE)
      BY <2>3, <2>5
    <3>. QED BY <1>1, <1>2, <2>1, <2>3, <3>1, <3>2, ReportStep
  <2>4. CASE UNCHANGED legs /\ Report(s, FALSE, {}, FALSE)
    <3>1. /\ legs' \in [Symbols -> SUBSET Tickets] /\ dir' \in [Symbols -> Dirs]
          /\ nextTicket' \in 1..(MaxTicket + 1) /\ {} \in SUBSET Tickets
      BY <1>1, <2>1, <2>4
    <3>. QED BY <1>2, <2>1, <2>4, <3>1, ReportStep
  <2>. QED BY <1>6, <2>2, <2>3, <2>4 DEF EaCloseTicket
<1>7. CASE EaCloseAll(s)
  <2>1. /\ Obeys(s, "close_all") /\ UNCHANGED <<dir, nextTicket>>
        /\ reply[s].verb = "close_all"
    BY <1>7 DEF EaCloseAll, Obeys
  <2>2. PICK left \in SUBSET legs[s] :
          /\ legs' = [legs EXCEPT ![s] = left]
          /\ Report(s, left = {}, legs[s] \ left, FALSE)
    BY <1>7 DEF EaCloseAll
  <2>3. /\ legs[s] \ left \in SUBSET Tickets /\ legs' \in [Symbols -> SUBSET Tickets]
        /\ (left = {}) \in BOOLEAN
        /\ left = {} => legs'[s] = {}
    BY <1>1, <2>2
  <2>4. left = {} => AsTold(s, legs[s] \ left, FALSE)
    BY <2>1, <2>3 DEF AsTold
  <2>. QED BY <1>1, <1>2, <2>1, <2>2, <2>3, <2>4, ReportStep, ZenonT(30)
<1>. QED BY <1>3, <1>4, <1>6, <1>7, <1>8, <1>9 DEF EaStep

-----------------------------------------------------------------------------
(* The clock, the basket, results and restarts                             *)

LEMMA TickStep ==
  ASSUME Inv, Tick
  PROVE  Inv'
<1>1. age' \in [Pids -> Nat]
  BY DEF Tick, Inv, TypeOK
<1>2. TypeOK' /\ Guarded' = Guarded
  BY <1>1 DEF Tick, Inv, TypeOK, Guarded, memVars, eaVars, historyVars
<1>. QED BY <1>2, QuietStep DEF Tick, eaVars, historyVars

LEMMA BasketStep ==
  ASSUME Inv, NEW s \in Symbols,
         (\E d \in Dirs : EaOpens(s, d)) \/ (\E t \in Tickets : BrokerStops(s, t))
  PROVE  Inv'
<1>. USE DEF Inv
<1>1. ASSUME NEW d \in Dirs, EaOpens(s, d) PROVE Inv'
  <2>1. nextTicket \in Tickets /\ nextTicket' \in 1..(MaxTicket + 1)
    BY <1>1, ConstantsAssumption DEF EaOpens, TypeOK, Tickets
  <2>2. legs' \in [Symbols -> SUBSET Tickets] /\ dir' \in [Symbols -> Dirs]
    BY <1>1, <2>1 DEF EaOpens, TypeOK
  <2>3. TypeOK' /\ Guarded' = Guarded
    BY <1>1, <2>1, <2>2 DEF EaOpens, TypeOK, Guarded, rowVars, memVars, historyVars
  <2>. QED BY <1>1, <2>3, QuietStep DEF EaOpens, rowVars, historyVars
<1>2. ASSUME NEW t \in Tickets, BrokerStops(s, t) PROVE Inv'
  <2>1. legs' \in [Symbols -> SUBSET Tickets]
    BY <1>2 DEF BrokerStops, TypeOK
  <2>2. TypeOK' /\ Guarded' = Guarded
    BY <1>2, <2>1 DEF BrokerStops, TypeOK, Guarded, rowVars, memVars, historyVars
  <2>. QED BY <1>2, <2>2, QuietStep DEF BrokerStops, rowVars, historyVars
<1>. QED BY <1>1, <1>2

LEMMA ResultStep ==
  ASSUME Inv, NEW r \in Result, ResultArrives(r) \/ ResultLost(r)
  PROVE  Inv'
<1>. USE DEF Inv
<1>1. CASE ResultArrives(r)
  <2>. DEFINE to == IF r.ok THEN "executed" ELSE "blocked"
  <2>1. /\ r \in results /\ results' = results \ {r}
        /\ CompareAndSet(r.pid, "dispatched", to)
        /\ UNCHANGED <<lastPid, row, memVars, beat, reply, legs, dir, nextTicket, historyVars>>
    BY <1>1 DEF ResultArrives
  <2>2. to \in Statuses /\ to \in {"executed", "blocked"}
    BY DEF Statuses, Terminal
  <2>3. /\ status' \in [Pids -> Statuses] /\ age' \in [Pids -> Nat]
        /\ \A q \in Pids : status'[q] # status[q] => status[q] = "dispatched" /\ status'[q] = to
    BY <2>1, <2>2, CompareAndSetType
  <2>4. \A q \in Pids : status'[q] # status[q] => q = r.pid
    BY <2>1 DEF CompareAndSet, TypeOK
  <2>5. TypeOK'
    BY <2>1, <2>3 DEF TypeOK, memVars, historyVars
  <2>6. Room'
    <3>1. lastPid' = lastPid /\ Guarded' = Guarded
      BY <2>1 DEF Guarded, memVars
    <3>. QED BY <3>1, SameRoom
  <2>7. Unborn'
    BY <2>1, <2>3 DEF Unborn
  <2>8. effect[r.pid].runs = 1 /\ (r.ok => Kept(r.pid))
    BY <2>1 DEF Delivery, Reported
  <2>9. Delivery'
    <3>1. \A q \in Pids : status'[q] \in Untouched => status[q] \in Untouched
      BY <2>2, <2>3 DEF Untouched
    <3>2. \A q \in Pids : status'[q] = "executed" =>
            status[q] = "executed" \/ (effect[q].runs = 1 /\ Kept(q))
      BY <2>3, <2>4, <2>8
    <3>. QED BY <2>1, <3>1, <3>2, DeliveryKept DEF historyVars
  <2>. QED BY <2>5, <2>6, <2>7, <2>9
<1>2. CASE ResultLost(r)
  <2>1. TypeOK' /\ Guarded' = Guarded
    BY <1>2 DEF ResultLost, TypeOK, Guarded, rowVars, memVars, historyVars
  <2>. QED BY <1>2, <2>1, QuietStep DEF ResultLost, rowVars, historyVars
<1>. QED BY <1>1, <1>2

LEMMA RestartStep ==
  ASSUME Inv, Restart
  PROVE  Inv'
<1>. USE DEF Inv
<1>1. /\ restarts' = restarts + 1 /\ restarts < MaxRestarts
      /\ hb' = [s \in Symbols |-> "none"]
      /\ lastSym' = AnyEa
      /\ pendingTicket' = [s \in Symbols |-> 0]
      /\ task' = [w \in Slots |-> IdleTask]
      /\ study' = [s \in Symbols |-> IdleStudy]
      /\ beat' = [s \in Symbols |-> IF beat[s] = "replied" THEN "replied" ELSE "idle"]
      /\ reply' = [s \in Symbols |-> IF beat[s] = "replied" THEN reply[s] ELSE NoReply]
      /\ UNCHANGED <<rowVars, results, legs, dir, nextTicket, historyVars>>
  BY DEF Restart
<1>2. /\ restarts' \in 0..MaxRestarts /\ lastSym' \in Lanes
      /\ hb' \in [Symbols -> {"none", "flat", "open"}]
      /\ pendingTicket' \in [Symbols -> 0..MaxTicket]
  BY <1>1, ConstantsAssumption DEF TypeOK, Lanes
<1>3. /\ task' \in [Slots -> Task]
      /\ study' \in [Symbols -> Study]
      /\ beat' \in [Symbols -> {"idle", "posted", "popped", "replied"}]
      /\ reply' \in [Symbols -> Command \cup Popped \cup {NoReply}]
  BY <1>1 DEF TypeOK, Task, IdleTask, Study, IdleStudy
<1>4. TypeOK'
  BY <1>1, <1>2, <1>3 DEF TypeOK, rowVars, historyVars
<1>5. Guarded' = {}
  BY <1>1 DEF Guarded, IdleTask
<1>. QED BY <1>1, <1>4, <1>5, QuietStep DEF rowVars, historyVars

-----------------------------------------------------------------------------
(* The theorems                                                            *)

\* The inductive invariant of the rail holds in the beginning, with nothing sent or done.
THEOREM InvInit == Init => Inv
<1>. SUFFICES ASSUME Init PROVE Inv
  OBVIOUS
<1>1. TypeOK
  <2>1. /\ lastPid \in 0..MaxProposals /\ restarts \in 0..MaxRestarts
        /\ nextTicket \in 1..(MaxTicket + 1) /\ 0 \in 0..MaxTicket
    BY ConstantsAssumption DEF Init
  <2>2. /\ NoRow \in Row /\ NoWish \in Wish /\ NoEffect \in Effect /\ AnyEa \in Lanes
    BY <2>1 DEF NoRow, Row, NoWish, Wish, NoEffect, Effect, Kinds, Dirs, Lanes, Verbs
  <2>3. IdleTask \in Task /\ IdleStudy \in Study /\ "none" \in Statuses
    BY DEF IdleTask, Task, IdleStudy, Study, Statuses
  <2>. QED BY <2>1, <2>2, <2>3 DEF Init, TypeOK, Dirs
<1>2. Guarded = {}
  BY DEF Init, Guarded, IdleTask
<1>3. Room /\ Unborn
  BY <1>2, FS_EmptySet, ConstantsAssumption DEF Init, Room, Unborn
<1>4. Delivery
  BY DEF Init, Delivery, Unhanded, OnTheWay, Reported, Done, Carries, NoEffect
<1>. QED BY <1>1, <1>3, <1>4 DEF Inv

LEMMA StutterStep ==
  ASSUME Inv, UNCHANGED vars
  PROVE  Inv'
<1>1. TypeOK' /\ Guarded' = Guarded
  BY DEF Inv, TypeOK, Guarded, vars, rowVars, memVars, eaVars, historyVars
<1>. QED BY <1>1, QuietStep DEF vars, rowVars, memVars, eaVars, historyVars

\* Every step of the code keeps it, failures, losses and restarts included.
THEOREM InvStep == Inv /\ [Next]_vars => Inv'
BY TickStep, TapStep, TaskStepKeeps, DecideKeeps, AnalyzeStep, BeatStep, BeatPopStep, BeatAnswerStep,
   EaStepKeeps, BasketStep, ResultStep, RestartStep, StutterStep
   DEF Next

\* So it holds in every reachable state.
THEOREM InvHolds == Spec => []Inv
BY InvInit, InvStep, PTL DEF Spec

\* The rail keeps its types: rows, tasks, responses and results are what the
\* tables and messages of the code can hold.
THEOREM TypeCorrect == Spec => []TypeOK
<1>1. Inv => TypeOK
  BY DEF Inv
<1>. QED BY <1>1, InvHolds, PTL

\* No command is carried out twice, or before it was handed over, whatever is
\* lost, decided twice or restarted (pop_approved_command, the sweep).
THEOREM NeverTwice == Spec => []RunsOnce
<1>1. Inv => RunsOnce
  <2>. SUFFICES ASSUME Inv, NEW p \in Pids
                PROVE  /\ effect[p].runs <= 1
                       /\ effect[p].runs = 1 => status[p] \in {"dispatched", "executed", "blocked"}
    BY DEF RunsOnce
  <2>1. effect[p].runs <= 1
    BY DEF Inv, Delivery, Done
  <2>2. status[p] \in Statuses /\ (effect[p].runs = 1 => status[p] \notin Untouched)
    BY DEF Inv, TypeOK, Delivery, Unhanded
  <2>. QED BY <2>1, <2>2 DEF Statuses, Live, Terminal, Untouched
<1>. QED BY <1>1, InvHolds, PTL

\* "executed" is true: the row was carried out and got what it asked for, or
\* was handed over as another command that did all of its work (the EA's
\* results, proposal_result, the commands of the heartbeat).
THEOREM Truthful == Spec => []ExecutedIsTrue
<1>1. Inv => ExecutedIsTrue
  BY DEF Inv, Delivery, Done, ExecutedIsTrue
<1>. QED BY <1>1, InvHolds, PTL

\* A command is carried out by the chart it names, or by any if it names none,
\* whichever heartbeat popped it (UiApi's check of target_symbol).
THEOREM Addressed == Spec => []RightChart
<1>1. Inv => RightChart
  BY DEF Inv, Delivery, Done, RightChart
<1>. QED BY <1>1, InvHolds, PTL

-----------------------------------------------------------------------------
(* What a step may do to the rows                                          *)

\* A row is taken off the rail, or approved.
Decided == \E expected \in {"pending", "approved"}, to \in {"approved", "skipped", "expired"} : \E p :
  /\ expected = "approved" => to # "approved"
  /\ CompareAndSet(p, expected, to)
  /\ UNCHANGED <<row, wish, effect>>

Created == \E r \in Row, w \in Wish :
  lastPid < MaxProposals /\ Create(r, w) /\ UNCHANGED effect

\* An EA carries out the command it was answered with.
CarriedOut == \E s \in Symbols : \E ok, closed, adjusted :
  /\ reply[s] # NoReply /\ reply[s] \in Command
  /\ Report(s, ok, closed, adjusted)
  /\ UNCHANGED <<status, row, wish>>

Resting == UNCHANGED <<status, row, wish, effect>>

RowsMove ==
  \/ Resting \/ Created \/ Decided \/ CarriedOut
  \/ \E s \in Symbols : BeatPop(s)
  \/ \E r \in Result : ResultArrives(r)

LEMMA TapsRest ==
  ASSUME Taps
  PROVE  Resting
<1>1. ASSUME NEW w, NEW a, NEW sym, StartTask(w, a, sym) PROVE Resting
  BY <1>1 DEF StartTask, Resting, rowVars, historyVars
<1>2. \A tap, kind, verb : AgentIntent(tap, kind, verb) => Resting
  BY <1>1 DEF AgentIntent
<1>3. \A kind : TapOnBasket(kind) => Resting
  BY <1>1 DEF TapOnBasket
<1>4. TapExitNow \/ TapManualEntry \/ TapBrakeReset \/ TapStop => Resting
  BY <1>1 DEF TapExitNow, TapManualEntry, TapBrakeReset, TapStop
<1>5. TapCloseAll \/ TapClosePosition \/ TapQuickEntry => Resting
  BY <1>1 DEF TapCloseAll, TapClosePosition, TapQuickEntry
<1>. QED BY <1>2, <1>3, <1>4, <1>5 DEF Taps

LEMMA TasksMoveRows ==
  ASSUME Inv, NEW w \in Slots, TaskStep(w)
  PROVE  RowsMove
<1>0. task[w] \in Task
  BY DEF Inv, TypeOK
<1>1. CASE TaskCreate(w)
  <2>1. /\ w \in Guarded /\ task[w].row \in Row /\ task[w].wish \in Wish
        /\ Create(task[w].row, task[w].wish) /\ UNCHANGED effect
    BY <1>0, <1>1 DEF TaskCreate, Guarded, Task
  <2>2. Cardinality(Guarded) # 0
    BY <2>1, GuardedFinite, FS_EmptySet
  <2>3. lastPid < MaxProposals
    BY <2>2, GuardedFinite, ConstantsAssumption DEF Inv, Room, TypeOK
  <2>4. Created
    BY <2>1, <2>3 DEF Created
  <2>. QED BY <2>4 DEF RowsMove
<1>2. CASE TaskApprove(w)
  <2>1. CompareAndSet(task[w].pid, "pending", "approved") /\ UNCHANGED <<row, wish, effect>>
    BY <1>2 DEF TaskApprove, historyVars
  <2>2. Decided
    BY <2>1 DEF Decided
  <2>. QED BY <2>2 DEF RowsMove
<1>3. CASE TaskNoteTicket(w)
  <2>1. Resting
    BY <1>3 DEF TaskNoteTicket, Resting, rowVars, historyVars
  <2>. QED BY <2>1 DEF RowsMove
<1>. QED BY <1>1, <1>2, <1>3 DEF TaskStep

\* The row an analysis creates.
Proposal(s) == IF study[s].signal = "EXIT" THEN Ask("exit", "BUY", s, "close_all", 0)
                                           ELSE Ask("entry", study[s].signal, s, "execute", 0)

Proposed(s) ==
  /\ WouldPropose(s) /\ RoomForRow
  /\ Create(Proposal(s).row, Proposal(s).wish)
  /\ UNCHANGED <<effect, task>>

LEMMA ProposedIsNew ==
  ASSUME Inv, NEW s \in Symbols, Proposed(s)
  PROVE  /\ Proposal(s).row \in Row /\ Proposal(s).wish \in Wish
         /\ Proposal(s).row.kind \in {"entry", "exit"}
         /\ lastPid < MaxProposals /\ Create(Proposal(s).row, Proposal(s).wish)
         /\ UNCHANGED effect
<1>1. lastPid + Cardinality(Guarded) < MaxProposals
  BY DEF Proposed, RoomForRow, Guarded
<1>2. lastPid < MaxProposals
  BY <1>1, GuardedFinite, ConstantsAssumption DEF Inv, TypeOK
<1>3. CASE study[s].signal = "EXIT"
  <2>1. Proposal(s) = Ask("exit", "BUY", s, "close_all", 0)
    BY <1>3 DEF Proposal
  <2>2. Proposal(s).row \in Row /\ Proposal(s).wish \in Wish
    BY <2>1, AskType, ConstantsAssumption DEF Kinds, Dirs, Lanes, Verbs
  <2>3. Proposal(s).row.kind = "exit"
    BY <2>1 DEF Ask
  <2>. QED BY <1>2, <2>2, <2>3 DEF Proposed
<1>4. CASE study[s].signal # "EXIT"
  <2>1. Proposal(s) = Ask("entry", study[s].signal, s, "execute", 0) /\ study[s].signal \in Dirs
    BY <1>4 DEF Proposal, Proposed, WouldPropose
  <2>2. Proposal(s).row \in Row /\ Proposal(s).wish \in Wish
    BY <2>1, AskType, ConstantsAssumption DEF Kinds, Lanes, Verbs
  <2>3. Proposal(s).row.kind = "entry"
    BY <2>1 DEF Ask
  <2>. QED BY <1>2, <2>2, <2>3 DEF Proposed
<1>. QED BY <1>3, <1>4

LEMMA AnalysesMoveRows ==
  ASSUME Inv, NEW s \in Symbols,
         \/ AnalyzeRead(s) \/ AnalyzeExpirePending(s)
         \/ AnalyzeExpireApproved(s) \/ AnalyzePropose(s)
  PROVE  RowsMove
<1>1. CASE AnalyzeRead(s)
  <2>1. Resting
    BY <1>1 DEF AnalyzeRead, Resting, rowVars, historyVars
  <2>. QED BY <2>1 DEF RowsMove
<1>2. CASE AnalyzeExpirePending(s)
  <2>1. /\ \/ CompareAndSet(study[s].pending, "pending", "expired")
           \/ UNCHANGED status
        /\ UNCHANGED <<row, wish, effect>>
    BY <1>2 DEF AnalyzeExpirePending, historyVars
  <2>2. Decided \/ Resting
    BY <2>1 DEF Decided, Resting
  <2>. QED BY <2>2 DEF RowsMove
<1>3. CASE AnalyzeExpireApproved(s)
  <2>1. /\ \/ CompareAndSet(study[s].approved, "approved", "expired")
           \/ UNCHANGED status
        /\ UNCHANGED <<row, wish, effect>>
    BY <1>3 DEF AnalyzeExpireApproved, historyVars
  <2>2. Decided \/ Resting
    BY <2>1 DEF Decided, Resting
  <2>. QED BY <2>2 DEF RowsMove
<1>4. CASE AnalyzePropose(s)
  <2>1. Resting \/ Proposed(s)
    BY <1>4 DEF AnalyzePropose, Resting, Proposed, Proposal
  <2>2. CASE Proposed(s)
    BY <2>2, ProposedIsNew DEF RowsMove, Created
  <2>. QED BY <2>1, <2>2 DEF RowsMove
<1>. QED BY <1>1, <1>2, <1>3, <1>4

LEMMA EaMovesRows ==
  ASSUME Inv, NEW s \in Symbols, EaStep(s)
  PROVE  RowsMove
<1>1. ASSUME NEW verb \in Verbs, NEW ok, NEW closed, NEW adjusted,
             Obeys(s, verb), Report(s, ok, closed, adjusted)
      PROVE  RowsMove
  <2>1. /\ reply[s] # NoReply /\ reply[s].verb = verb /\ UNCHANGED <<status, row, wish>>
    BY <1>1 DEF Obeys, rowVars
  <2>2. reply[s] \in Command
    BY <2>1, RepliesDiffer DEF Inv, TypeOK
  <2>3. CarriedOut
    BY <1>1, <2>1, <2>2 DEF CarriedOut
  <2>. QED BY <2>3 DEF RowsMove
<1>2. {"execute", "move_sl", "reset_brake", "close_ticket", "close_all"} \subseteq Verbs
  BY DEF Verbs
<1>3. CASE EaIgnore(s)
  <2>1. Resting
    BY <1>3 DEF EaIgnore, Resting, rowVars, historyVars
  <2>. QED BY <2>1 DEF RowsMove
<1>4. CASE EaExecute(s)
  <2>1. Obeys(s, "execute") /\ \E ok, closed : Report(s, ok, closed, FALSE)
    BY <1>4 DEF EaExecute
  <2>. QED BY <1>1, <1>2, <2>1
<1>5. CASE EaMoveStops(s)
  BY <1>1, <1>2, <1>5 DEF EaMoveStops
<1>8. CASE EaResetBrake(s)
  BY <1>1, <1>2, <1>8 DEF EaResetBrake
<1>6. CASE EaCloseTicket(s)
  <2>1. Obeys(s, "close_ticket") /\ \E ok, closed : Report(s, ok, closed, FALSE)
    BY <1>6 DEF EaCloseTicket
  <2>. QED BY <1>1, <1>2, <2>1
<1>7. CASE EaCloseAll(s)
  <2>1. Obeys(s, "close_all") /\ \E ok, closed : Report(s, ok, closed, FALSE)
    BY <1>7 DEF EaCloseAll
  <2>. QED BY <1>1, <1>2, <2>1
<1>. QED BY <1>3, <1>4, <1>5, <1>6, <1>7, <1>8 DEF EaStep

\* Every step.
LEMMA RowStep ==
  ASSUME Inv, [Next]_vars
  PROVE  RowsMove
<1>1. Tick \/ Restart \/ UNCHANGED vars => Resting
  BY DEF Tick, Restart, Resting, vars, rowVars, historyVars
<1>2. ASSUME NEW p \in Pids, NEW to \in {"approved", "skipped"}, Decide(p, to) PROVE Decided
  <2>1. CompareAndSet(p, "pending", to) /\ UNCHANGED <<row, wish, effect>>
    BY <1>2 DEF Decide, historyVars
  <2>. QED BY <2>1 DEF Decided
<1>3. ASSUME NEW s \in Symbols, BeatArrive(s) \/ BeatAnswer(s) \/ ReplyLost(s) PROVE Resting
  BY <1>3 DEF BeatArrive, BeatAnswer, ReplyLost, Resting, rowVars, historyVars
<1>4. ASSUME NEW s \in Symbols, NEW d \in Dirs, EaOpens(s, d) PROVE Resting
  BY <1>4 DEF EaOpens, Resting, rowVars, historyVars
<1>5. ASSUME NEW s \in Symbols, NEW t \in Tickets, BrokerStops(s, t) PROVE Resting
  BY <1>5 DEF BrokerStops, Resting, rowVars, historyVars
<1>6. ASSUME NEW r \in Result, ResultLost(r) PROVE Resting
  BY <1>6 DEF ResultLost, Resting, rowVars, historyVars
<1>. QED
  BY <1>1, <1>2, <1>3, <1>4, <1>5, <1>6, TapsRest, TasksMoveRows, AnalysesMoveRows, EaMovesRows
     DEF Next, RowsMove

-----------------------------------------------------------------------------
(* One row of a kind in flight                                             *)

LiveRow(kind) == \E p \in Pids : status[p] \in Live /\ row[p].kind = kind

LEMMA InFlightIs == \A kind : InFlight(kind) <=> LiveRow(kind)
BY DEF InFlight, RowsOf, RowsWith, LiveRow

\* A tap that has yet to create its row of a kind of the event loop was started
\* there, and no row of the kind has come to be in flight since its guard.
Alone(w) == task[w].pc = "guarded" /\ task[w].row.kind \in LoopKinds =>
  w = "loop" /\ ~LiveRow(task[w].row.kind)

Single == SingleInFlight /\ \A w \in Slots : Alone(w)

\* The guards of the taps, as far as the kinds of the event loop go.
LEMMA TapGuards ==
  ASSUME Taps
  PROVE  \E w \in Slots : \E a, sym :
           /\ StartTask(w, a, sym)
           /\ a.row.kind \in LoopKinds => w = "loop" /\ ~LiveRow(a.row.kind)
<1>. DEFINE Goal == \E w \in Slots : \E a, sym :
                      /\ StartTask(w, a, sym)
                      /\ a.row.kind \in LoopKinds => w = "loop" /\ ~LiveRow(a.row.kind)
<1>1. ASSUME NEW w \in Slots, NEW a, NEW sym, StartTask(w, a, sym),
             a.row.kind \in LoopKinds => w = "loop" /\ ~LiveRow(a.row.kind)
      PROVE  Goal
  BY <1>1
<1>. HIDE DEF Goal
<1>2. \A k, d, l, v, t : Ask(k, d, l, v, t).row.kind = k
  BY DEF Ask
<1>3. "entry" \notin LoopKinds /\ "exit" \notin LoopKinds /\ "loop" \in Slots /\ "dash" \in Slots
  BY DEF LoopKinds, Slots
<1>4. TapExitNow \/ TapManualEntry \/ TapStop => Goal
  BY <1>1, <1>2, <1>3 DEF TapExitNow, TapManualEntry, TapStop
<1>5. TapCloseAll \/ TapClosePosition \/ TapQuickEntry => Goal
  BY <1>1, <1>2, <1>3 DEF TapCloseAll, TapClosePosition, TapQuickEntry
<1>6. \A kind : TapOnBasket(kind) => Goal
  BY <1>1, <1>2, <1>3, InFlightIs DEF TapOnBasket
<1>7. TapBrakeReset => Goal
  BY <1>1, <1>2, <1>3, InFlightIs DEF TapBrakeReset
<1>8. \A tap, kind, verb : AgentIntent(tap, kind, verb) => Goal
  <2>. SUFFICES ASSUME NEW tap, NEW kind, NEW verb, AgentIntent(tap, kind, verb)
                PROVE  Goal
    OBVIOUS
  <2>1. ~LiveRow(kind) /\ StartTask("loop", Ask(kind, "BUY", AnyEa, verb, 0), AnyEa)
    BY DEF AgentIntent, LiveRow
  <2>. QED BY <1>1, <1>2, <1>3, <2>1
<1>9. Goal
  BY <1>4, <1>5, <1>6, <1>7, <1>8 DEF Taps
<1>. QED BY <1>9 DEF Goal

\* A step that creates no row and lets no tap pass its guard.
LEMMA CalmStep ==
  ASSUME Single, row' = row,
         \A p \in Pids : status'[p] \in Live => status[p] \in Live,
         \A w \in Slots : task'[w].pc = "guarded" => task'[w] = task[w]
  PROVE  Single'
<1>1. \A kind : LiveRow(kind)' => LiveRow(kind)
  BY DEF LiveRow
<1>2. SingleInFlight'
  BY DEF Single, SingleInFlight
<1>3. \A w \in Slots : Alone(w)'
  BY <1>1 DEF Single, Alone
<1>. QED BY <1>2, <1>3 DEF Single

\* A new row, of a kind that is not the event loop's or is not in flight.
LEMMA NewRowStep ==
  ASSUME Inv, Single, lastPid < MaxProposals, NEW r \in Row, NEW wsh \in Wish, Create(r, wsh),
         r.kind \in LoopKinds => ~LiveRow(r.kind),
         \A w \in Slots : task'[w].pc = "guarded" =>
           task'[w] = task[w] /\ (task[w].row.kind \in LoopKinds => task[w].row.kind # r.kind)
  PROVE  Single'
<1>. DEFINE n == lastPid + 1
<1>1. /\ n \in Pids
      /\ \A q \in Pids : q # n => status'[q] = status[q] /\ row'[q] = row[q]
      /\ row'[n] = r
  <2>1. lastPid' = n /\ n \in Pids /\ status' = [status EXCEPT ![n] = "pending"]
        /\ \A q \in Pids : q # n => row'[q] = row[q]
    BY CreateType DEF Inv, Pids, Create
  <2>2. row' = [row EXCEPT ![n] = r]
    BY DEF Create
  <2>. QED BY <2>1, <2>2 DEF Inv, TypeOK
<1>. HIDE DEF n
<1>2. \A kind : kind # r.kind /\ LiveRow(kind)' => LiveRow(kind)
  BY <1>1 DEF LiveRow
<1>3. \A w \in Slots : Alone(w)'
  BY <1>2 DEF Single, Alone
<1>4. ASSUME NEW p \in Pids, NEW q \in Pids, status'[p] \in Live, status'[q] \in Live,
             row'[p].kind = row'[q].kind, row'[p].kind \in LoopKinds
      PROVE  p = q
  <2>1. CASE p # n /\ q # n
    BY <1>1, <1>4, <2>1 DEF Single, SingleInFlight
  <2>2. CASE p = n \/ q = n
    <3>1. ~LiveRow(r.kind)
      BY <1>1, <1>4, <2>2
    <3>2. \A x \in Pids : x # n => ~(status'[x] \in Live /\ row'[x].kind = r.kind)
      BY <1>1, <3>1 DEF LiveRow
    <3>. QED BY <1>1, <1>4, <2>2, <3>2
  <2>. QED BY <2>1, <2>2
<1>5. SingleInFlight'
  BY <1>4 DEF SingleInFlight
<1>. QED BY <1>3, <1>5 DEF Single

\* No step but a creation brings a row into flight.
LEMMA OthersLive ==
  ASSUME Inv, Resting \/ Decided \/ CarriedOut \/ (\E s \in Symbols : BeatPop(s))
              \/ \E r \in Result : ResultArrives(r)
  PROVE  row' = row /\ \A p \in Pids : status'[p] \in Live => status[p] \in Live
<1>1. Resting \/ CarriedOut => status' = status /\ row' = row
  BY DEF Resting, CarriedOut
<1>2. ASSUME Decided PROVE row' = row /\ \A p \in Pids : status'[p] \in Live => status[p] \in Live
  <2>1. PICK expected \in {"pending", "approved"}, to \in {"approved", "skipped", "expired"} :
          (\E p : CompareAndSet(p, expected, to)) /\ row' = row
    BY <1>2 DEF Decided
  <2>2. to \in Statuses /\ expected \in Live
    BY DEF Statuses, Live, Terminal
  <2>. QED BY <2>1, <2>2, CompareAndSetType DEF Inv
<1>3. ASSUME NEW s \in Symbols, BeatPop(s)
      PROVE  row' = row /\ \A p \in Pids : status'[p] \in Live => status[p] \in Live
  <2>. DEFINE n == OldestApproved(Swept)
  <2>1. row' = row /\ status' = [q \in Pids |-> IF q = n THEN "dispatched" ELSE Swept[q]]
    BY <1>3 DEF BeatPop
  <2>2. \A q \in Pids : Swept[q] \in Live => status[q] \in Live
    BY DEF Swept, Live
  <2>3. n \in Pids => Swept[n] = "approved"
    BY OldestApprovedType DEF Pids
  <2>. HIDE DEF n
  <2>. QED BY <2>1, <2>2, <2>3 DEF Live
<1>4. ASSUME NEW r \in Result, ResultArrives(r)
      PROVE  row' = row /\ \A p \in Pids : status'[p] \in Live => status[p] \in Live
  <2>1. row' = row /\ \E to \in {"executed", "blocked"} : CompareAndSet(r.pid, "dispatched", to)
    BY <1>4 DEF ResultArrives
  <2>2. "executed" \in Statuses \ Live /\ "blocked" \in Statuses \ Live
    BY DEF Statuses, Live, Terminal
  <2>. QED BY <2>1, <2>2, CompareAndSetType DEF Inv
<1>. QED BY <1>1, <1>2, <1>3, <1>4

LEMMA SingleStep ==
  ASSUME Inv, Single, [Next]_vars
  PROVE  Single'
<1>. USE DEF Inv
<1>a. task \in [Slots -> Task]
  BY DEF TypeOK
<1>1. CASE Taps
  <2>0. PICK w \in Slots : \E a, sym :
          /\ StartTask(w, a, sym)
          /\ a.row.kind \in LoopKinds => w = "loop" /\ ~LiveRow(a.row.kind)
    BY <1>1, TapGuards
  <2>1. PICK a, sym :
          /\ StartTask(w, a, sym)
          /\ a.row.kind \in LoopKinds => w = "loop" /\ ~LiveRow(a.row.kind)
    BY <2>0
  <2>2. /\ task' = [task EXCEPT ![w] = [pc |-> "guarded", row |-> a.row, wish |-> a.wish,
                                        sym |-> sym, pid |-> 0]]
        /\ UNCHANGED <<status, row>>
    BY <2>1 DEF StartTask, rowVars
  <2>3. \A kind : LiveRow(kind)' <=> LiveRow(kind)
    BY <2>2 DEF LiveRow
  <2>4. task'[w].row = a.row /\ \A v \in Slots : v # w => task'[v] = task[v]
    BY <1>a, <2>2
  <2>5. \A v \in Slots : Alone(v)'
    BY <2>1, <2>3, <2>4 DEF Single, Alone
  <2>. QED BY <2>2, <2>5 DEF Single, SingleInFlight
<1>2. ASSUME NEW w \in Slots, TaskCreate(w) PROVE Single'
  <2>1. /\ task[w].pc = "guarded" /\ Create(task[w].row, task[w].wish)
        /\ task' = [task EXCEPT ![w].pc = "created", ![w].pid = lastPid + 1]
    BY <1>2 DEF TaskCreate
  <2>2. w \in Guarded /\ task[w].row \in Row /\ task[w].wish \in Wish
    BY <1>a, <2>1 DEF Guarded, Task
  <2>3. lastPid < MaxProposals
    <3>1. Cardinality(Guarded) # 0
      BY <2>2, GuardedFinite, FS_EmptySet
    <3>. QED BY <3>1, GuardedFinite, ConstantsAssumption DEF Room, TypeOK
  <2>4. task'[w].pc = "created" /\ \A v \in Slots : v # w => task'[v] = task[v]
    BY <1>a, <2>1 DEF Task
  <2>5. task[w].row.kind \in LoopKinds => w = "loop" /\ ~LiveRow(task[w].row.kind)
    BY <2>1 DEF Single, Alone
  <2>6. ASSUME NEW v \in Slots, task'[v].pc = "guarded", task[v].row.kind \in LoopKinds
        PROVE  task[v].row.kind # task[w].row.kind
    <3>1. v # w /\ task[v].pc = "guarded"
      BY <2>4, <2>6
    <3>2. v = "loop"
      BY <2>6, <3>1 DEF Single, Alone
    <3>. QED BY <2>5, <2>6, <3>1, <3>2
  <2>. QED BY <2>1, <2>2, <2>3, <2>4, <2>5, <2>6, NewRowStep
<1>3. ASSUME NEW s \in Symbols, Proposed(s) PROVE Single'
  <2>1. Proposal(s).row.kind \notin LoopKinds
    BY <1>3, ProposedIsNew DEF LoopKinds
  <2>2. task' = task
    BY <1>3 DEF Proposed
  <2>. QED BY <1>3, <2>1, <2>2, ProposedIsNew, NewRowStep
<1>4. ASSUME row' = row, \A p \in Pids : status'[p] \in Live => status[p] \in Live,
             task' = task
      PROVE  Single'
  BY <1>4, CalmStep
<1>5. ASSUME NEW w \in Slots, TaskApprove(w) \/ TaskNoteTicket(w) PROVE Single'
  <2>1. Resting \/ Decided
    <3>1. TaskApprove(w) => CompareAndSet(task[w].pid, "pending", "approved") /\ UNCHANGED <<row, wish, effect>>
      BY DEF TaskApprove, historyVars
    <3>2. TaskNoteTicket(w) => Resting
      BY DEF TaskNoteTicket, Resting, rowVars, historyVars
    <3>. QED BY <1>5, <3>1, <3>2 DEF Decided
  <2>2. task[w].pc \in {"created", "approved"}
    BY <1>5 DEF TaskApprove, TaskNoteTicket
  <2>3. \A v \in Slots : v # w => task'[v] = task[v]
    BY <1>5, <1>a DEF TaskApprove, TaskNoteTicket
  <2>4. task'[w].pc # "guarded"
    <3>1. task'[w] = [task[w] EXCEPT !.pc = "approved"] \/ task'[w] = IdleTask
      BY <1>5, <1>a DEF TaskApprove, TaskNoteTicket
    <3>. QED BY <1>a, <2>2, <3>1 DEF IdleTask, Task
  <2>. QED BY <2>1, <2>3, <2>4, OthersLive, CalmStep
<1>6. ASSUME NEW s \in Symbols, AnalyzePropose(s), ~Proposed(s) PROVE Single'
  <2>1. UNCHANGED <<status, row, task>>
    BY <1>6 DEF AnalyzePropose, Proposed, Proposal
  <2>. QED BY <1>4, <2>1
<1>7. ASSUME NEW s \in Symbols, AnalyzeRead(s) \/ AnalyzeExpirePending(s) \/ AnalyzeExpireApproved(s)
      PROVE  Single'
  <2>1. Resting \/ Decided
    <3>1. AnalyzeRead(s) => Resting
      BY DEF AnalyzeRead, Resting, rowVars, historyVars
    <3>2. AnalyzeExpirePending(s) =>
            /\ CompareAndSet(study[s].pending, "pending", "expired") \/ UNCHANGED status
            /\ UNCHANGED <<row, wish, effect>>
      BY DEF AnalyzeExpirePending, historyVars
    <3>3. AnalyzeExpireApproved(s) =>
            /\ CompareAndSet(study[s].approved, "approved", "expired") \/ UNCHANGED status
            /\ UNCHANGED <<row, wish, effect>>
      BY DEF AnalyzeExpireApproved, historyVars
    <3>. QED BY <1>7, <3>1, <3>2, <3>3 DEF Decided, Resting
  <2>2. task' = task
    BY <1>7 DEF AnalyzeRead, AnalyzeExpirePending, AnalyzeExpireApproved
  <2>. QED BY <1>4, <2>1, <2>2, OthersLive
<1>8. ASSUME NEW s \in Symbols, BeatArrive(s) \/ BeatAnswer(s) \/ ReplyLost(s) PROVE Single'
  <2>1. UNCHANGED <<status, row, task>>
    BY <1>8 DEF BeatArrive, BeatAnswer, ReplyLost, rowVars, memVars
  <2>. QED BY <1>4, <2>1
<1>9. ASSUME NEW s \in Symbols, BeatPop(s) PROVE Single'
  <2>1. task' = task
    BY <1>9 DEF BeatPop, memVars
  <2>. QED BY <1>4, <1>9, <2>1, OthersLive
<1>10. ASSUME NEW s \in Symbols, EaStep(s) PROVE Single'
  <2>1. UNCHANGED <<rowVars, memVars>>
    BY <1>10 DEF EaStep, EaIgnore, EaExecute, EaMoveStops, EaResetBrake, EaCloseTicket, EaCloseAll, Obeys
  <2>. QED BY <1>4, <2>1 DEF rowVars, memVars
<1>11. ASSUME NEW s \in Symbols,
              (\E d \in Dirs : EaOpens(s, d)) \/ (\E t \in Tickets : BrokerStops(s, t))
       PROVE  Single'
  <2>1. UNCHANGED <<rowVars, memVars>>
    BY <1>11 DEF EaOpens, BrokerStops
  <2>. QED BY <1>4, <2>1 DEF rowVars, memVars
<1>12. ASSUME NEW r \in Result, ResultArrives(r) PROVE Single'
  <2>1. task' = task
    BY <1>12 DEF ResultArrives, memVars
  <2>. QED BY <1>4, <1>12, <2>1, OthersLive
<1>13. ASSUME NEW r \in Result, ResultLost(r) PROVE Single'
  BY <1>4, <1>13 DEF ResultLost, rowVars, memVars
<1>14. ASSUME NEW p \in Pids, NEW to \in {"approved", "skipped"}, Decide(p, to) PROVE Single'
  <2>1. Decided
    BY <1>14 DEF Decide, Decided, historyVars
  <2>2. task' = task
    BY <1>14 DEF Decide, memVars
  <2>. QED BY <1>4, <2>1, <2>2, OthersLive
<1>15. Restart => Single'
  <2>. SUFFICES ASSUME Restart PROVE Single'
    OBVIOUS
  <2>1. UNCHANGED <<status, row>> /\ task' = [w \in Slots |-> IdleTask]
    BY DEF Restart, rowVars
  <2>. QED BY <2>1, CalmStep DEF IdleTask
<1>16. Tick \/ UNCHANGED vars => Single'
  BY <1>4 DEF Tick, vars, rowVars, memVars
<1>. QED
  BY <1>1, <1>2, <1>3, <1>5, <1>6, <1>7, <1>8, <1>9, <1>10, <1>11, <1>12, <1>13, <1>14, <1>15, <1>16
     DEF Next, TaskStep

\* No two rows of a kind that only the event loop creates are in flight, however
\* taps, approvals, heartbeats and restarts interleave (the guards of
\* callbacks.py and of the agent's broker).
THEOREM OneInFlight == Spec => []SingleInFlight
<1>1. Init => Single
  BY DEF Init, Single, SingleInFlight, Alone, IdleTask, Live
<1>2. Inv /\ Single /\ [Next]_vars => Single'
  BY SingleStep
<1>3. Single => SingleInFlight
  BY DEF Single
<1>. QED BY <1>1, <1>2, <1>3, InvHolds, PTL DEF Spec

\* Only a heartbeat's pop hands an approval over, and it has swept those whose
\* time is up (_sweep_stale_proposals before pop_approved_command).
LEMMA DispatchStep ==
  ASSUME Inv, [Next]_vars, NEW p \in Pids, status[p] = "approved", status'[p] = "dispatched"
  PROVE  age[p] <= ApprovalTtl
<1>1. ~Resting /\ ~CarriedOut
  BY DEF Resting, CarriedOut
<1>2. ~Created
  <2>. SUFFICES ASSUME NEW r \in Row, NEW w \in Wish, lastPid < MaxProposals, Create(r, w)
                PROVE  FALSE
    BY DEF Created
  <2>1. status' = [status EXCEPT ![lastPid'] = "pending"]
    BY CreateType DEF Inv
  <2>. QED BY <2>1 DEF Inv, TypeOK
<1>3. ~Decided
  <2>. SUFFICES ASSUME NEW expected \in {"pending", "approved"},
                       NEW to \in {"approved", "skipped", "expired"},
                       NEW q, CompareAndSet(q, expected, to)
                PROVE  FALSE
    BY DEF Decided
  <2>. QED BY DEF CompareAndSet, Inv, TypeOK
<1>4. \A r \in Result : ~ResultArrives(r)
  <2>. SUFFICES ASSUME NEW r \in Result, NEW to, CompareAndSet(r.pid, "dispatched", to)
                PROVE  FALSE
    BY DEF ResultArrives
  <2>. QED BY DEF CompareAndSet, Inv, TypeOK
<1>5. PICK s \in Symbols : BeatPop(s)
  BY <1>1, <1>2, <1>3, <1>4, RowStep DEF RowsMove
<1>. DEFINE n == OldestApproved(Swept)
<1>6. status' = [q \in Pids |-> IF q = n THEN "dispatched" ELSE Swept[q]]
  BY <1>5 DEF BeatPop
<1>7. n \in Pids => Swept[n] = "approved"
  BY OldestApprovedType DEF Pids
<1>. HIDE DEF n
<1>8. Swept[p] # "dispatched"
  BY DEF Swept
<1>9. Swept[p] = "approved"
  BY <1>6, <1>7, <1>8
<1>10. ~(age[p] > ApprovalTtl)
  BY <1>9 DEF Swept
<1>. QED BY <1>10, ConstantsAssumption DEF Inv, TypeOK

\* An approval whose time is up is never handed to an EA, whichever chart's
\* heartbeat pops it.
THEOREM DispatchesFresh == Spec => FreshDispatch
<1>1. Inv /\ [Next]_vars =>
        [\A p \in Pids : status[p] = "approved" /\ status'[p] = "dispatched"
                           => age[p] <= ApprovalTtl]_vars
  BY DispatchStep
<1>. QED BY <1>1, InvHolds, PTL DEF Spec, FreshDispatch

-----------------------------------------------------------------------------
(* The rail implements CommandQueue                                        *)

\* Where a row of a status stands on the queue.
StageOf(st) ==
  CASE st = "none"                     -> "unborn"
    [] st \in {"pending", "approved"}  -> "open"
    [] st \in {"skipped", "expired"}   -> "dropped"
    [] st = "dispatched"               -> "handed"
    [] st = "executed"                 -> "executed"
    [] OTHER                           -> "refused"

CarriedRows == {p \in Pids : effect[p].runs > 0 /\ Kept(p)}

\* Rows that were not touched were carried out, and kept, as before.
LEMMA CarriedStay ==
  ASSUME effect' = effect,
         \A p \in Pids : effect[p].runs > 0 => row'[p] = row[p] /\ wish'[p] = wish[p]
  PROVE  CarriedRows' = CarriedRows
<1>1. \A p \in Pids : effect[p].runs > 0 => (Kept(p)' <=> Kept(p))
  BY KeptSame
<1>. QED BY <1>1 DEF CarriedRows

LEMMA StageIs ==
  /\ stage = [p \in Pids |-> StageOf(status[p])]
  /\ stage' = [p \in Pids |-> StageOf(status'[p])]
BY DEF stage, StageOf

LEMMA Stages ==
  /\ StageOf("none") = "unborn"
  /\ StageOf("pending") = "open" /\ StageOf("approved") = "open"
  /\ StageOf("skipped") = "dropped" /\ StageOf("expired") = "dropped"
  /\ StageOf("dispatched") = "handed"
  /\ StageOf("executed") = "executed" /\ StageOf("blocked") = "refused"
BY DEF StageOf

\* The queue's variables, before and after.
LEMMA QueueStays ==
  ASSUME stage' = stage, CarriedRows' = CarriedRows
  PROVE  UNCHANGED Queue!vars
BY DEF Queue!vars, CarriedRows

\* A row that changes its status moves on the queue.
LEMMA OneMoves ==
  ASSUME Inv, NEW p \in Pids, NEW to, \A q \in Pids : status'[q] = IF q = p THEN to ELSE status[q]
  PROVE  stage' = [stage EXCEPT ![p] = StageOf(to)]
<1>1. \A q \in Pids : stage'[q] = IF q = p THEN StageOf(to) ELSE stage[q]
  BY StageIs
<1>. QED BY <1>1, StageIs

\* A compare-and-set changes the one row it finds in the status it expects.
LEMMA CompareAndSetMoves ==
  ASSUME Inv, NEW p, NEW expected, NEW to, CompareAndSet(p, expected, to)
  PROVE  \/ status' = status
         \/ /\ p \in Pids /\ status[p] = expected
            /\ \A q \in Pids : status'[q] = IF q = p THEN to ELSE status[q]
<1>1. CASE status[p] = expected
  BY <1>1 DEF CompareAndSet, Inv, TypeOK
<1>2. CASE status[p] # expected
  BY <1>2 DEF CompareAndSet
<1>. QED BY <1>1, <1>2

LEMMA QueueOffers ==
  ASSUME Inv, Created
  PROVE  Queue!Next
<1>. USE DEF Inv
<1>1. PICK r \in Row, w \in Wish : lastPid < MaxProposals /\ Create(r, w) /\ UNCHANGED effect
  BY DEF Created
<1>. DEFINE p == lastPid + 1
<1>2. /\ p \in Pids /\ p > lastPid /\ status' = [status EXCEPT ![p] = "pending"]
  BY <1>1, ConstantsAssumption DEF Create, Pids, TypeOK
<1>3. status[p] = "none"
  BY <1>2 DEF Unborn
<1>4. stage' = [stage EXCEPT ![p] = "open"]
  <2>1. \A q \in Pids : status'[q] = IF q = p THEN "pending" ELSE status[q]
    BY <1>2 DEF TypeOK
  <2>. HIDE DEF p
  <2>2. stage' = [stage EXCEPT ![p] = StageOf("pending")]
    BY <1>2, <2>1, OneMoves
  <2>. QED BY <2>2, Stages
<1>5. stage[p] = "unborn"
  BY <1>2, <1>3, StageIs, Stages
<1>6. CarriedRows' = CarriedRows
  <2>1. effect[p].runs = 0
    BY <1>2, <1>3 DEF Delivery, Unhanded, Untouched
  <2>2. \A q \in Pids : q # p => row'[q] = row[q] /\ wish'[q] = wish[q]
    BY <1>1 DEF Create, TypeOK
  <2>3. \A q \in Pids : effect[q].runs > 0 => row'[q] = row[q] /\ wish'[q] = wish[q]
    BY <2>1, <2>2
  <2>. HIDE DEF p
  <2>. QED BY <1>1, <2>3, CarriedStay
<1>. HIDE DEF p
<1>7. Queue!Offer(p)
  BY <1>4, <1>5, <1>6 DEF Queue!Offer, Queue!MoveStage, CarriedRows
<1>. QED BY <1>2, <1>7 DEF Queue!Next

\* Rows dropped, refused for want of a confirmation, and at most one handed over.
LEMMA QueueDrops ==
  ASSUME CarriedRows' = CarriedRows,
         NEW dropped \in SUBSET Pids, NEW refused \in SUBSET Pids, NEW handed \in SUBSET Pids,
         \A p \in dropped : stage[p] = "open",
         \A p \in refused : stage[p] = "handed",
         \A p \in handed : stage[p] = "open" /\ handed = {p},
         dropped \cap handed = {},
         \A p \in Pids : stage'[p] = CASE p \in dropped -> "dropped"
                                       [] p \in refused -> "refused"
                                       [] p \in handed  -> "handed"
                                       [] OTHER         -> stage[p]
  PROVE  Queue!Next
<1>1. stage' = [p \in Pids |-> CASE p \in dropped -> "dropped"
                                 [] p \in refused -> "refused"
                                 [] p \in handed  -> "handed"
                                 [] OTHER         -> stage[p]]
  BY StageIs
<1>2. \E d \in SUBSET Pids, f \in SUBSET Pids, h \in SUBSET Pids :
        /\ \A p \in d : stage[p] = "open"
        /\ \A p \in f : stage[p] = "handed"
        /\ \A p \in h : stage[p] = "open" /\ h = {p}
        /\ d \cap h = {}
        /\ stage' = [p \in Pids |-> CASE p \in d  -> "dropped"
                                       [] p \in f  -> "refused"
                                       [] p \in h  -> "handed"
                                       [] OTHER    -> stage[p]]
  <2>. WITNESS dropped \in SUBSET Pids, refused \in SUBSET Pids, handed \in SUBSET Pids
  <2>. QED BY <1>1
<1>3. Queue!DropAndHand
  BY <1>2 DEF Queue!DropAndHand, CarriedRows
<1>. QED BY <1>3 DEF Queue!Next

LEMMA QueueDecides ==
  ASSUME Inv, Decided
  PROVE  [Queue!Next]_(Queue!vars)
<1>1. PICK expected \in {"pending", "approved"}, to \in {"approved", "skipped", "expired"} : \E p :
        /\ expected = "approved" => to # "approved"
        /\ CompareAndSet(p, expected, to)
        /\ UNCHANGED <<row, wish, effect>>
  BY DEF Decided
<1>2. PICK p : CompareAndSet(p, expected, to) /\ UNCHANGED <<row, wish, effect>>
  BY <1>1
<1>3. CarriedRows' = CarriedRows
  BY <1>2, CarriedStay
<1>4. CASE status' = status
  <2>1. stage' = stage
    BY <1>4, StageIs
  <2>. QED BY <1>3, <2>1, QueueStays
<1>5. CASE /\ p \in Pids /\ status[p] = expected
           /\ \A q \in Pids : status'[q] = IF q = p THEN to ELSE status[q]
  <2>1. stage[p] = "open"
    BY <1>5, StageIs, Stages
  <2>2. CASE to = "approved"
    <3>1. stage' = stage
      BY <1>5, <2>1, <2>2, OneMoves, StageIs, Stages
    <3>. QED BY <1>3, <3>1, QueueStays
  <2>3. CASE to \in {"skipped", "expired"}
    <3>. DEFINE dropped == {p}
                refused == {}
                handed  == {}
    <3>1. \A q \in Pids : stage'[q] = IF q = p THEN "dropped" ELSE stage[q]
      BY <1>5, <2>3, StageIs, Stages
    <3>2. /\ dropped \in SUBSET Pids /\ refused \in SUBSET Pids /\ handed \in SUBSET Pids
          /\ \A q \in dropped : stage[q] = "open"
          /\ dropped \cap handed = {}
      BY <1>5, <2>1
    <3>3. \A q \in Pids : stage'[q] = CASE q \in dropped -> "dropped"
                                        [] q \in refused -> "refused"
                                        [] q \in handed  -> "handed"
                                        [] OTHER         -> stage[q]
      BY <3>1
    <3>4. /\ \A q \in refused : stage[q] = "handed"
          /\ \A q \in handed : stage[q] = "open" /\ handed = {q}
      OBVIOUS
    <3>. HIDE DEF dropped, refused, handed
    <3>. QED BY <1>3, <3>2, <3>3, <3>4, QueueDrops
  <2>. QED BY <2>2, <2>3
<1>. QED BY <1>2, <1>4, <1>5, CompareAndSetMoves

LEMMA QueueHands ==
  ASSUME Inv, NEW s \in Symbols, BeatPop(s)
  PROVE  Queue!Next
<1>. USE DEF Inv
<1>. DEFINE n == OldestApproved(Swept)
<1>1. status' = [q \in Pids |-> IF q = n THEN "dispatched" ELSE Swept[q]]
  BY DEF BeatPop
<1>2. n \in Pids => Swept[n] = "approved"
  BY OldestApprovedType DEF Pids
<1>. HIDE DEF n
<1>. DEFINE dropped == {q \in Pids : status[q] = "approved" /\ Swept[q] = "expired"}
            refused == {q \in Pids : status[q] = "dispatched" /\ Swept[q] = "blocked"}
            handed  == {q \in Pids : q = n}
<1>3. \A q \in Pids : \/ Swept[q] = status[q]
                      \/ status[q] = "approved" /\ Swept[q] = "expired"
                      \/ status[q] = "dispatched" /\ Swept[q] = "blocked"
  BY DEF Swept
<1>4. n \in Pids => status[n] = "approved"
  BY <1>2, <1>3
<1>5. CarriedRows' = CarriedRows
  BY CarriedStay DEF BeatPop, historyVars
<1>6. /\ dropped \in SUBSET Pids /\ refused \in SUBSET Pids /\ handed \in SUBSET Pids
      /\ dropped \cap handed = {}
  BY <1>2
<1>7. /\ \A q \in dropped : stage[q] = "open"
      /\ \A q \in refused : stage[q] = "handed"
      /\ \A q \in handed : stage[q] = "open" /\ handed = {q}
  BY <1>4, StageIs, Stages
<1>8. ASSUME NEW q \in Pids
      PROVE  stage'[q] = CASE q \in dropped -> "dropped"
                           [] q \in refused -> "refused"
                           [] q \in handed  -> "handed"
                           [] OTHER         -> stage[q]
  <2>1. stage'[q] = StageOf(status'[q]) /\ stage[q] = StageOf(status[q])
    BY StageIs
  <2>2. CASE q \in dropped
    <3>1. q # n /\ status'[q] = "expired"
      BY <1>1, <1>2, <2>2
    <3>. QED BY <2>1, <2>2, <3>1, Stages
  <2>3. CASE q \in refused
    <3>1. q # n /\ status'[q] = "blocked" /\ q \notin dropped
      BY <1>1, <1>2, <2>3
    <3>. QED BY <2>1, <2>3, <3>1, Stages
  <2>4. CASE q = n
    <3>1. status'[q] = "dispatched" /\ q \notin dropped /\ q \notin refused /\ q \in handed
      BY <1>1, <1>2, <2>4
    <3>. QED BY <2>1, <3>1, Stages
  <2>5. CASE q \notin dropped /\ q \notin refused /\ q # n
    <3>1. status'[q] = status[q] /\ q \notin handed
      BY <1>1, <1>3, <2>5
    <3>. QED BY <2>1, <2>5, <3>1
  <2>. QED BY <2>2, <2>3, <2>4, <2>5
<1>. HIDE DEF dropped, refused, handed
<1>. QED BY <1>5, <1>6, <1>7, <1>8, QueueDrops

LEMMA QueueCarries ==
  ASSUME Inv, CarriedOut
  PROVE  [Queue!Next]_(Queue!vars)
<1>. USE DEF Inv
<1>1. PICK s \in Symbols : \E ok, closed, adjusted :
        /\ reply[s] # NoReply /\ reply[s] \in Command
        /\ Report(s, ok, closed, adjusted)
        /\ UNCHANGED <<status, row, wish>>
  BY DEF CarriedOut
<1>p. PICK p \in Pids : p = reply[s].pid
  BY <1>1 DEF Command
<1>2. Carries(s, p)
  BY <1>1, <1>p DEF Carries
<1>3. effect[p].runs = 0 /\ status[p] \notin Untouched /\ status[p] # "executed"
  <2>1. effect[p].runs = 0
    BY <1>2 DEF Delivery, OnTheWay
  <2>2. status[p] \notin Untouched
    BY <1>2 DEF Delivery, Unhanded
  <2>3. status[p] # "executed"
    BY <1>2, <2>1 DEF Delivery, Done
  <2>. QED BY <2>1, <2>2, <2>3
<1>4. status[p] \in {"dispatched", "blocked"}
  BY <1>2, <1>3 DEF TypeOK, Statuses, Live, Terminal, Untouched
<1>5. PICK ok, closed, adjusted : Report(s, ok, closed, adjusted)
  BY <1>1
<1>6. effect' = [effect EXCEPT ![p] =
            [runs |-> IF @.runs < 2 THEN @.runs + 1 ELSE @.runs,
             done |-> Fulfilled(s, p, closed, adjusted),
             verb |-> reply[s].verb, at |-> s, closed |-> closed, flat |-> legs'[s] = {}]]
  BY <1>5, <1>p DEF Report
<1>7. /\ effect'[p].runs = 1
      /\ \A q \in Pids : q # p => effect'[q] = effect[q]
  BY <1>2, <1>3, <1>6 DEF TypeOK
<1>12. \A q \in Pids : q # p => (Kept(q)' <=> Kept(q))
  BY <1>1, <1>7, KeptSame
<1>8. stage' = stage /\ stage[p] \in {"handed", "refused"}
  BY <1>1, <1>2, <1>4, StageIs, Stages
<1>9. p \notin CarriedRows
  BY <1>3 DEF CarriedRows
<1>10. CASE Kept(p)'
  <2>1. CarriedRows' = CarriedRows \cup {p}
    BY <1>7, <1>10, <1>12 DEF CarriedRows
  <2>2. Queue!CarryOut(p)
    BY <1>8, <1>9, <2>1 DEF Queue!CarryOut, CarriedRows
  <2>. QED BY <2>2 DEF Queue!Next
<1>11. CASE ~(Kept(p)')
  <2>1. CarriedRows' = CarriedRows
    BY <1>3, <1>7, <1>11, <1>12 DEF CarriedRows
  <2>. QED BY <1>8, <2>1, QueueStays
<1>. QED BY <1>10, <1>11

LEMMA QueueConfirms ==
  ASSUME Inv, NEW r \in Result, ResultArrives(r)
  PROVE  [Queue!Next]_(Queue!vars)
<1>. USE DEF Inv
<1>. DEFINE p  == r.pid
            to == IF r.ok THEN "executed" ELSE "blocked"
<1>1. r \in results /\ CompareAndSet(p, "dispatched", to) /\ UNCHANGED <<row, wish, effect>>
  BY DEF ResultArrives, historyVars
<1>2. p \in Pids /\ effect[p].runs = 1 /\ (r.ok => Kept(p))
  BY <1>1 DEF Delivery, Reported, Result
<1>3. CarriedRows' = CarriedRows
  BY <1>1, CarriedStay
<1>4. r.ok => p \in CarriedRows
  BY <1>2 DEF CarriedRows
<1>5. CASE status' = status
  <2>1. stage' = stage
    BY <1>5, StageIs
  <2>. QED BY <1>3, <2>1, QueueStays
<1>6. CASE /\ status[p] = "dispatched"
           /\ \A q \in Pids : status'[q] = IF q = p THEN to ELSE status[q]
  <2>1. stage[p] = "handed" /\ stage' = [stage EXCEPT ![p] = StageOf(to)]
    BY <1>2, <1>6, OneMoves, StageIs, Stages
  <2>2. CASE r.ok
    <3>1. stage' = [stage EXCEPT ![p] = "executed"]
      BY <2>1, <2>2, Stages
    <3>2. Queue!Confirm(p)
      BY <1>3, <1>4, <2>1, <2>2, <3>1 DEF Queue!Confirm, Queue!MoveStage, CarriedRows
    <3>. QED BY <1>2, <3>2 DEF Queue!Next
  <2>3. CASE ~r.ok
    <3>1. stage' = [stage EXCEPT ![p] = "refused"]
      BY <2>1, <2>3, Stages
    <3>2. Queue!Refuse(p)
      BY <1>3, <2>1, <3>1 DEF Queue!Refuse, Queue!MoveStage, CarriedRows
    <3>. QED BY <1>2, <3>2 DEF Queue!Next
  <2>. QED BY <2>2, <2>3
<1>. QED BY <1>1, <1>5, <1>6, CompareAndSetMoves

LEMMA QueueStep ==
  ASSUME Inv, [Next]_vars
  PROVE  [Queue!Next]_(Queue!vars)
<1>1. ASSUME Resting PROVE UNCHANGED Queue!vars
  <2>1. stage' = stage /\ CarriedRows' = CarriedRows
    BY <1>1, StageIs, CarriedStay DEF Resting
  <2>. QED BY <2>1, QueueStays
<1>. QED
  BY <1>1, RowStep, QueueOffers, QueueDecides, QueueHands, QueueCarries, QueueConfirms
     DEF RowsMove

LEMMA QueueInit == Init => Queue!Init
<1>. SUFFICES ASSUME Init PROVE Queue!Init
  OBVIOUS
<1>1. stage = [p \in Pids |-> "unborn"]
  BY StageIs, Stages DEF Init
<1>2. CarriedRows = {}
  BY DEF Init, CarriedRows, NoEffect
<1>. QED BY <1>1, <1>2 DEF Queue!Init, CarriedRows

\* The rail keeps the promise of CommandQueue: every command is dropped, or
\* handed to an EA once, and is called executed only after it was carried out;
\* rows, taps, analyses, heartbeats, EAs, results and restarts are how.
THEOREM RefinesQueue == Spec => ImplementsQueue
<1>1. Inv /\ [Next]_vars => [Queue!Next]_(Queue!vars)
  BY QueueStep
<1>. QED BY <1>1, QueueInit, InvHolds, PTL DEF Spec, ImplementsQueue, Queue!Spec
=============================================================================
