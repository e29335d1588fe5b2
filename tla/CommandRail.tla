----------------------------- MODULE CommandRail -----------------------------
(***************************************************************************)
(* The path of an owner's or the agent's command from a tap to a broker    *)
(* action: proposal rows in SQLite, the threads that create and decide     *)
(* them, the strategy analyses that expire them, the heartbeat of each     *)
(* chart's EA that sweeps and pops them, the EA that carries them out and  *)
(* the result it posts back.  Rows survive a service restart; tap tasks,   *)
(* analyses, heartbeat snapshots and pending close tickets do not.         *)
(*                                                                         *)
(* Event-loop code (Telegram callbacks, the agent's broker, /heartbeat     *)
(* around its sweep and pop, /proposal-result up to its status write) runs *)
(* one coroutine at a time: "loop" is one task slot.  The sweep and pop,   *)
(* the dashboard's endpoints and /analyze run on worker threads.           *)
(***************************************************************************)
EXTENDS Integers, FiniteSets, FiniteSetsExt

CONSTANTS
  Symbols,        \* the charts that run an EA, each with its own heartbeat
  MaxProposals,   \* bound on the proposal rows ever created
  MaxTicket,      \* bound on the position tickets ever opened
  ApprovalTtl,    \* PROPOSAL_APPROVAL_TTL_S in ticks
  ResultTtl,      \* COMMAND_RESULT_TTL_S in ticks
  MaxRestarts,    \* bound on service restarts
  LoopTaps,       \* the taps enabled on the event loop
  DashTaps,       \* the taps enabled on the dashboard's worker threads
  Signals         \* the signals the analyses may carry

AnyEa == ""       \* the empty target_symbol: whichever EA beats next obeys

AllLoopTaps == {"exitnow", "mtrade", "move_sl", "move_sl_be", "close_half",
                "reset_brake", "stop", "agent_close", "agent_move"}
AllDashTaps == {"close_all", "close_position", "quick"}

ASSUME ConstantsAssumption ==
  /\ AnyEa \notin Symbols
  /\ MaxProposals \in Nat
  /\ MaxTicket \in Nat
  /\ ApprovalTtl \in Nat
  /\ ResultTtl \in Nat
  /\ MaxRestarts \in Nat
  /\ LoopTaps \subseteq AllLoopTaps
  /\ DashTaps \subseteq AllDashTaps
  /\ Signals \subseteq {"BUY", "SELL", "EXIT", "NONE"}

Pids    == 1..MaxProposals
Tickets == 1..MaxTicket
Lanes   == Symbols \cup {AnyEa}
Slots   == {"loop", "dash"}
Kinds   == {"entry", "exit", "move_sl", "move_sl_be", "close_half", "reset_brake"}
Dirs    == {"BUY", "SELL"}

Live     == {"pending", "approved", "dispatched"}
Terminal == {"skipped", "expired", "executed", "blocked"}
Statuses == {"none"} \cup Live \cup Terminal

Verbs == {"execute", "reset_brake", "move_sl", "close_ticket", "close_all"}

Row     == [kind : Kinds, dir : Dirs, lane : Lanes]
Wish    == [verb : Verbs \cup {"close_half", "move_sl_be"}, ticket : 0..MaxTicket]
Command == [verb : Verbs, pid : Pids, dir : Dirs, ticket : 0..MaxTicket,
            target : Lanes]
Popped  == [verb : {"popped"}, pid : Pids]
Result  == [pid : Pids, ok : BOOLEAN]

NoRow     == [kind |-> "exit", dir |-> "BUY", lane |-> AnyEa]
NoWish    == [verb |-> "close_all", ticket |-> 0]
NoReply   == [verb |-> "none"]
IdleTask  == [pc |-> "idle"]
IdleStudy == [pc |-> "idle"]

VARIABLES
  \* the proposals table
  lastPid,    \* the newest row id
  status, row,
  age,        \* ticks since decided_ts, while the row is still live
  \* the service's memory
  hb,         \* what each EA's last heartbeat said of its positions
  lastSym,    \* whose heartbeat is app.state.latest_heartbeat
  pendingTicket,  \* app.state.pending_close_tickets (0: no entry)
  task,       \* the tap being handled in each slot
  study,      \* the /analyze in progress for each symbol
  restarts,
  \* the EAs and the wire
  beat,       \* each EA's heartbeat round
  reply,      \* the row popped for each EA's heartbeat, then the command in
              \* its response
  results,    \* proposal results posted and not yet taken
  legs, dir,  \* the open tickets of each EA's basket and its direction
  nextTicket,
  \* history
  wish,       \* what the tap that created each row asked for
  effect      \* what carrying out each row did

rowVars     == <<lastPid, status, row, age>>
memVars     == <<hb, lastSym, pendingTicket, task, study, restarts>>
eaVars      == <<beat, reply, results, legs, dir, nextTicket>>
historyVars == <<wish, effect>>
vars        == <<rowVars, memVars, eaVars, historyVars>>

Effect   == [runs : 0..2, done : BOOLEAN, verb : Verbs \cup {"none"}, at : Lanes,
             closed : SUBSET Tickets, flat : BOOLEAN]
NoEffect == [runs |-> 0, done |-> FALSE, verb |-> "none", at |-> AnyEa, closed |-> {},
             flat |-> FALSE]

Task == [pc : {"idle"}] \cup
        [pc : {"guarded", "created", "approved"}, row : Row, wish : Wish,
         sym : Lanes, pid : 0..MaxProposals]
Study == [pc : {"idle"}] \cup
         [pc : {"read", "proposing"}, signal : Signals, pending : 0..MaxProposals] \cup
         [pc : {"checked"}, signal : Signals, pending : 0..MaxProposals,
          approved : 0..MaxProposals]

TypeOK ==
  /\ lastPid \in 0..MaxProposals
  /\ status \in [Pids -> Statuses]
  /\ row \in [Pids -> Row]
  /\ age \in [Pids -> Nat]
  /\ hb \in [Symbols -> {"none", "flat", "open"}]
  /\ lastSym \in Lanes
  /\ pendingTicket \in [Symbols -> 0..MaxTicket]
  /\ task \in [Slots -> Task]
  /\ study \in [Symbols -> Study]
  /\ restarts \in 0..MaxRestarts
  /\ beat \in [Symbols -> {"idle", "posted", "popped", "replied"}]
  /\ reply \in [Symbols -> Command \cup Popped \cup {NoReply}]
  /\ results \subseteq Result
  /\ legs \in [Symbols -> SUBSET Tickets]
  /\ dir \in [Symbols -> Dirs]
  /\ nextTicket \in 1..(MaxTicket + 1)
  /\ wish \in [Pids -> Wish]
  /\ effect \in [Pids -> Effect]

Init ==
  /\ lastPid = 0
  /\ status = [p \in Pids |-> "none"]
  /\ row = [p \in Pids |-> NoRow]
  /\ age = [p \in Pids |-> 0]
  /\ hb = [s \in Symbols |-> "none"]
  /\ lastSym = AnyEa
  /\ pendingTicket = [s \in Symbols |-> 0]
  /\ task = [w \in Slots |-> IdleTask]
  /\ study = [s \in Symbols |-> IdleStudy]
  /\ restarts = 0
  /\ beat = [s \in Symbols |-> "idle"]
  /\ reply = [s \in Symbols |-> NoReply]
  /\ results = {}
  /\ legs = [s \in Symbols |-> {}]
  /\ dir = [s \in Symbols |-> "BUY"]
  /\ nextTicket = 1
  /\ wish = [p \in Pids |-> NoWish]
  /\ effect = [p \in Pids |-> NoEffect]

-----------------------------------------------------------------------------
(* The proposals table                                                     *)

\* pending_proposal(kind, status): the newest row, 0 when there is none.
Newest(rows) == IF rows = {} THEN 0 ELSE Max(rows)
RowsWith(st)       == {p \in Pids : status[p] = st}
RowsOf(kind, st)   == {p \in RowsWith(st) : row[p].kind = kind}

\* Mutant: a dispatched row no longer counts as in flight.
InFlight_ForgetsDispatched(kind) ==
  \E st \in {"pending", "approved"} : RowsOf(kind, st) # {}

\* "one in flight": some row of the kind is pending, approved or dispatched.
InFlight(kind) == \E st \in Live : RowsOf(kind, st) # {}

\* MaxProposals bounds the run: a tap or a proposal starts only while there is
\* a row left for it, so a tap that passed its guard always gets its row.
RoomForRow == lastPid + Cardinality({w \in Slots : task[w].pc = "guarded"}) < MaxProposals

\* create_proposal: the next AUTOINCREMENT id, pending.
Create(r, w) ==
  /\ lastPid' = lastPid + 1
  /\ status' = [status EXCEPT ![lastPid + 1] = "pending"]
  /\ row' = [row EXCEPT ![lastPid + 1] = r]
  /\ wish' = [wish EXCEPT ![lastPid + 1] = w]

\* Mutant: the update forgets AND status=expected.
CompareAndSet_Blind(p, expected, to) ==
  /\ status' = [status EXCEPT ![p] = to]
  /\ age' = [age EXCEPT ![p] = 0]

\* set_proposal_status(pid, to, expected): a compare-and-set that stamps
\* decided_ts when the row is decided; age restarts, and a settled row's is 0.
CompareAndSet(p, expected, to) ==
  /\ status' = IF status[p] = expected THEN [status EXCEPT ![p] = to] ELSE status
  /\ age' = IF status[p] = expected THEN [age EXCEPT ![p] = 0] ELSE age

\* Only live rows age: decided_ts of a settled row is never read again.
Tick ==
  /\ age' = [p \in Pids |-> IF status[p] \in {"approved", "dispatched"} /\ age[p] <= ResultTtl
                            THEN age[p] + 1 ELSE age[p]]
  /\ UNCHANGED <<lastPid, status, row, memVars, eaVars, historyVars>>

-----------------------------------------------------------------------------
(* Taps: each is guard, create, approve, and for a single position the     *)
(* ticket note; the rows are separate transactions.                        *)

Ask(k, d, l, v, t) == [row |-> [kind |-> k, dir |-> d, lane |-> l],
                       wish |-> [verb |-> v, ticket |-> t]]

StartTask(w, a, sym) ==
  /\ task[w].pc = "idle"
  /\ RoomForRow
  /\ task' = [task EXCEPT ![w] = [pc |-> "guarded", row |-> a.row, wish |-> a.wish,
                                  sym |-> sym, pid |-> 0]]
  /\ UNCHANGED <<rowVars, hb, lastSym, pendingTicket, study, restarts, eaVars, historyVars>>

\* [Exit now]: some chart holds positions and no exit is in flight; the row
\* takes the strategy, hence the symbol, of the trade under the button.
TapExitNow == \E s \in Symbols :
  /\ "exitnow" \in LoopTaps
  /\ \E o \in Symbols : hb[o] = "open"
  /\ ~InFlight("exit")
  /\ StartTask("loop", Ask("exit", "BUY", s, "close_all", 0), s)

\* The manual entry deck: the symbol is known flat and the newest entry of
\* each live status does not belong to it.
TapManualEntry == \E s \in Symbols, d \in Dirs :
  /\ "mtrade" \in LoopTaps
  /\ hb[s] = "flat"
  /\ \A st \in Live : LET p == Newest(RowsOf("entry", st))
                      IN  p # 0 => row[p].lane # s
  /\ StartTask("loop", Ask("entry", d, s, "execute", 0), s)

\* [Move SL], [Lock BE] and [Close 50%] share one guard: the heartbeat they
\* read (the trade's own, or the newest of any symbol when that one is old)
\* shows positions, and no row of the kind is in flight.
TapOnBasket(kind) == \E s \in Symbols :
  /\ kind \in LoopTaps
  /\ \E o \in {s, lastSym} \cap Symbols : hb[o] = "open"
  /\ ~InFlight(kind)
  /\ StartTask("loop", Ask(kind, "BUY", s, kind, 0), s)

\* [Reset brake]: whether the brake is at least 70% spent is the risk
\* manager's business; here it may or may not be.
TapBrakeReset ==
  /\ "reset_brake" \in LoopTaps
  /\ lastSym \in Symbols
  /\ ~InFlight("reset_brake")
  /\ StartTask("loop", Ask("reset_brake", "BUY", lastSym, "reset_brake", 0), lastSym)

\* /stop_xau, /stop_btc: liquidate when the chart's heartbeat shows positions,
\* whatever else is in flight.
TapStop == \E s \in Symbols :
  /\ "stop" \in LoopTaps
  /\ hb[s] = "open"
  /\ StartTask("loop", Ask("exit", "BUY", s, "close_all", 0), s)

\* The agent's broker: nothing may be in flight; strategy_id "agent" names
\* no symbol.
AgentIntent(tap, kind, verb) ==
  /\ tap \in LoopTaps
  /\ \A p \in Pids : status[p] \notin Live
  /\ StartTask("loop", Ask(kind, "BUY", AnyEa, verb, 0), AnyEa)

\* The dashboard's [Close all].
TapCloseAll ==
  /\ "close_all" \in DashTaps
  /\ ~InFlight("exit")
  /\ StartTask("dash", Ask("exit", "BUY", lastSym, "close_all", 0), lastSym)

\* The dashboard's [x] beside a position a heartbeat has shown: no guard; the
\* row's strategy is that of the newest heartbeat of any chart, the ticket is
\* noted under the position's own symbol.
TapClosePosition == \E s \in Symbols : \E t \in legs[s] :
  /\ "close_position" \in DashTaps
  /\ hb[s] = "open"
  /\ StartTask("dash", Ask("exit", "SELL", lastSym, "close_ticket", t), s)

\* The dashboard's quick entry: no guard.
TapQuickEntry == \E s \in Symbols, d \in Dirs :
  /\ "quick" \in DashTaps
  /\ StartTask("dash", Ask("entry", d, s, "execute", 0), s)

Taps ==
  \/ TapExitNow
  \/ TapManualEntry
  \/ \E kind \in {"move_sl", "move_sl_be", "close_half"} : TapOnBasket(kind)
  \/ TapBrakeReset
  \/ TapStop
  \/ AgentIntent("agent_close", "exit", "close_all")
  \/ AgentIntent("agent_move", "move_sl", "move_sl")
  \/ TapCloseAll
  \/ TapClosePosition
  \/ TapQuickEntry

TaskCreate(w) ==
  /\ task[w].pc = "guarded"
  /\ Create(task[w].row, task[w].wish)
  /\ task' = [task EXCEPT ![w].pc = "created", ![w].pid = lastPid + 1]
  /\ UNCHANGED <<age, hb, lastSym, pendingTicket, study, restarts, eaVars, effect>>

TaskApprove(w) ==
  /\ task[w].pc = "created"
  /\ CompareAndSet(task[w].pid, "pending", "approved")
  /\ task' = [task EXCEPT ![w] = IF task[w].wish.verb = "close_ticket"
                                 THEN [task[w] EXCEPT !.pc = "approved"] ELSE IdleTask]
  /\ UNCHANGED <<lastPid, row, hb, lastSym, pendingTicket, study, restarts, eaVars, historyVars>>

TaskNoteTicket(w) ==
  /\ task[w].pc = "approved"
  /\ task[w].sym \in Symbols
  /\ pendingTicket' = [pendingTicket EXCEPT ![task[w].sym] = task[w].wish.ticket]
  /\ task' = [task EXCEPT ![w] = IdleTask]
  /\ UNCHANGED <<rowVars, hb, lastSym, study, restarts, eaVars, historyVars>>

\* [Take]/[Skip] on a pending proposal, from Telegram or the dashboard.
Decide(p, to) ==
  /\ status[p] = "pending"
  /\ CompareAndSet(p, "pending", to)
  /\ UNCHANGED <<lastPid, row, memVars, eaVars, historyVars>>

-----------------------------------------------------------------------------
(* /analyze: maybe_propose, on a worker thread per chart                   *)

StaleFor(p, signal) ==
  \/ /\ row[p].kind = "entry"
     /\ \/ signal = "EXIT"
        \/ signal \in Dirs /\ signal # row[p].dir
  \/ row[p].kind = "exit" /\ signal \in Dirs

AnalyzeRead(s) == \E signal \in Signals :
  /\ study[s].pc = "idle"
  /\ study' = [study EXCEPT ![s] = [pc |-> "read", signal |-> signal,
                                    pending |-> Newest(RowsWith("pending"))]]
  /\ UNCHANGED <<rowVars, hb, lastSym, pendingTicket, task, restarts, eaVars, historyVars>>

\* Expire the pending row that was read if the stance changed, then read the
\* newest approved one (ids only grow, so the newest approved is read after
\* the compare-and-set of the pending one).
AnalyzeExpirePending(s) ==
  /\ study[s].pc = "read"
  /\ LET p     == study[s].pending
         stale == p # 0 /\ StaleFor(p, study[s].signal)
     IN  /\ IF stale THEN CompareAndSet(p, "pending", "expired") ELSE UNCHANGED <<status, age>>
         /\ study' = [study EXCEPT ![s] = [pc |-> "checked", signal |-> study[s].signal,
                                           pending |-> IF stale THEN 0 ELSE p,
                                           approved |-> Newest(RowsWith("approved"))]]
  /\ UNCHANGED <<lastPid, row, hb, lastSym, pendingTicket, task, restarts, eaVars, historyVars>>

\* Expire the approved row that was read if it is stale and still approved.
AnalyzeExpireApproved(s) ==
  /\ study[s].pc = "checked"
  /\ LET p == study[s].approved
     IN  IF p # 0 /\ StaleFor(p, study[s].signal)
         THEN CompareAndSet(p, "approved", "expired") ELSE UNCHANGED <<status, age>>
  /\ study' = [study EXCEPT ![s] = [pc |-> "proposing", signal |-> study[s].signal,
                                    pending |-> study[s].pending]]
  /\ UNCHANGED <<lastPid, row, hb, lastSym, pendingTicket, task, restarts, eaVars, historyVars>>

\* Propose or not: the mode gate (manual, or a blackout entry) may be open or
\* shut, an exit needs a known open position, and the pending row that was read
\* suppresses a new one of its kind and direction.
WouldPropose(s) ==
  LET signal == study[s].signal
      p      == study[s].pending
  IN  /\ signal \in Dirs \cup {"EXIT"}
      /\ signal = "EXIT" => lastSym \in Symbols /\ hb[lastSym] = "open"
      /\ ~ /\ p # 0
           /\ \/ signal = "EXIT" /\ row[p].kind = "exit"
              \/ signal \in Dirs /\ row[p].kind = "entry" /\ row[p].dir = signal

AnalyzePropose(s) ==
  /\ study[s].pc = "proposing"
  /\ \/ UNCHANGED <<lastPid, status, row, wish>>
     \/ /\ WouldPropose(s)
        /\ RoomForRow
        /\ LET signal == study[s].signal
               a == IF signal = "EXIT" THEN Ask("exit", "BUY", s, "close_all", 0)
                                       ELSE Ask("entry", signal, s, "execute", 0)
           IN  Create(a.row, a.wish)
  /\ study' = [study EXCEPT ![s] = IdleStudy]
  /\ UNCHANGED <<age, hb, lastSym, pendingTicket, task, restarts, eaVars, effect>>

-----------------------------------------------------------------------------
(* /heartbeat                                                              *)

\* Up to the first await: the snapshot of this EA's positions.
BeatArrive(s) ==
  /\ beat[s] = "idle"
  /\ task["loop"].pc = "idle"
  /\ beat' = [beat EXCEPT ![s] = "posted"]
  /\ hb' = [hb EXCEPT ![s] = IF legs[s] = {} THEN "flat" ELSE "open"]
  /\ lastSym' = s
  /\ UNCHANGED <<rowVars, pendingTicket, task, study, restarts, reply, results, legs, dir,
                 nextTicket, historyVars>>

\* Mutants: approvals never time out; dispatched rows never time out; an
\* unconfirmed row gets a status of its own.
Swept_KeepsApprovals == [p \in Pids |->
  IF status[p] = "dispatched" /\ age[p] > ResultTtl THEN "blocked" ELSE status[p]]
Swept_KeepsDispatched == [p \in Pids |->
  IF status[p] = "approved" /\ age[p] > ApprovalTtl THEN "expired" ELSE status[p]]
Swept_Unconfirmed == [p \in Pids |->
  IF status[p] = "dispatched" /\ age[p] > ResultTtl THEN "unconfirmed" ELSE status[p]]

\* _sweep_stale_proposals
Swept == [p \in Pids |->
  CASE status[p] = "approved" /\ age[p] > ApprovalTtl   -> "expired"
    [] status[p] = "dispatched" /\ age[p] > ResultTtl   -> "blocked"
    [] OTHER                                            -> status[p]]

\* Mutant: a dispatched row without a result is handed over again.
OldestApproved_Retries(st) ==
  LET open == {p \in Pids : st[p] \in {"approved", "dispatched"}}
  IN  IF open = {} THEN 0 ELSE Min(open)

\* pop_approved_command takes the oldest approved row.
OldestApproved(st) ==
  LET approved == {p \in Pids : st[p] = "approved"}
  IN  IF approved = {} THEN 0 ELSE Min(approved)

\* The chart whose pending close ticket an exit-like row takes (AnyEa: none).
TicketSource(s, p) ==
  CASE row[p].lane # AnyEa /\ pendingTicket[row[p].lane] # 0 -> row[p].lane
    [] pendingTicket[s] # 0                                  -> s
    [] OTHER                                                 -> AnyEa

\* The command of a popped row: everything that is not an entry, a brake
\* reset or a stop move becomes a close.
CommandFor(s, p) ==
  LET src  == TicketSource(s, p)
      verb == CASE row[p].kind = "entry"       -> "execute"
                [] row[p].kind = "reset_brake" -> "reset_brake"
                [] row[p].kind = "move_sl"     -> "move_sl"
                [] OTHER -> IF src # AnyEa THEN "close_ticket" ELSE "close_all"
  IN  [verb |-> verb, pid |-> p, dir |-> row[p].dir, target |-> row[p].lane,
       ticket |-> IF verb = "close_ticket" THEN pendingTicket[src] ELSE 0]

\* _hb_commands, on a worker thread: sweep, then pop, with no tick in between
\* (the sweep's Telegram edits take seconds, the TTLs minutes).  The popped
\* row keeps its decided_ts.
BeatPop(s) ==
  /\ beat[s] = "posted"
  /\ beat' = [beat EXCEPT ![s] = "popped"]
  /\ LET p == OldestApproved(Swept)
     IN  /\ status' = [q \in Pids |-> IF q = p THEN "dispatched" ELSE Swept[q]]
         /\ reply' = [reply EXCEPT ![s] = IF p = 0 THEN NoReply
                                          ELSE [verb |-> "popped", pid |-> p]]
  /\ age' = [q \in Pids |-> IF Swept[q] = status[q] THEN age[q] ELSE 0]
  /\ UNCHANGED <<lastPid, row, memVars, results, legs, dir, nextTicket, historyVars>>

\* Back on the event loop: build the command, take the close ticket, answer.
BeatAnswer(s) ==
  /\ beat[s] = "popped"
  /\ task["loop"].pc = "idle"
  /\ beat' = [beat EXCEPT ![s] = "replied"]
  /\ \/ reply[s] = NoReply /\ UNCHANGED <<reply, pendingTicket>>
     \/ /\ reply[s] # NoReply
        /\ LET p   == reply[s].pid
               src == TicketSource(s, p)
           IN  /\ reply' = [reply EXCEPT ![s] = CommandFor(s, p)]
               /\ pendingTicket' = IF CommandFor(s, p).verb = "close_ticket"
                                   THEN [pendingTicket EXCEPT ![src] = 0] ELSE pendingTicket
  /\ UNCHANGED <<rowVars, hb, lastSym, task, study, restarts, results, legs, dir, nextTicket,
                 historyVars>>

\* The EA gives up waiting, or restarts, before it reads the response.
ReplyLost(s) ==
  /\ beat[s] = "replied"
  /\ beat' = [beat EXCEPT ![s] = "idle"]
  /\ reply' = [reply EXCEPT ![s] = NoReply]
  /\ UNCHANGED <<rowVars, memVars, results, legs, dir, nextTicket, historyVars>>

-----------------------------------------------------------------------------
(* The EA: OnTimer obeys the command in the response                       *)

\* After a response is dealt with the EA's timer is free again.
Answered(s) ==
  /\ beat[s] = "replied"
  /\ beat' = [beat EXCEPT ![s] = "idle"]
  /\ reply' = [reply EXCEPT ![s] = NoReply]

\* No command, or one addressed to another symbol: UiApi blanks it and
\* nothing is reported back.
EaIgnore(s) ==
  /\ Answered(s)
  /\ reply[s] # NoReply => reply[s].target \notin {AnyEa, s}
  /\ UNCHANGED <<rowVars, memVars, results, legs, dir, nextTicket, historyVars>>

\* Mutant: the EA obeys a command whatever its target_symbol.
Obeys_AnyTarget(s, verb) ==
  /\ Answered(s)
  /\ reply[s] # NoReply
  /\ reply[s].verb = verb
  /\ UNCHANGED <<rowVars, memVars, wish>>

\* A command for this chart, or for any, is obeyed.
Obeys(s, verb) ==
  /\ Answered(s)
  /\ reply[s] # NoReply
  /\ reply[s].target \in {AnyEa, s}
  /\ reply[s].verb = verb
  /\ UNCHANGED <<rowVars, memVars, wish>>

\* Whether the row got what it asked for, whatever verb it was handed over as:
\* an entry its position, an exit an empty basket or its own ticket closed, a
\* stop move a moved stop, a brake reset a new base.  No verb of the heartbeat
\* closes half or locks the entry price in.
Fulfilled(s, p, closed, adjusted) ==
  CASE row[p].kind = "entry"                        -> legs'[s] # {} /\ dir'[s] = row[p].dir
    [] row[p].kind = "exit" /\ wish[p].ticket = 0   -> legs'[s] = {}
    [] row[p].kind = "exit" /\ wish[p].ticket # 0   -> closed = {wish[p].ticket}
    [] row[p].kind \in {"move_sl", "reset_brake"}   -> adjusted
    [] OTHER                                        -> FALSE

\* PostProposalResult; the history keeps what was closed, whether the basket is
\* empty now and whether the row got what it asked for, whatever the EA says.
Report(s, ok, closed, adjusted) ==
  LET p == reply[s].pid
  IN  /\ results' = results \cup {[pid |-> p, ok |-> ok]}
      /\ effect' = [effect EXCEPT ![p] =
            [runs |-> IF @.runs < 2 THEN @.runs + 1 ELSE @.runs,
             done |-> Fulfilled(s, p, closed, adjusted),
             verb |-> reply[s].verb, at |-> s, closed |-> closed, flat |-> legs'[s] = {}]]

\* execute: refused by a gate; already in that direction; or the opposite
\* basket is closed (possibly only in part, then nothing opens) and, flat, a
\* leg opens or the open fails.  (The pull-back limit order of OnSignal is
\* never enabled.)
EaExecute(s) ==
  LET d == reply[s].dir
  IN  /\ Obeys(s, "execute")
      /\ \/ \* a gate refuses before OnSignal
            /\ UNCHANGED <<legs, dir, nextTicket>>
            /\ Report(s, FALSE, {}, FALSE)
         \/ /\ legs[s] # {} /\ dir[s] = d
            /\ UNCHANGED <<legs, dir, nextTicket>>
            /\ Report(s, TRUE, {}, FALSE)
         \/ /\ legs[s] # {} /\ dir[s] # d
            /\ \E left \in SUBSET legs[s] :
                 /\ legs' = [legs EXCEPT ![s] = left]
                 /\ UNCHANGED <<dir, nextTicket>>
                 /\ Report(s, FALSE, legs[s] \ left, FALSE)
         \/ /\ legs[s] = {} \/ dir[s] # d
            /\ nextTicket <= MaxTicket
            /\ legs' = [legs EXCEPT ![s] = {nextTicket}]
            /\ dir' = [dir EXCEPT ![s] = d]
            /\ nextTicket' = nextTicket + 1
            /\ Report(s, TRUE, legs[s], FALSE)

\* move_sl: MoveStopsTight moves the stops that it would tighten and that the
\* broker lets it move; ok when there was one.
EaMoveStops(s) ==
  /\ Obeys(s, "move_sl")
  /\ UNCHANGED <<legs, dir, nextTicket>>
  /\ \E moved \in SUBSET legs[s] : Report(s, moved # {}, {}, moved # {})

\* reset_brake: refused unless the brake is at least 70% spent, which is the
\* risk manager's business; otherwise the day's loss gets a new base.
EaResetBrake(s) ==
  /\ Obeys(s, "reset_brake")
  /\ UNCHANGED <<legs, dir, nextTicket>>
  /\ \E spent \in BOOLEAN : Report(s, spent, {}, spent)

\* close_ticket: PositionClose takes a ticket of any chart and may fail; then,
\* with exactly one leg of its own open, the EA closes that one instead.
EaCloseTicket(s) ==
  /\ Obeys(s, "close_ticket")
  /\ UNCHANGED <<dir, nextTicket>>
  /\ LET t == reply[s].ticket
     IN  \/ \E o \in Symbols :
              /\ t \in legs[o]
              /\ legs' = [legs EXCEPT ![o] = @ \ {t}]
              /\ Report(s, TRUE, {t}, FALSE)
         \/ /\ Cardinality(legs[s]) = 1
            /\ legs' = [legs EXCEPT ![s] = {}]
            /\ Report(s, TRUE, legs[s], FALSE)
         \/ UNCHANGED legs /\ Report(s, FALSE, {}, FALSE)

\* Mutant: "basket closed", whatever the broker did.
EaCloseAll_Optimistic(s) ==
  /\ Obeys(s, "close_all")
  /\ UNCHANGED <<dir, nextTicket>>
  /\ \E left \in SUBSET legs[s] :
       /\ legs' = [legs EXCEPT ![s] = left]
       /\ Report(s, TRUE, legs[s] \ left, FALSE)

\* close_all: honest about the legs the broker would not close.
EaCloseAll(s) ==
  /\ Obeys(s, "close_all")
  /\ UNCHANGED <<dir, nextTicket>>
  /\ \E left \in SUBSET legs[s] :
       /\ legs' = [legs EXCEPT ![s] = left]
       /\ Report(s, left = {}, legs[s] \ left, FALSE)

\* The basket also changes without commands: the EA opens on its own signal
\* or adds a leg, and the broker stops legs out.
EaOpens(s, d) ==
  /\ beat[s] = "idle"
  /\ nextTicket <= MaxTicket
  /\ legs[s] = {} \/ dir[s] = d
  /\ legs' = [legs EXCEPT ![s] = @ \cup {nextTicket}]
  /\ dir' = [dir EXCEPT ![s] = d]
  /\ nextTicket' = nextTicket + 1
  /\ UNCHANGED <<rowVars, memVars, beat, reply, results, historyVars>>

BrokerStops(s, t) ==
  /\ t \in legs[s]
  /\ legs' = [legs EXCEPT ![s] = @ \ {t}]
  /\ UNCHANGED <<rowVars, memVars, beat, reply, results, dir, nextTicket, historyVars>>

-----------------------------------------------------------------------------
(* /proposal-result and restarts                                           *)

ResultArrives(r) ==
  /\ r \in results
  /\ task["loop"].pc = "idle"
  /\ results' = results \ {r}
  /\ CompareAndSet(r.pid, "dispatched", IF r.ok THEN "executed" ELSE "blocked")
  /\ UNCHANGED <<lastPid, row, memVars, beat, reply, legs, dir, nextTicket, historyVars>>

ResultLost(r) ==
  /\ r \in results
  /\ results' = results \ {r}
  /\ UNCHANGED <<rowVars, memVars, beat, reply, legs, dir, nextTicket, historyVars>>

Restart ==
  /\ restarts < MaxRestarts
  /\ restarts' = restarts + 1
  /\ hb' = [s \in Symbols |-> "none"]
  /\ lastSym' = AnyEa
  /\ pendingTicket' = [s \in Symbols |-> 0]
  /\ task' = [w \in Slots |-> IdleTask]
  /\ study' = [s \in Symbols |-> IdleStudy]
  /\ beat' = [s \in Symbols |-> IF beat[s] = "replied" THEN "replied" ELSE "idle"]
  /\ reply' = [s \in Symbols |-> IF beat[s] = "replied" THEN reply[s] ELSE NoReply]
  /\ UNCHANGED <<rowVars, results, legs, dir, nextTicket, historyVars>>

-----------------------------------------------------------------------------
EaStep(s) ==
  \/ EaIgnore(s)
  \/ EaExecute(s)
  \/ EaMoveStops(s)
  \/ EaResetBrake(s)
  \/ EaCloseTicket(s)
  \/ EaCloseAll(s)

TaskStep(w) == TaskCreate(w) \/ TaskApprove(w) \/ TaskNoteTicket(w)

Next ==
  \/ Tick
  \/ Taps
  \/ \E w \in Slots : TaskStep(w)
  \/ \E p \in Pids, to \in {"approved", "skipped"} : Decide(p, to)
  \/ \E s \in Symbols :
       \/ AnalyzeRead(s) \/ AnalyzeExpirePending(s)
       \/ AnalyzeExpireApproved(s) \/ AnalyzePropose(s)
       \/ BeatArrive(s) \/ BeatPop(s) \/ BeatAnswer(s) \/ ReplyLost(s)
       \/ EaStep(s)
       \/ \E d \in Dirs : EaOpens(s, d)
       \/ \E t \in Tickets : BrokerStops(s, t)
  \/ \E r \in Result : ResultArrives(r) \/ ResultLost(r)
  \/ Restart

Spec == Init /\ [][Next]_vars

-----------------------------------------------------------------------------
(* Fairness.  The service schedules every request and task it has accepted,
   time passes, and every EA's timer keeps firing (EventSetTimer), so its next
   heartbeat is posted and its response read or timed out.  Nothing makes the
   owner tap, an analysis run, the basket change or a result survive the wire. *)
Fairness ==
  /\ WF_vars(Tick)
  /\ \A w \in Slots : WF_vars(TaskStep(w))
  /\ \A s \in Symbols :
       /\ WF_vars(BeatArrive(s))
       /\ WF_vars(BeatPop(s))
       /\ WF_vars(BeatAnswer(s))
       /\ WF_vars(EaStep(s) \/ ReplyLost(s))

LiveSpec == Spec /\ Fairness

-----------------------------------------------------------------------------
(* Safety                                                                  *)

\* A command is carried out at most once, whatever is lost, retried or
\* restarted, and only after it was handed over ("commands delivered exactly
\* once" of the design; here: never twice).
RunsOnce ==
  \A p \in Pids :
    /\ effect[p].runs <= 1
    /\ effect[p].runs = 1 => status[p] \in {"dispatched", "executed", "blocked"}

\* The rail handed the row over as another command than it asked for (what the
\* texts below promise and the code does not do), and that command was carried
\* out in full: its chart has no position left, or exactly one was closed.
HandedAnother(p) ==
  \/ /\ row[p].kind \in {"close_half", "move_sl_be"} \/ wish[p].ticket # 0
     /\ effect[p].verb = "close_all" /\ effect[p].flat
  \/ effect[p].verb = "close_ticket" /\ Cardinality(effect[p].closed) = 1

Kept(p) == effect[p].done \/ HandedAnother(p)

\* A row that says "executed" was carried out, and got what it asked for: its
\* entry is on the chart, its exit left the chart flat, its ticket is closed,
\* its stop moved.  A row that was handed over as another command says so only
\* when that command did all of its work: no leg left, or one position closed.
ExecutedIsTrue ==
  \A p \in Pids : status[p] = "executed" => effect[p].runs = 1 /\ Kept(p)

\* A command addressed to one chart is never carried out by the EA of another,
\* whichever heartbeat popped it.
RightChart ==
  \A p \in Pids : effect[p].runs > 0 => row[p].lane \in {AnyEa, effect[p].at}

\* The kinds that are only created on the event loop have one row in flight at
\* most, even when the service restarts between a row's creation and approval.
LoopKinds == {"move_sl", "move_sl_be", "close_half", "reset_brake"}
SingleInFlight ==
  \A p, q \in Pids :
    (status[p] \in Live /\ status[q] \in Live /\ row[p].kind = row[q].kind
       /\ row[p].kind \in LoopKinds) => p = q

\* An approval older than its TTL is never handed to an EA: every pop, of any
\* chart's heartbeat, comes after a sweep of all rows.
FreshDispatch ==
  [][\A p \in Pids : status[p] = "approved" /\ status'[p] = "dispatched"
                        => age[p] <= ApprovalTtl]_vars

-----------------------------------------------------------------------------
(* Liveness                                                                *)

\* Every command the owner approved comes to an end he is told of: executed,
\* blocked or expired.
ApprovedSettles ==
  \A p \in Pids : status[p] \in {"approved", "dispatched"} ~> status[p] \in Terminal

-----------------------------------------------------------------------------
(* What the rail's texts promise and its code does not do                  *)

\* "Close position #... ?" (dashboard.js): nothing but that position closes.
ClosesOnlyTheTicket ==
  \A p \in Pids : wish[p].verb = "close_ticket" => effect[p].closed \subseteq {wish[p].ticket}

\* "closing 50% on next heartbeat..." and "moving SL to BE on next
\* heartbeat..." (callbacks.py): the command handed over is the one tapped.
DoesWhatWasTapped ==
  \A p \in Pids :
    wish[p].verb \in {"close_half", "move_sl_be"} /\ effect[p].runs > 0
      => effect[p].verb = wish[p].verb

-----------------------------------------------------------------------------
(* The rail implements the promise of CommandQueue                         *)

stage == [p \in Pids |->
  CASE status[p] = "none"                     -> "unborn"
    [] status[p] \in {"pending", "approved"}  -> "open"
    [] status[p] \in {"skipped", "expired"}   -> "dropped"
    [] status[p] = "dispatched"               -> "handed"
    [] status[p] = "executed"                 -> "executed"
    [] OTHER                                  -> "refused"]

Queue == INSTANCE CommandQueue WITH
  Ids <- Pids, stage <- stage,
  carried <- {p \in Pids : effect[p].runs > 0 /\ Kept(p)}

ImplementsQueue == Queue!Spec
=============================================================================
