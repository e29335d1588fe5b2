# iziGold: a verification project

iziGold trades gold and bitcoin from MetaTrader 5.  An Expert Advisor (EA, MQL5)
runs on each chart; a FastAPI service keeps the records, talks to the owner over
Telegram and a dashboard, and hands the owner's commands to the EAs.  This
directory holds TLA+ models of the parts in which several actors, losses and
restarts meet, the TLC runs that check them on small instances, and proofs,
checked by TLAPS, of the properties that matter most for every instance.

Paths below are relative to `src/`.

## 1. The system

| Component | State | Operations | Main files |
|---|---|---|---|
| Proposal rail | `proposals` rows (SQLite), `pending_close_tickets`, `latest_heartbeat(s)` in memory | create, approve/skip, expire on a changed stance, sweep, pop, result | `service/app/repos/proposals.py`, `routers/ea.py`, `routers/ui.py`, `tg/callbacks.py`, `tg/commands.py`, `agent_actions.py` |
| EA command execution | open legs, their direction | execute, reset_brake, move_sl, close_ticket, close_all, report the outcome | `mt5/Experts/XauAssistant.mq5` (`OnTimer`), `TradeManager.mqh`, `UiApi.mqh` |
| Close reports and reconciler | watermark (terminal global and its file), `trades` rows | live report, aggregate report, seed, guard, scan | `Reconciler.mqh`, `UiSink.mqh`, `OnTradeTransaction`, `routers/ea.py` |
| File relay | request and response file, lock file, last id per file | send, poll, time out; take the lock, forward, respond | `Transport.mqh`, `scripts/mt5_relay.py` |
| Position basket | legs with stops at the broker, flags in terminal globals, last entry price | open, reverse, add, trail, lock, bank, rake, re-enter, close partly or all | `TradeManager.mqh`, `XauAssistant.mq5` |
| Risk manager | high-water mark, kill switch, exposure minutes, brake base, a cached reading of today's loss | gate an entry, latch, reset the brake, roll the day | `RiskManager.mqh`, `Scripts/XauMaintenance.mq5` |
| Strategy switch | wanted lanes (kv), `pending_switch(es)`, dwell | want, decide, hand over, apply at a bar | `strategy_router.py`, `routers/ea.py`, `routers/ui.py` |
| Agent | grades, audits, slots, supervisor cycle | grade, store, score, reflect, act | `agent*.py`, `repos/agent.py` |
| Telegram tasks | LIVE and pinned message ids, update offset | post, edit, freeze, pin, poll | `ticker.py`, `tg/service.py`, `tg/client.py` |
| Feed and viewers | ring of bars, pushes, hub; credential and membership caches | read, push, apply, broadcast; check, admit | `bridge/mt5_feed.py`, `miniapp.py`, `miniapp_auth.py` |
| Bands and streams | newest heartbeats, trade rows, subscriber queues | derive, answer, broadcast, drop | `basket.py`, `routers/stream.py`, `routers/ea.py` |
| Candles | windows in memory, `candles` table, the dashboard's kept answer | merge, persist, prune, seed, serve | `routers/ea.py`, `routers/ui.py`, `candle_buffer.py`, `repos/candles.py` |
| Storage | SQLite file, statistics cache | migrate, retain, insert, compute | `db.py`, `repos/*.py` |
| Trade reports | `trades` and `heartbeats` rows (read only) | group, sum, carry a balance, page | `reports.py`, `trade_report.py`, `miniapp.py` |
| Back-tests | engine: basket, balance, trades, marks; runner: rows, lock, thread, directories | replay a bar; start, refuse, settle, prune | `scripts/backtest.py`, `backtest_runner.py`, `routers/backtest.py` |
| Launcher | host: containers, key, terminal, compiled EA, bridge, relay | one stage after the other, interrupt, start again | `launch.py` |
| Not modelled | instance ownership token, indicator values, drawings, rendered pages | | see section 7 |

How they interact.  The EA is the client of everything: every few seconds it
posts a heartbeat and finds at most one command in the response; it posts
analyses, trade events and command results.  The posts go by HTTP or, where
MetaTrader may not open sockets (Wine), through the file relay.  On the service
side Telegram callbacks and the asynchronous endpoints run on the event loop,
while the dashboard's endpoints and `/analyze` are synchronous functions that
run on worker threads; SQLite statements are serialised by one lock, each its
own transaction.  Rows survive a restart of the service, its memory does not.
In the terminal, globals survive a clean stop, and a hard kill only if flushed.

What is hard, and what makes each part correct:

* *Rail.*  A command crosses two processes and a lossy wire, and its guard, its
  row, its approval and its ticket are separate transactions.  It must run at
  most once, on the right chart, not after it went stale, and the owner must
  read the truth about it, in the end.
* *Reports of closes.*  A close can be posted by three ways and the post can
  fail, time out though it was handled, or be delivered late.  No close may be
  on record twice, the watermark must survive a kill, a scan must not step over
  a deal, and the reconciler must catch up.
* *Relay.*  Ids restart with the EA, the relay's memory with the relay, the
  files with neither.  An answer must belong to its request, a request must not
  be forwarded again and again, and a stale lock must not keep the relay out.
* *Basket.*  Many rules and the owner move the same stops; closes are only
  partly carried out; the terminal is killed with flags not yet on disk.  All
  legs must stay of one direction and one mode, a target is banked once, and a
  leg that is free of risk stays so.
* *Risk.*  The limits are read from a cache and kept in globals; a kill, a
  midnight or a late transaction comes in between.  No entry may be made beyond
  them.
* *Switch.*  `pending_switch` is read before and written after an await while
  another chart's heartbeat runs.  A chart must trade one of its own lanes.
* *Agent.*  Two graders, worker threads and awaits share slots and a budget;
  each signal must be graded in the end and each action be allowed.
* *Telegram, feed, viewers, streams.*  Answers are lost, requests time out
  though they were carried out, tasks are replaced but their threads go on,
  caches are older than what they speak for.
* *Records.*  Migrations are killed half-way, windows are merged without a lock,
  two pieces of code group the same rows.
* *Back-test.*  The same rules once more, as a program over bars; its money must
  add up and its figures be those of its trades.

`PROJECT.json` lists every component with what is modelled of it, and every
hazard with the line where it bites and the properties that watch it.

## 2. Modules

| Module | What it is |
|---|---|
| `CommandQueue` | what the rail promises the owner, with no lanes, heartbeats or clocks |
| `CommandRail` | the rail, the EAs' command execution and the wire between; implements `CommandQueue` |
| `CloseReports` | live, aggregate and back-filled close reports, the watermark, terminal stops and kills |
| `FileRelay` | one chart's EA sessions, the two files, the relays and their lock |
| `Basket`, `Risk` | `CTradeManager` and `CRiskManager` of one chart |
| `Replay` | the bar loop of the back-test engine |
| `Store`, `Candles` | the SQLite file's start and cached statistics; the candles in memory and table |
| `TradeReports`, `Bands` | what reports and dashboard say of the trade rows |
| `Records` | `Store`, `Candles` and `Bands`: what the service serves of what it keeps |
| `Agent`, `BacktestJobs`, `LaneSwitch`, `TelegramTasks` | background work of the service |
| `Feed`, `Viewers` | the mini app's data and who may see it |
| `Launcher` | `launch.py` and the host it prepares |
| `MCTrading`, `MCService` | one behaviour is about one part (`focus`): see below |
| `MCCommandRail`, `MCCloseReports`, `MCFileRelay`, `MCTradeReports` | what TLC needs besides |
| `Sums` | the sum of a sequence, as a recursive function |
| `NatLemmas` | induction and recursion up to a number, sums, `Min` and `Max`: lemmas |
| `CommandRailProofs`, `CloseReportsProofs`, `FileRelayProofs` | proofs about the module of that name |
| `TradingProofs` | proofs about `Risk`, `Basket` and `TradeReports` |
| `RecordProofs` | about `Store`, `Candles`, `Bands` and `Records` |
| `ReplayProofs` | about `Replay`, and about `MCTrading` as a whole |
| `ServiceProofs` | about the seven parts of `MCService`, and about it as a whole |

An operator with an underscore in its name and "Mutant:" in its comment is a
plausible mistake in the code next to it.  No specification uses one; each
shows, put in place of its original, that a property can fail.

*Composition.*  `CommandRail` composes what really shares state: rail, wire,
EAs.  The modules joined by `MCTrading` and `MCService` share none that their
properties depend on: what one takes from another (a signal, a fill, a trade
row, a heartbeat) enters it as a choice over all that the other could do.
Interleaving them would multiply states and add no behaviour to any property.
So a variable `focus` picks the part a behaviour is about and the others keep
their initial state; where a part has several initial states it has one while
out of focus, and each of them while in it.

### CommandRail

*State.*  `status`, `row`, `age` are the columns of `proposals` that control
depends on (`age` is the time since `decided_ts`); `hb`, `lastSym`,
`pendingTicket` are the `app.state` fields; `task` is a tap being handled in
each of the two places where one can be (the event loop, which is one slot
because callbacks do not await, and a worker thread); `study` is one `/analyze`
per chart; `beat`, `reply`, `results` are the wire; `legs`, `dir` the baskets.
`wish` and `effect` are history: what was tapped, what carrying it out did.

*Actions.*  Every tap is guard, create, approve (and, for one position, the
ticket note), each its own step on a worker thread; on the event loop no other
event-loop step comes in between, but worker threads do.  `Decide` is
[Take]/[Skip].  `AnalyzeRead` to `AnalyzePropose` are the transactions of
`maybe_propose`.  `/heartbeat` is three steps: `BeatArrive` up to its first
await, `BeatPop` the sweep and the pop on a worker thread (`_hb_commands`), and
`BeatAnswer` back on the event loop, where the command is built and a close
ticket taken.  Taps, analyses, other charts' heartbeats and a restart come in
between; a restart after `BeatPop` leaves a row dispatched that no EA ever
sees, which the sweep settles.  `EaExecute`,
`EaMoveStops`, `EaResetBrake`, `EaCloseTicket` and `EaCloseAll` are `OnTimer`'s
branches with the report they send; the broker decides what succeeds.  What a row
got is judged by what the row asks for (`Fulfilled`), not by the verb it was handed
over as.  `ReplyLost`, `ResultLost` and `Restart` are
the failures.

*Abstractions.*  `BeatPop` joins the sweep and the pop: no tick passes between
them, though the sweep's Telegram edits may take some seconds, so
`FreshDispatch` holds of the code up to that delay.  One tick of `Tick` is 60 to 90 s, so that the approval's 120 s
and the result's 180 s, both from `decided_ts`, are a smaller and a larger
constant.  `RoomForRow` keeps a run within `MaxProposals` rows: a tap starts
only if it will get its row.  Each response is delivered at most once: a relay
that is restarted may replay its last heartbeat, which in this model is one
more heartbeat whose response is lost.  The gates before `OnSignal` are one
refusal.  `OnSignal`'s pull-back order is left out because nothing ever enables
it (`SetPullbackLimit` has no caller), and the EA's branches `close_half` and
`move_sl_be` because the service never sends those commands.

### CloseReports

*State.*  `deals` is the account's list of closing deals in ticket order, with
the chart each belongs to; `gv` and `disk` are the watermark in memory and in
`gvariables.dat`; `queue` the stop-outs a chart's `OnTradeTransaction` has still
to see; `pc`, `todo` what the EA is doing; `wire` the posts the EA has given up
on which may still reach the service; `reported` how many `trades` rows carry
each ticket; `covered` the deals an aggregate close, which has no ticket,
stands for.  `seeded` and `unsure` (the deals whose own report failed) are history.

*Actions.*  `LiveReport` (`OnTradeTransaction` to `UiSink`), `CloseBasket` and
`AdvancePastBasket` (`CloseAll`, then the sink's advance), `Seed`, `StartScan`,
`ScanAnswered`, `ScanFails` (`ReconcileOfflineCloses`), `WireDelivers`, and the
terminal's `TerminalStops` (globals saved), `TerminalKilled` (unflushed globals
lost) and `TerminalStarts`.  `LiveReporters` are the charts whose magic number
is the input `MagicNumber`; the others' `OnTradeTransaction` drops every deal.
Raising and flushing the watermark is one step: a kill between the two leaves
what a kill before both leaves.

### FileRelay

*State.*  `ea` is one record per session, that is, per initialisation of the
EA; `reqFile` and `respFile` the files; `relay` what each relay process does,
with its last id and the request in hand; `lock` who created the lock file and
whether its pid is written.  `maker` and `answer` are history.

*Actions.*  `Send`, `SendFails`, `Receive`, `DeleteResponse`, `TimeOut` are
`FileRelay` in `Transport.mqh`; `CheckLock` to `WriteLock` are `acquire_lock`,
one step per system call; `CallService`, `Respond`, `RespondFails` are
`process_one_req`.  An old session may overlap with its successor, and a killed
EA is one that takes no more steps.  Reading the request and calling the service
is one step, as is deleting and moving the request: between the halves nobody
can see a difference.  Process ids are not reused.  Other charts have files of
their own and can only delay the relay.

### Basket

*State.*  `legs` are the positions at the broker with their stops; `gv` the
terminal globals of the basket (mode, targets taken, latches, peak) and `disk`
what a hard kill leaves of them; `lastEntry` is `m_lastEntryPrice`.

*Actions.*  A bar is `Tick` (price and broker's stops), `BarSignal` (`OnSignal`,
with the close before a reversal), `Manage` (banks, protection, rake, target,
lock, adds, ratchet, in the code's order) and `Reenter`; `Closes` and the set
`deaf` let the broker refuse any leg.  `MoveStopsTight`, `MoveStopsBreakeven`,
`CloseHalf`, `CloseAll`, `CloseTicket`, `SwitchEntryMode` are the owner's;
`EaRestart` is clean or hard.

*Abstractions.*  One lot size grid, prices in ticks, one ATR.  Left out: the
third target, the pull-back order, MANUAL mode's branch, the formula of
`CalcLots`, and a kill inside `OnSignal` between a fill and its flush.

### Risk

*State.*  `account` at the broker, `marksGv`/`marksDisk` the globals and what a
kill leaves, `reading` the cached loss, `untold` deals whose transaction waits.
*Actions.*  `OnBarUpdate` (with or without midnight), `Drift`, `DealCloses`,
`OnTransaction`, `Heartbeat`, `EntryOpens` (through `CanEnter`),
`ResetDailyBrake`, `ApplyRuntimeConfig`, `Maintenance`, `RiskRestart`.  A failed
history scan is a choice of `TodayRealized`.  `OwnMagic` says whether the chart
trades under the input's magic number (finding 7).  Left out: warnings.

### Replay

*State.*  `bar`, `flips`, `basket`, `bal`, `trades`, `marks` are the engine's
locals; `mode` the flags of the run.  *Actions.*  `Observe`/`ObserveBreak` (flip,
confirmation, revival, flatten), `ManageStop`/`ManageClose`/`ManageNothing`
(stop fill, banks, floors, adds, ladder), `Enter`/`StayOut` (sizing, gates,
equity mark), `EndOfData`.  `RunStats` and `LaneStats` are what is reported.
*Abstractions.*  The verdicts of the filters and the turns of HalfTrend are
choices; bias multipliers are 1; `CONFIRM_MODE` is close; no plug-in lanes.

### Store, Candles

`Store` walks `SignalDb.__init__`: `ReadColumns`, `AddColumn`/`SkipGroup` per
ALTER, `RenameStrategies`, `Retain`, with `KilledAtStart` between any two and
`AddColumnFails`, `RenameFails` for the errors that are swallowed; then
`StatsFromMemory`, `StatsComputed`, `StatsKept` of reader threads against
`SignalWritten`.  `Candles` has `AnalysisReads`, `AnalysisMerges` and
`AnalysisPersists` of `/analyze` on worker threads, `AskRecent` (the
dashboard's kept answer), `PruneCandles` and `CandlesRestart`; `CandleBars` and
`OverlayBars` are what `/api/candles` and `/api/overlays` answer for a series, the
first by another rule when the series is the recent one; a list of candles
is the set of its bar numbers, as a closed bar never changes.  `torn` names the
series for which nothing is promised: two analyses overlapped, or a start could
not seed it.  One timeframe per symbol.

### TradeReports, Bands

`TradeReports` writes rows (`LegOpens`, `LegCloses`, `ReportBeat`) and defines
the readers over them: `BasketLegs` and `GroupBaskets` (the twins),
`ClosedBaskets`, `BalancesAfter`, `DayReport`, `MonthReport`, `TradesPage`.
`Bands` defines `derive_basket_band` (`OpenBand`, `ClosedBand`) over the rows
and the newest heartbeats, a row being its number in the table; a chart posts its events one by one (`EventArrives`,
`EventLost`) and beats in between (`BeatStores` before the handler's awaits,
`BeatBroadcasts` after them), and one viewer's stream has a bounded queue.
`OldRowsAssumption` says what the rows of earlier sessions are: of any number, the
last one of a symbol a close of the direction of the entry before it.

### Agent

*State.*  The tables `signals`, `grades`, `audits`, `lessons`; in memory
`inflight`, `jobs`, `gradeCache`, and the `/analyze` each thread is in
(`requests`).  A bar is a pair of series and time.  `onLoop` is the job, `auditing`
the intent, that holds the event loop between two writes.  `acts` is what the
broker really did, and `leaked` the slots nobody gives back.

*Actions.*  `AnalyzeLookup`, `AnalyzeFromTable`, `AnalyzeClaim`, `AnalyzeSchedule`
on worker threads, with `ScheduleFails` and `FactsFail` between claim and job;
`JobAnswered`, `JobFailed`, `JobStore`, `JobLost`; `SuperviseAsk` to `ReflectStore`
of the supervisor, which looks at `LatestSeries` only; `ExecuteIntent` inside them
(level, budget, proof, one in flight), then `AuditDone` or `AuditFails`; the
owner's switch, commands of others, candles, ticks and `AgentRestart`.  `FactsFail`
needs a second request in `strategy_facts_for`: a dictionary that grows under the
walk at `agent_supervisor.py:126` raises, and nothing catches it.

### BacktestJobs, LaneSwitch, TelegramTasks

`BacktestJobs`: `StartRun`, `StartFails` (also after the insert), `RefuseRun`, the
thread's `Prepare`/`PrepareFails`, `EngineSucceeds`/`EngineFails`, `PruneRuns`,
`ReleaseBusy`, and `BacktestRestart` with `Reconciled`; `stranded` are the rows that
a failed start or a swallowed last write leaves running.  `LaneSwitch`: a heartbeat is
`BeatDecides`, `BeatTells`, `BeatTold`, `BeatAnswers`; `ChartBar` applies,
`TapStrategy`, `DashboardSwitch`, `AgentSwitchesLane` and `Route` want;
`overlapped` records that two handlers interleaved on the shared field, `asked`
what was asked for each chart: any name through the dashboard, the lanes of its
allow-list through the agent, those of its buttons through Telegram.
`TelegramTasks`: the ticker posts, persists, edits, freezes and clears, each
request a step that may fail or lose its answer; the pinned editor beside an
orphan of a replaced task, the id and the version stored one after the other
(`PinSaves`, `PinVersion`); the poller's `PollAsks`, `PollHandles`, `BatchEnds`;
`ApplyTelegram` and `TelegramRestart` come at any moment.  `strays` and `stops`
count what may have left a message or a batch behind.

### Feed, Viewers, Launcher

`Feed`: `BridgePushes`, `Acknowledged`, `PushRefused`, `PushTimesOut` of the
bridge; `PushApplied`, `PushBroadcast`, `PushAnswered` of the mini app.
`Viewers`: `CredentialsRead`, `ViewerArrives`, `TelegramSays`, `ViewerAnswered` per
worker thread over the two caches, `OwnerLinks`, `MembershipChanges`.  `Launcher`: one action
per stage of `launch.py` (`CheckPackages` to `Verify`), `Interrupt` between any
two, `Run` with other flags, and the host's changes.

## 3. Runs

Every passing run lists in `PROJECT.json` the mutant that each of its
properties catches.

| Run | Instance | Question |
|---|---|---|
| `rail_charts` | 2 charts, every tap, 1 row, 1 ticket, 1 restart | did an `executed` row get what it asked for, and does a command stay on its chart? |
| `rail_analyses` | 1 chart, signals BUY and EXIT, 2 rows | does the rail implement `CommandQueue`, are old approvals dropped? |
| `rail_races` | 1 chart, an event-loop and a worker tap, 2 rows, 1 restart, fairness | at most once, one in flight, every command settles |
| `rail_close_ticket` | 2 charts, [x] on a position, 2 tickets | finding: other positions can be closed |
| `rail_escalation` | 2 charts, [Close 50%] and [Lock BE] | finding: the whole basket is closed |
| `reports` | 2 charts (one reports live), 2 deals, 1 stop or kill, fairness | record once, watermark durable, scan in order, catches up |
| `reports_skipped` | 1 chart, 2 deals | finding: a close can be stepped over |
| `relay` | 2 sessions, 2 calls, 2 relay starts, 1 failure, fairness | answers, forwarding, lock, progress |
| `relay_lock` | 2 relays, 3 starts | finding: two relays can serve |
| `trading` | seven parts, 1.4 million states | baskets, limits, replayed money, records |
| `report_twins` | 2 symbols, 6 rows | finding: the two groupings of rows differ |
| `service` | ten parts, 1.1 million states | slots, budgets, jobs, lanes, launches, messages, feed, viewers |

`trading`, part by part:

| Part | Bounds | Properties |
|---|---|---|
| `Replay` | 6 flag sets, 6 bars, moves -4 and +6, 3 legs, 2 surprises | `TradesAreRight` (a frozen floor is paid, a flip opens one basket, figures are those of the trades), `StopOnlyTightens`, `MoneyConserved` |
| `Basket` | 3 modes, 4 bars, 3 legs, 1 restart, 2 events | `OneBasket` (one direction, the mode it was started with, banked once but for hard kills), `RiskFreeStays` |
| `Risk` | 3 bars, 3 troubles, 1 late transaction | `LimitsSurvive`, `BrakeBoundsLoss` |
| `Store`, `Candles` | 2 kills or failed statements, 2 inserts, 2 readers; 2 series, windows of 2, 2 threads, 3 analyses, 4 bars | `ServesTheFile` |
| `Bands` | 2 baskets, 2 heartbeats, 1 trouble, old rows of another symbol | `ServesTheFile` (pushed and asked for are the same, an open band shows its own first leg's target, the closed basket is the last) |
| `TradeReports` | 5 rows of 2 symbols over 2 or more days | `ReportsAreTrue` (both groupings agree, every profit once, carried balances, pages) |

`service`, part by part:

| Part | Bounds | Properties |
|---|---|---|
| `Agent` | 2 series of 2 bars and 1, 2 posts, 2 kinds of answer, L3 on a live account, 1 trouble, fairness | `SlotsMatchJobs`, `ActionsBounded`, `GradedWhenLatest` |
| `Agent`, slots | the same without the supervisor, 2 threads, 3 posts: three bars race for two slots | `SlotsMatchJobs`, `ActionsBounded` |
| `BacktestJobs` | 4 runs, 2 kept, 2 crashes or failed calls | `RunsAccounted` |
| `LaneSwitch` | 2 charts, 2 switches, 1 tick of dwell, 8 names (lanes, `stub`, the retired names and one unknown) | `SafeUnlessOverlapped` |
| `Launcher` | Linux and Windows, 7 flag sets, 2 runs, 2 mishaps | `RunsWhatItSays` |
| `TelegramTasks` | ticker, pin and poller in turn, 3 updates or cycles, 2 troubles | `NothingTwice` |
| `Feed` | ring of 6, 7 bars, 1 trouble | `RingSound` |
| `Viewers` | 2 channels, 2 threads, 3 ticks, 2 events | `AdmissionIsRecent` |

*Why the bounds are enough.*  Each case of interest fits.  Two charts are needed
for a command that meets the wrong heartbeat, and a third adds no new relation
to a row's target.  Two rows are needed for a guard that reads while another
tap creates, for a pending row beside an approved one and for a wrong row being
popped; ids order rows, so nothing depends on three.  Two deals are an earlier
and a later one, in one chart or in two, and the two legs of one basket.  Two
sessions and two calls let an id come again with another session's request,
two relays race for the lock.  The time-to-live constants are as small as they
can be while a row can still be too old and not too old.  Three legs are a base,
its first add and the ladder between adds; four bars open, bank, reverse and
re-enter; six bars of the replay flip, arm a floor, add, stop out and flip
again.  Two candles in a window against three analyses let one drop a bar the
other wrote.  One tick of dwell, budget or cache separates "within" from
"over"; four runs with two kept prune twice.  Coverage shows every action and
disjunct taken.  The theorems below have no bounds.  `CHECK_DEADLOCK FALSE` is
said because every instance ends when its rows, deals, bars or calls are used up
and its actors may really stop.

*Symmetry* is used only for safety runs, on sets whose members nothing in the
specification tells apart.

*Fairness.*  Rail: the clock; tasks and requests the service has accepted, which
its event loop and thread pool run; and the EA's timer, re-armed by
`EventSetTimer`, which posts the next heartbeat and deals with a response or its
time-out.  Nothing makes the owner tap or a result survive the wire, so
`ApprovedSettles` holds without a result because of the sweep.  Reports:
the EA's handlers run and somebody starts the terminal again; `HistorySelect`
does not fail for ever; and, the one strong fairness, a scan retried every
minute is not unanswered every time.  Relay: only that a running relay keeps
running; the EA may be gone for good.  Agent: the supervisor's loop, a task of
the event loop that survives every exception, goes on, and a job that has its
answer stores it and the broker writes its audit row, unless a write fails, which
`MaxTrouble` bounds; that a grader asks, that a provider answers and that the owner
leaves AI on is not assumed.  The other modules of `service` state the fairness
of their loops in their own `Spec`; no property of the run needs it.

*Exceptions in properties.*  Several properties name when they do not hold
(`SafeUnlessOverlapped`, `RingSound`, `NothingTwice`, `BankedOnce`,
`StatsAreFresh`, `CandlesAgree`, the symbol mix of the reports; `ExecutedIsTrue` for
rows handed over as another command, findings 1 and 2; `StartedIsComplete` for a
statement that failed; `SlotsMatchJobs`, `RunsAccounted` and `ActionsBounded` for the
unguarded failures of finding 19).  Each exception is a
behaviour the code has, found by TLC when it was missing, and the property says
there is no other.  Section 5 says what follows for a user.

## 4. What is proved

All for every set of charts, every choice of taps, signals, answers and
failures, and every bound; the assumptions are the named ones of each module,
which give the constants their kinds.  Six say more, each for a reason in the
code: `FeedAssumption` (`MaxCandles = Backfill`, both 500 in the code, and 4 at
least), `LaneAssumption` (a gold chart starts on a registered lane that does not name
bitcoin, a bitcoin chart on iziBit15, `OnInit`, `XauAssistant.mq5:403-432`, and no
registered lane but bitcoin's two has "bit" in its name),
`RiskAssumption` (percentages between 0 and 100, limits not negative) and
`StoreAssumption` (a group of ALTERs adds a column at least and no two add the
same one, `db.py:291-414`), `OldRowsAssumption` (no event of an earlier session
was lost, without which a flat chart could show an entry as its last row, and a
ticket of this session is none of an earlier one, as the broker numbers
positions) and `BandsAssumption` (`PctDelta`, the last resort of a band's target,
is no zero distance).

| Theorem | States |
|---|---|
| `CommandRailProofs!TypeCorrect` | `Spec => []TypeOK` |
| `CommandRailProofs!NeverTwice` | `Spec => []RunsOnce` |
| `CommandRailProofs!Truthful` | `Spec => []ExecutedIsTrue` |
| `CommandRailProofs!Addressed` | `Spec => []RightChart` |
| `CommandRailProofs!OneInFlight` | `Spec => []SingleInFlight` |
| `CommandRailProofs!DispatchesFresh` | `Spec => FreshDispatch` |
| `CommandRailProofs!RefinesQueue` | `Spec => ImplementsQueue` |
| `CloseReportsProofs!TypeCorrect` | `Spec => []TypeOK` |
| `CloseReportsProofs!NoDuplicate` | `Spec => []NoDuplicateTicket` |
| `CloseReportsProofs!Durable` | `Spec => WatermarkDurable` |
| `CloseReportsProofs!InOrder` | `Spec => ScanInOrder` |
| `CloseReportsProofs!ReportedOnce` | `Spec => []BasketReportedOnce` |
| `FileRelayProofs!TypeCorrect` | `Spec => []TypeOK` |
| `FileRelayProofs!AnswersMatch` | `Spec => []SessionAnswersMatch` |
| `FileRelayProofs!RepetitionsBounded` | `Spec => []ForwardedOnce` |
| `FileRelayProofs!NoFalseSuccess` | `Spec => []OkIsHandled` |
| `TradingProofs!LimitsHold` | `RiskSpec => LimitsSurvive` |
| `TradingProofs!BrakeHolds` | `RiskSpec => BrakeBoundsLoss` |
| `TradingProofs!LegsAreOneBasket` | `BasketSpec => [](BasketTypeOK /\ OneBasket)` |
| `TradingProofs!StopsStayRiskFree` | `BasketSpec => RiskFreeStays` |
| `ReplayProofs!TradesHold` | `ReplaySpec => [](ReplayTypeOK /\ TradesAreRight)` |
| `ReplayProofs!StopsTighten` | `ReplaySpec => StopOnlyTightens` |
| `ReplayProofs!MoneyStays` | `ReplaySpec => MoneyConserved` |
| `ServiceProofs!LanesSafe` | `LaneSpec => []SafeUnlessOverlapped` |
| `ServiceProofs!RunsAreAccounted` | `BacktestSpec => []RunsAccounted` |
| `ServiceProofs!LauncherTellsTruth` | `LauncherSpec => []RunsWhatItSays` |
| `ServiceProofs!SlotsHeld` | `AgentSpec => []SlotsMatchJobs` |
| `ServiceProofs!ActionsAreBounded` | `AgentSpec => ActionsBounded` |
| `RecordProofs!StoreServes` | `StoreSpec => [](StoreTypeOK /\ StartedIsComplete /\ StatsAreFresh)` |
| `RecordProofs!CandlesHold` | `CandlesSpec => [](CandlesTypeOK /\ CandlesAgree)` |
| `RecordProofs!BandsHold` | `BandsSpec => [](BandsTypeOK /\ StreamAgrees /\ TargetIsOwn /\ ClosedIsTheLast)` |
| `RecordProofs!RecordsServe` | `StoreSpec /\ CandlesSpec /\ BandsSpec => []ServesTheFile` |
| `ServiceProofs!AdmissionsAreRecent` | `ViewersSpec => []AdmissionIsRecent` |
| `ServiceProofs!NoneTwice` | `TelegramSpec => []NothingTwice` |
| `ServiceProofs!RingIsSound` | `FeedSpec => []RingSound` |
| `TradingProofs!ReportsHold` | `ReportsSpec => [](ReportsTypeOK /\ ReportsAreTrue)` |
| `ReplayProofs!TradingHolds` | `TradingSpec =>` all that the run `trading` checks |
| `ServiceProofs!ServiceHolds` | `ServiceSpec =>` all that the run `service` checks, but for its liveness |

Hardly any of these is inductive.  What has to be added, and why:

*The rail.*  `TypeOK` needs `Room`: the row a tap
will create must exist, so the taps that have passed their guard reserve one
each.  `RunsOnce` needs to know where a command can still be: popped for a
heartbeat or in its response (`OnTheWay`: not carried out yet, in one response only, for the chart
its row names) or nowhere while no EA has been given the row (`Unhanded`), and
`Create` must hit an unused row (`Unborn`).  `ExecutedIsTrue` needs that a
result on its way tells of a command that ran, and an ok of one that gave the row
what it asked for or was another command and did all of its work (`Reported`).  The conjunction is `Inv`.  Almost every step falls under one
lemma, `DeliveryKept`: it carries nothing out, may lose messages, and gives no
row back to those not handed over.  The two others are the heartbeat that
pops a row and answers with its command (`BeatPopStep`, `BeatAnswerStep`) and
the EA's report (`ReportStep`).  `SingleInFlight` needs `Alone`: a tap that has
passed its guard for a kind of the event loop was started there, and no row of
that kind has come in flight since, because no other step of the event loop
comes in between and worker threads create other kinds.

*The refinement.*  Each step of the rail moves one row, or none, in one of the
ways `RowsMove` lists: it is created, decided, dispatched, carried out or told.
`StageOf` says where a row of each status stands on the queue, and each of those
ways is a step of `CommandQueue` or a stutter, by `Inv` (a late result meets a
row that was swept, a second decision one that was decided).

*The reports.*  `WatermarkDurable` needs `Flushed`: after every step memory and
file agree, so a kill loses nothing.  `ScanInOrder` needs `Backlog`: what a
scan has left lies above the watermark and has every own deal between the
watermark and any of its members; new deals come after all old ones, and the
post of the smallest member moves the watermark to just that member.
`NoDuplicateTicket` is inductive with the types.  `BasketReportedOnce` needs
`Baskets`: a leg of a close that was answered is `Settled`, that is, no queue, scan
or late post carries its ticket, and the chart's watermark is past it or about
to be.

*The relay.*  `Travels` says of an id and a call that lie together in a file or
in a relay's hands that the id is none its session has yet to use, and that if
the session waits for that id the call is the one it made; that is why ids that
start again with a session do not mix up answers.  `ForwardedOnce` needs a
budget: the times the request in the file was handled, plus the relays that
run and may still forward it (`Owing`, those whose last id is another), are no
more than the starts and lost responses so far.

*The risk manager.*  `MarksKnow`, of the globals in memory and of the ones on
disk alike: a bar at the kill line has tripped the switch, and no bar with a
position is missing from the exposure.  `ReadingTrue`: a reading that is kept is
the loss of the day, if the chart trades under its own magic number, no
transaction waits and no scan failed.

*The basket.*  `Stays` relates the legs before and after any rule: each leg left
is one of before with the same number, direction and entry, and a risk-free stop
of the oldest has stayed so; it composes (`StaysLonger`), as the oldest leg left
can only be the oldest of before if that survived.  `Leads` adds the flags: the
mode is kept and a target taken stays taken.  Every rule of `Manage` leads on, so
the whole pass does (`ManagedLeads`).  `BookStays` carries the numbers, the one
direction and the limit of the legs over; an add has the next number, and the
ratchet behind it only tightens the oldest stop.  `BankedAtMost` says what makes
`BankedOnce` inductive: while no target is marked, every bank so far was undone
by a kill.  Of the market it needs only that prices are positive: a stop of 0
means none.

*The back-test.*  `FlipsKnown` and `SignalNew`: a flip is spent before its basket
opens, and a spent flip neither fires nor waits for a revival; so every path to
an entry leads through a flip no basket has used.  `Laddered`: the prices of the
legs climb and the stop of an unarmed basket has not passed the last leg but one,
so the next rung only tightens it; an armed floor pays what is owed at `floorAt`
(`FloorPricePays`, which needs the rounding of `FloorPrice` to the side that
pays), and a stop past `floorAt` pays more (`PlGrows`).  `BalanceKept`: balance,
peak and drawdown are the `Curve` of the trades, kept trade by trade
(`CloseBooks`).  `Works` and `Paid` say the same of each rule of a bar close, in
the order of the code.  The claims on money leave hybrid mode out, whose partial
bank is in no trade.  In the proof `ReplayTypeOK` turned out too strict: the
middle tier of hybrid mode allows two legs even if `MAX_POSITIONS` is 1, which
`MostLegs` now says.

*The service.*  Lanes: an answer under way and every pending switch were asked for
their chart, or chosen by the router, while nothing overlapped, and a notice sent
has latched or will.  Back-tests: the lock is held by a thread with a running row,
whose directory is there once the engine runs.  Launcher: `OneKey` and `NewestBuilt` say at which
stage the containers, the bridge and the compiled EA are those of the files.
Agent: `SlotsInv` gives each slot one owner, a job, a request between claim and job,
or nobody, and each step frees just its own.  `ActionsBounded` counts actions where
the broker counts audit rows.  `BrokerInv` ties the two: no two actions have one row,
and a row is as late as its action at least, so the recorded actions of a span are
no more than the rows of it (`CountedIs`), and the one that acts now is the only one
yet to be recorded, because nothing else of the event loop comes in between.

*The data base.*  `GroupsWhole`: a group whose first column is there has all of
them, but for the one the start is at and those that a kill left half done; so
the check of the first column, which is all the code looks at, tells of the
whole group, but for the columns a statement was refused for (`Tried`).  `GroupsDone` says how far the start has come.  `StatsKnow`:
statistics kept under the present version are those of the rows until a write
overtakes a computation, and none is kept under a version to come.

*The candles.*  The window of a series is the last bars of window and table
together (`WindowHoldsTable`), for a series no two merges have overlapped in
(`torn`).  What makes it inductive are facts on the last n bars of a set: merging
into them is merging into all (`LastBarsAgain`), so what a window holds of the
table it holds after a merge (`StillHeld`), and they do not depend on which older
bars are there (`LastBarsBetween`), so neither a failed write nor a prune harms.
`InHand` says of an analysis under way that its merge is that of its bars into the
window as it is.  `KeptKnown`: the answer the
dashboard keeps lies inside the window or ends before it, so an answer with the
window's key, the count and the last bar, is the window (`PartIsSmaller`).  Overlays
come from the table alone: they are the bars of the dashboard where the table lacks
none of the window.

*The bands.*  `ToldAgrees` drops from `StreamAgrees` that the viewer has read: what
was put into the stream last is what is answered now.  It needs `BeatsKnown`, a
heartbeat between its arrival and its answer is the newest of its chart, and that
a band depends on the rows of its own symbol only (`BandRests`), so the events of
one chart leave what the other was told true.  `NothingMissed` reads rows, posts
under way and legs of a chart as one story (`ToldInOrder`): a close has the direction of what
comes before it, on record or on its way, and the last event is that of the legs
there are, or a close.  A closed band is then matched with an entry of its own
direction for any lookback (`RecentIsNewest`).  `TargetIsOwn` needs
`OneDeedEach`: some assignment of a chart, a direction and a price to every ticket
of the session fits the legs, the heartbeats, the posts and the rows alike, so
what the band takes from a row found by its ticket belongs to the leg.  It claims
the side of the target only for one leg: adds move the average entry, and may
move it past a target recorded for the first.

*The trade reports.*  While no two symbols have held a basket at once the rows are
`OneByOne`: a row opens a basket when the row before has closed one, else it is of
the basket and the symbol of the row before.  Over such rows what the one pass of
`GroupBaskets` holds after each row is a run of rows back to the last opening
(`GroupsByRow`, `BasketRun`), and so are the legs its twin finds by symbol
(`TwinsHold`); a page that lacks the opening row differs in its first basket only
(`PagesHold`).  The sums are compared row by row: what is earned up to a row is
what closed baskets up to there hold plus what the open one has booked
(`PendingMoves`), and a month is cut into the windows of its days (`DayWindow`,
`DayAdds`).  For the balances `BookedRow` says that a beat tells the balance after
the last row before it; a basket whose rows all came after the beat adds just
what it moved the balance by, and so do all baskets carried together
(`CarryByRow`, from the first of them, `FirstCarried`).

*Telegram.*  `NothingTwice` counts messages against what was lost, so the
invariants give each stray a cause before it happens: a step that may leave a
message behind (`WillBeLeft` for LIVE messages; `Owes` for the thread of a replaced
task, up to two: its own message, and one more because it overwrites the stored
id) is paid for when the task was replaced, the chat changed or the answer
lost.  `Holds` says the editor knows the one message, or is about to.  The
poller: `OnceSoFar`, nothing at or above the offset was carried out since the
tasks were last started.  Admissions: every cached answer, and every check under
way, was true when its time began to run (`LinkIsRecent`, `MemberIsRecent`,
`ChecksAreRecent`).

*The feed.*  `apply_push` keeps a ring without a hole if the batch reaches back
to its newest bar or is a whole backfill (`Applied`).  `Joins` says that two bars
that are still to be applied always reach back so far, to the newest bar or, while
the ring is empty, to the end of any batch that may fill it first; `AnswersDue`, that
the ring has what the bridge has read once the push it waits for is applied;
`NeedKnown`, that a bridge which needs no backfill is right; `ReadInTime`, that one
bar at most has closed since.  These four explain each other: the first is why
late pushes do no harm, the last three why a new push of two bars reaches back.

*The parts together.*  Each step of `TradingSpec` is a step of one part and a
stutter of the others, so a behaviour of it is one of each part (`PartsBehave`) and
the theorems of the parts give `TradingHolds`.  `ServiceSpec` states the fairness
of the agent only, so it does not imply the parts' own specifications; there
`ServiceInv` is the conjunction of the parts' invariants, and `PartsStep` says which
part a step is of.  The joint type invariants needed more than the
types of each variable.  The clock of the agent and the trouble left to it add up to
no more than the bound (`AgentKinds`); the poller has nothing that has not arrived
(`PollArrived`); the pinned message was posted (`PinKnown`); every push of the
bridge beside the one it awaits was paid for by a trouble (`PushesKnown`); a key
exists only after `.env` does, and there are no more of them than runs
(`LauncherWhole`).  That attempt showed that `LauncherTypeOK` had said too little, by
the binding of two operators, and it was corrected.

Each invariant was model-checked in its run's instance before it was proved.
`NatLemmas` has no operator parameter: from well-foundedness of strict inclusion
on finite sets it proves that a set of naturals has a smallest member (`Min` and
`Max`, for the rail and the reports), from that induction up to a number over a
set (`UpTo`), from that the existence of a function by recursion (`Recursion`).
So what `Kept` and `Total` compute is proved, as they are recursive functions
and not folds or `SelectSeq`, which the prover knows by name only.

*Only model-checked.*

* Liveness (`ApprovedSettles`, `CatchesUp`, `StaleLockReplaced`,
  `RequestsTaken`, `GradedWhenLatest`): fairness is beyond the prover.

Every safety property that a passing run checks is a theorem.

## 5. Findings

Five statements of the repository's texts which the code does not keep are runs
that TLC refutes, with the quotation in `PROJECT.json`.

1. *Closing one position may close others* (`rail_close_ticket`).  The row is
   approved before the ticket is noted; a heartbeat in between makes it
   `close_all`.  The same comes of a row whose chart is the newest heartbeat's
   and not the position's, and of the EA's fallback to its only leg.
2. *Close 50% and Lock BE close everything* (`rail_escalation`).  The heartbeat
   has no branch for either kind.
3. *Two relays can serve* (`relay_lock`).  The liveness test and the unlink are
   apart, and a lock is empty before its pid is written.
4. *A close can be skipped for good* (`reports_skipped`).  A report that is answered
   lifts the watermark over an earlier deal, closed after the watermark was seeded,
   whose own report failed.
   *Gold and bitcoin open at once mix up the reports* (`report_twins`):
   `_group_baskets` does not separate symbols, `_basket_legs` does.

Met while modelling, read in the code and not the subject of a run.  The EA:

5. `m_lastEntryPrice` is only in memory (`TradeManager.mqh:25`): after a restart
   the spacing of adds and the "profit >= 1.5R" of the banking (`:874`) are
   measured from 0.
6. The scale-outs, the second target and the rake set the stop to the entry
   without asking whether it is tighter there already, though "Only tighten,
   never loosen" (`:301`) is kept elsewhere.  `RiskFreeStays` is what remains true.
7. `OnTradeTransaction` compares with the input `MagicNumber`; a bitcoin chart
   trades under another, so its closes are not reported live and its loss
   reading is not dropped (`BrakeBoundsLoss` is stated for `OwnMagic`).
8. An approved entry that reverses closes first and then reads the loss cached
   before that close.  Flags of the targets taken are not flushed: after a hard
   kill a target is banked again.  The flatten before the break latches its day,
   so an entry after it in the same window is held through the break.

The service:

9. Noted by reading, as no module has the button: the play button writes
   `entries_paused_xau` or `_btc`, the agent's pause
   `entries_paused`: the reply "Entries active & armed" (`tg/commands.py:96`)
   may be untrue.  `.env.example:46` calls L1 "pause/resume only", but
   `execute_intent` distinguishes only L0.  Turning AI off does not stop a job
   in flight from acting.
10. `pending_switch` (`routers/ea.py:497`, `:555`) can hand a chart the other
    chart's lane; the news notice can be sent twice (`:115`); a bitcoin
    heartbeat uses up the dwell and sets the gold lane; the router judges the
    candles of whichever chart posted last (`:470`).
11. Windows of candles are merged without a lock (`routers/ea.py:287`); a late
    bar that fills a hole leaves the dashboard's kept answer as it was; signal
    statistics can be kept under a version they are older than
    (`repos/signals.py:62-69`); two ALTERs share one check (`db.py:353`).  After a
   swallowed write failure the dashboard's candles of the recent series have bars
   that its overlays lack (`ea.py:295-299`, `ui.py:435-445`).
12. Trade reports are drawn from the candles of whichever chart posted last;
    `/api/candles` and `/api/overlays` choose their source by different rules; a
    balance carried from a heartbeat counts a leg that closed before it twice, and
    the view of one day starts its carry anew (`reports.py:257-292`), so it leaves
    out the baskets of the day before that closed after the last heartbeat.
13. `/api/basket?symbol=BTCUSD` answers gold's closed band under bitcoin's name
    until bitcoin has beaten once, and gold falls back on the newest heartbeat of
    any chart (`routers/stream.py:40-48` passes no symbol).  The target of an
    open band without one on record is 1.5 R of the present stop and moves with
    it; until the first leg's row arrives it can be the basket's before.  A queue
    that is full loses its viewer, whose stream stays open with pings only.
14. The ticker tries its CLOSED edit once; an answer lost, or a restart between
    post and store, makes a second LIVE message; its branch for "message to edit
    not found" is dead, as the client returns None for every failure.  Saving
    the profile in the middle of a batch delivers its updates again.
15. The back-fill of the feed is ignored by a ring that is not empty, against
    the comment in `mt5_feed.py:180`; a bridge that stalls for more than a bar
    without a failed push leaves a hole; batches can overtake each other.
16. The statistics of a back-test have no trades, so the Monte-Carlo page
    simulates an empty list; an engine orphaned by a crash runs beside the next.

Back-test and launcher:

17. In hybrid mode the partial bank pays no spread and is in no trade's result;
    bars of the flatten skip the equity mark.
18. `--dry-run` still installs the Python package under Wine and reports the EA as
    fresh without looking; the freshness test ignores includes; on Windows a
    failed stop is ignored and MetaEditor is never found.

Failures that nothing makes up for:

19. A grading slot is lost when `strategy_facts_for` fails (`agent_supervisor.py:142`):
    its bar is not graded by `/analyze` again and the cap is one lower until a
    restart.  A back-test row says running until the next start when its thread does
    not start or its last write fails (`backtest_runner.py:92-98`, `:139-144`).  An
    action of the agent whose audit row was not written is not counted by its budget
    (`agent_actions.py:36-48`).
20. The supervisor grades the series with the newest candle only
    (`agent_actions.py:304-308`): a signal of the other chart waits until its own
    candles are the newest, and for ever if they never are.  `GradedWhenLatest` says
    what remains true.
21. `POST /api/switch` takes any name and sets it as gold's lane: the registered
    `stub`, which never trades, or a name no EA has registered, which every heartbeat
    then hands over again without effect.

## 6. Plan

The modules planned at the start are written, every safety property that a
passing run checks is proved for all values of the constants, and the rail is
proved to implement `CommandQueue`.  What a next step could add: the window of two
EAs on one chart (a claim in a terminal global, noticed at the next timer tick),
the switch of the transport to the relay, and candles of several timeframes.

None of the modules with theorems has a RECURSIVE operator; folds of the
community modules stay in definitions the proofs do not expand.

## 7. Not modelled

Indicators, regimes, forecasts and zones (floating-point numerics without
concurrent state); the EA's strategies and drawing (a signal is a choice);
rendering, captions, previews and the Monte-Carlo draw; shell scripts, the
manual, Telegram texts and menus; the calendar and the language model
(external); request schemas and configuration (data).  Instance ownership: two
EAs may act on one chart for up to a timer tick, and nothing excludes it.

Of the modelled components: the HTTP mode and its switch to the relay, base64
bodies, screenshots, rendered reports, plain settings toggles, the heartbeat's
other alert latches, the risk manager's warnings, the basket's third target and
size formula, the replay's plug-in lanes and indicator arithmetic, several
timeframes of one symbol's candles, and the streams of `/feed/push`.
