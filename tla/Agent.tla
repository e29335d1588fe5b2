------------------------------- MODULE Agent -------------------------------
(***************************************************************************)
(* The supervisory agent of the service: grading jobs started by /analyze, *)
(* the periodic supervisor that grades what was missed and writes lessons, *)
(* and the action broker behind both.                                      *)
(*                                                                         *)
(* /analyze runs on a worker thread; grading jobs, the supervisor and the  *)
(* broker run on the event loop and only give it up at an await.  `onLoop` *)
(* and `auditing` say what holds the loop between two writes, so that only *)
(* worker threads, the clock and a crash can come in there.                *)
(***************************************************************************)
EXTENDS Naturals, Sequences, FiniteSets

CONSTANTS
    Threads,      \* worker threads that may run /analyze at the same time
    Series,       \* the (symbol, timeframe) pairs of the charts
    LastBar,      \* series -> its last bar, from 1; each carries an actionable signal
    Horizon,      \* bars until a grade can be scored
    Answers,      \* <<action, direction>> a model may answer, also unknown actions
    AgentStarts,  \* <<settings, account type>> the service may be started with
    PerHour, PerDay, HourSpan, DaySpan, \* the action budgets, in ticks
    MinResolved, MinAccuracyPct,
    MaxPosts, MaxTrouble \* bounds of the run

ASSUME AgentAssumption ==
    /\ Threads \subseteq Nat /\ LastBar \in [Series -> Nat \ {0}] /\ Horizon \in Nat
    /\ PerHour \in Nat \ {0} /\ PerDay \in Nat \ {0}
    /\ HourSpan \in Nat /\ DaySpan \in Nat
    /\ MinResolved \in Nat /\ MinAccuracyPct \in 0..100
    /\ \A r \in Answers : r[2] \in {"bullish", "bearish", "neutral"}
    /\ {MaxPosts, MaxTrouble} \subseteq Nat

Bars == UNION {{s} \X (1..LastBar[s]) : s \in Series}
SeriesOf(b) == b[1]
TimeOf(b) == b[2]
Directions == {"bullish", "bearish", "neutral"}
MaxInFlight == 2
Pauses == {"pause_entries", "resume_entries"}
Commands == {"close_all", "move_sl"}
Settings == {"switch_lane", "set_entry_mode"}
AllowedActions == Pauses \union Commands \union Settings

VARIABLES
    (* SQLite: survives a restart *)
    signals,       \* the bar of each actionable row of signals, oldest row first
    grades,        \* ai_grades: [bar, action, direction, score]
    audits,        \* agent_actions: [at, intent, status]
    lessons,       \* agent_lessons: the grade each one is about
    pausedAll,     \* kv entries_paused, the key the broker writes
    aiOn,          \* kv ai_enabled
    account,       \* account_type of the profile
    commandLive,   \* a proposal is pending, approved or dispatched
    (* memory of the process *)
    gradeCache,    \* agent_grade_cache: bar -> row of grades, 0 when absent
    inflight,      \* agent_inflight
    jobs,          \* grading coroutines waiting for the provider, per bar
    onLoop,        \* <<bar, action, direction>> of an answered job, <<>> otherwise
    auditing,      \* <<intent, status>> of an intent that awaits its audit row, <<>> otherwise
    requests,      \* thread -> [pc, bar, row], the /analyze it is in
    supervisor,    \* [pc, bar, row] of the supervisor task
    config,        \* settings
    (* environment and history *)
    newestBar,     \* series -> its newest bar in the candle table
    acts,          \* what the broker did: [at, live, row of its audit or 0]
    leaked,        \* bars whose slot was lost with the request that claimed it
    agNow, agBudget

agentVars == <<signals, grades, audits, lessons, pausedAll, aiOn,
               account, commandLive, gradeCache, inflight, jobs, onLoop, auditing,
               requests, supervisor, config, newestBar, acts, leaked, agNow, agBudget>>
tables == <<signals, grades, audits, lessons>>
switches == <<pausedAll, aiOn, account>>
broker == <<audits, acts, auditing>>
slots == <<inflight, jobs, leaked>>
outside == <<config, newestBar, agNow>>

NoBar == <<0, 0>>
NoRequest == [pc |-> "idle", bar |-> NoBar, row |-> 0]
IdleSupervisor == [pc |-> "idle", bar |-> NoBar, row |-> 0]
Reflecting == [pc |-> "reflect", bar |-> NoBar, row |-> 0]

AgentInit ==
    /\ signals = <<>> /\ grades = <<>> /\ audits = <<>> /\ lessons = <<>> /\ acts = <<>>
    /\ pausedAll = FALSE
    /\ aiOn = TRUE
    /\ commandLive = FALSE
    /\ gradeCache = [b \in Bars |-> 0]
    /\ inflight = {} /\ leaked = {} /\ jobs = [b \in Bars |-> 0]
    /\ onLoop = <<>> /\ auditing = <<>>
    /\ requests = [t \in Threads |-> NoRequest]
    /\ supervisor = IdleSupervisor
    /\ \E s \in AgentStarts : config = s[1] /\ account = s[2]
    /\ newestBar = [s \in Series |-> 1] /\ agNow = 0
    /\ \E n \in 0..MaxPosts : agBudget = [posts |-> n, trouble |-> MaxTrouble]

\* Provider failures, restarts, hours that pass and what the owner and other actors do are bounded
\* together by MaxTrouble, the posts of the EAs by MaxPosts.
Spend(what) == /\ agBudget[what] > 0
               /\ agBudget' = [agBudget EXCEPT ![what] = @ - 1]

-----------------------------------------------------------------------------
(* Rows *)

RowsFor(b) == {i \in DOMAIN grades : grades[i].bar = b}
LatestGrade(b) == IF RowsFor(b) = {} THEN 0
                  ELSE CHOOSE i \in RowsFor(b) : \A j \in RowsFor(b) : j <= i

\* ungraded_signal: the rows of a series without a grade of their bar.
\* Mutant: only the present bar is looked for.
Ungraded_Present(s) == {i \in DOMAIN signals : /\ RowsFor(signals[i]) = {}
                                               /\ signals[i] = <<s, newestBar[s]>>}
Ungraded(s) == {i \in DOMAIN signals : /\ SeriesOf(signals[i]) = s
                                       /\ RowsFor(signals[i]) = {}}
NewestUngraded(s) == CHOOSE i \in Ungraded(s) : \A j \in Ungraded(s) : j <= i

\* latest_candle_series: of two series with a newest bar of one time, any.
LatestSeries == {s \in Series : \A r \in Series : newestBar[r] <= newestBar[s]}

\* A directional grade of the series is scored once, when a bar Horizon later is in
\* the window.  The market rises, so that the grader's choice alone decides.
Matured(i, upTo) == /\ grades[i].score = "open"
                    /\ grades[i].direction # "neutral"
                    /\ SeriesOf(grades[i].bar) = SeriesOf(upTo)
                    /\ TimeOf(grades[i].bar) + Horizon <= TimeOf(upTo)
ResolveOutcomes(upTo) ==
    [i \in DOMAIN grades |->
        IF Matured(i, upTo)
        THEN [grades[i] EXCEPT !.score =
                 IF grades[i].direction = "bullish" THEN "right" ELSE "wrong"]
        ELSE grades[i]]

Scored(score) == {i \in DOMAIN grades : grades[i].score = score}
Resolved == Cardinality(Scored("right") \union Scored("wrong"))
AccurateEnough == 100 * Cardinality(Scored("right")) >= MinAccuracyPct * Resolved

GradeRow(b, a, d) == [bar |-> b, action |-> a, direction |-> d, score |-> "open"]

\* parse_grade: an action the code does not know becomes "none"
Parsed(a) == IF a \in AllowedActions THEN a ELSE "none"

-----------------------------------------------------------------------------
(* The action broker: the checks and the action, then the audit row.  It does *)
(* not give up the loop before the row is written.                            *)

Since(span) == Cardinality({i \in DOMAIN audits : audits[i].at + span >= agNow})
BudgetSpent == Since(HourSpan) >= PerHour \/ Since(DaySpan) >= PerDay

Unproven == /\ ~config.bypass
            /\ config.allowLive
            /\ Resolved < MinResolved \/ ~AccurateEnough

\* Mutant: no budget.
Refused_Unlimited(a) ==
    \/ ~config.allowLive /\ account # "demo"
    \/ Unproven
    \/ a \notin Pauses /\ commandLive
    \/ a \in Settings /\ ~config.laneSwitch
Refused(a) ==
    \/ ~config.allowLive /\ account # "demo"
    \/ BudgetSpent
    \/ Unproven
    \/ a \notin Pauses /\ commandLive
    \/ a \in Settings /\ ~config.laneSwitch

Outcome(a) == IF config.level = "L0" THEN "skipped"
              ELSE IF Refused(a) THEN "rejected"
              ELSE IF a \in Commands THEN "dispatched"
              ELSE "applied"
Acted(status) == status \in {"applied", "dispatched"}

\* execute_intent up to _audit.
ExecuteIntent(a) ==
    IF a = "none"
    THEN UNCHANGED <<broker, pausedAll, commandLive>>
    ELSE LET done == Outcome(a)
             pausing == done = "applied" /\ a = "pause_entries"
             resuming == done = "applied" /\ a = "resume_entries"
         IN /\ auditing' = <<a, done>>
            /\ acts' = IF Acted(done)
                       THEN Append(acts, [at |-> agNow, live |-> account # "demo", row |-> 0])
                       ELSE acts
            /\ pausedAll' = ((pausedAll \/ pausing) /\ ~resuming)
            /\ commandLive' = (commandLive \/ done = "dispatched")
            /\ UNCHANGED audits

\* _audit inserts the row as pending and finishes it with a second write: a failure
\* of the first is swallowed without a row, of the second with a pending one.
AuditRow(status) ==
    /\ audits' = Append(audits, [at |-> agNow, intent |-> auditing[1], status |-> status])
    /\ acts' = IF Acted(auditing[2]) THEN [acts EXCEPT ![Len(acts)].row = Len(audits) + 1]
               ELSE acts

AuditDone ==
    /\ auditing # <<>>
    /\ auditing' = <<>>
    /\ AuditRow(auditing[2])
    /\ UNCHANGED <<signals, grades, lessons, switches, commandLive, gradeCache, slots, onLoop,
                   requests, supervisor, outside, agBudget>>

AuditFails ==
    /\ auditing # <<>>
    /\ Spend("trouble")
    /\ auditing' = <<>>
    /\ AuditRow("pending") \/ UNCHANGED <<audits, acts>>
    /\ UNCHANGED <<signals, grades, lessons, switches, commandLive, gradeCache, slots, onLoop,
                   requests, supervisor, outside>>

-----------------------------------------------------------------------------
(* /analyze on a worker thread *)

ThreadFree(t) == requests[t] = NoRequest
In(t, pc) == requests[t].pc = pc
Asks(t, pc, b, row) == requests' = [requests EXCEPT ![t] = [pc |-> pc, bar |-> b, row |-> row]]
Answered(t) == requests' = [requests EXCEPT ![t] = NoRequest]

\* What every /analyze writes: scores, and the row of its signal.
Post(b) == grades' = ResolveOutcomes(b) /\ signals' = Append(signals, b)

\* agent_lookup, first half: memory, then the newest row of the bar.
\* A hit in memory is the answer and schedules nothing, and so is AI off.
AnalyzeLookup(t, s) ==
    /\ ThreadFree(t) /\ \A u \in Threads : ThreadFree(u) => t <= u
    /\ Spend("posts")
    /\ LET b == <<s, newestBar[s]>>
       IN \/ (~aiOn \/ gradeCache[b] # 0) /\ Post(b) /\ UNCHANGED requests
          \/ /\ aiOn /\ gradeCache[b] = 0
             /\ Asks(t, "looked", b, LatestGrade(b))
             /\ UNCHANGED <<grades, signals>>
    /\ UNCHANGED <<broker, lessons, switches, commandLive, gradeCache, slots, onLoop,
                   supervisor, outside>>

\* agent_lookup, second half: the row read before goes to memory.
AnalyzeFromTable(t) ==
    /\ In(t, "looked") /\ requests[t].row # 0
    /\ gradeCache' = [gradeCache EXCEPT ![requests[t].bar] = requests[t].row]
    /\ Post(requests[t].bar)
    /\ Answered(t)
    /\ UNCHANGED <<broker, lessons, switches, commandLive, slots, onLoop, supervisor,
                   outside, agBudget>>

\* schedule_grade, under agent_lock: the check and the claim of a slot are one step.
SlotFree(b) == b \notin inflight /\ Cardinality(inflight) < MaxInFlight
MayStart(b) == aiOn /\ SlotFree(b)

\* No grade yet: the signal is stored, and a slot claimed unless the bar has one
\* or the two are taken.
AnalyzeClaim(t) ==
    /\ In(t, "looked") /\ requests[t].row = 0
    /\ LET b == requests[t].bar
       IN /\ Post(b)
          /\ \/ /\ MayStart(b)
                /\ inflight' = inflight \union {b}
                /\ Asks(t, "claimed", b, 0)
             \/ ~MayStart(b) /\ Answered(t) /\ UNCHANGED inflight
    /\ UNCHANGED <<broker, lessons, switches, commandLive, gradeCache, jobs, leaked,
                   onLoop, supervisor, outside, agBudget>>

\* The facts are there and the coroutine is handed to the loop.
AnalyzeSchedule(t) ==
    /\ In(t, "claimed")
    /\ jobs' = [jobs EXCEPT ![requests[t].bar] = @ + 1]
    /\ Answered(t)
    /\ UNCHANGED <<tables, acts, auditing, switches, commandLive, gradeCache, inflight, leaked,
                   onLoop, supervisor, outside, agBudget>>

\* schedule_task answers False: the slot is given back.
ScheduleFails(t) ==
    /\ In(t, "claimed")
    /\ Spend("trouble")
    /\ inflight' = inflight \ {requests[t].bar}
    /\ Answered(t)
    /\ UNCHANGED <<tables, acts, auditing, switches, commandLive, gradeCache, jobs, leaked,
                   onLoop, supervisor, outside>>

\* strategy_facts_for walks its cache while another thread puts a key into it: the
\* request ends with an error and nobody gives the slot back.
FactsFail(t) ==
    /\ In(t, "claimed") /\ \E u \in Threads \ {t} : In(u, "claimed")
    /\ Spend("trouble")
    /\ leaked' = leaked \union {requests[t].bar}
    /\ Answered(t)
    /\ UNCHANGED <<tables, acts, auditing, switches, commandLive, gradeCache, inflight, jobs,
                   onLoop, supervisor, outside>>

-----------------------------------------------------------------------------
(* agent_grade_job *)

LoopFree == onLoop = <<>> /\ auditing = <<>>

\* Mutant: the slot is not given back.
ReleaseSlot_Keeps(b) == jobs' = [jobs EXCEPT ![b] = @ - 1] /\ UNCHANGED inflight

\* The finally block: the bar's slot is given back on every path.
ReleaseSlot(b) == /\ jobs' = [jobs EXCEPT ![b] = @ - 1]
                  /\ inflight' = inflight \ {b}

JobAnswered(b, a, d) ==
    /\ LoopFree /\ jobs[b] > 0
    /\ ReleaseSlot(b)
    /\ onLoop' = <<b, Parsed(a), d>>
    /\ UNCHANGED <<tables, acts, auditing, switches, commandLive, gradeCache, leaked, requests,
                   supervisor, outside, agBudget>>

JobFailed(b) ==
    /\ LoopFree /\ jobs[b] > 0
    /\ Spend("trouble")
    /\ ReleaseSlot(b)
    /\ UNCHANGED <<tables, acts, auditing, switches, commandLive, gradeCache, leaked, onLoop,
                   requests, supervisor, outside>>

\* The second half: store the grade, remember it, act on it.
JobStore ==
    /\ onLoop # <<>>
    /\ LET b == onLoop[1]
       IN /\ grades' = Append(grades, GradeRow(b, onLoop[2], onLoop[3]))
          /\ gradeCache' = [gradeCache EXCEPT ![b] = Len(grades) + 1]
    /\ ExecuteIntent(onLoop[2])
    /\ onLoop' = <<>>
    /\ UNCHANGED <<signals, lessons, aiOn, account, slots, requests,
                   supervisor, outside, agBudget>>

\* insert_ai_grade fails: the bar stays without a grade, and nothing is done.
JobLost ==
    /\ onLoop # <<>>
    /\ Spend("trouble")
    /\ onLoop' = <<>>
    /\ UNCHANGED <<tables, acts, auditing, switches, commandLive, gradeCache, slots, requests,
                   supervisor, outside>>

-----------------------------------------------------------------------------
(* The supervisor: one grade, then one lesson, per tick *)

\* supervise: the newest signal of the latest series without a grade; matured grades
\* of the series are scored first.
SuperviseAsk(s) ==
    /\ LoopFree /\ supervisor.pc = "idle" /\ aiOn /\ Ungraded(s) # {}
    /\ s \in LatestSeries
    /\ grades' = ResolveOutcomes(<<s, newestBar[s]>>)
    /\ supervisor' = [pc |-> "grading", bar |-> signals[NewestUngraded(s)], row |-> 0]
    /\ UNCHANGED <<signals, broker, lessons, switches, commandLive, gradeCache, slots, onLoop,
                   requests, outside, agBudget>>

SuperviseNothing ==
    /\ LoopFree /\ supervisor.pc = "idle" /\ aiOn
    /\ \E s \in LatestSeries : Ungraded(s) = {}
    /\ supervisor' = Reflecting
    /\ UNCHANGED <<tables, acts, auditing, switches, commandLive, gradeCache, slots, onLoop,
                   requests, outside, agBudget>>

\* agent_supervisor: a tick with AI off changes nothing.
SuperviseOff == supervisor.pc = "idle" /\ ~aiOn /\ UNCHANGED agentVars

\* The grade is stored under the signal's bar; its import of the cache key
\* fails, so memory is left alone.
SuperviseStore(a, d) ==
    /\ LoopFree /\ supervisor.pc = "grading"
    /\ grades' = Append(grades, GradeRow(supervisor.bar, Parsed(a), d))
    /\ ExecuteIntent(Parsed(a))
    /\ supervisor' = Reflecting
    /\ UNCHANGED <<signals, lessons, aiOn, account, gradeCache, slots, onLoop,
                   requests, outside, agBudget>>

SuperviseFailed ==
    /\ LoopFree /\ supervisor.pc \in {"grading", "lesson"}
    /\ Spend("trouble")
    /\ supervisor' = IF supervisor.pc = "grading" THEN Reflecting ELSE IdleSupervisor
    /\ UNCHANGED <<tables, acts, auditing, switches, commandLive, gradeCache, slots, onLoop,
                   requests, outside>>

\* unreflected_grades: the wrong grade of the oldest bar that has no lesson.
Unreflected == {i \in Scored("wrong") : \A l \in DOMAIN lessons : lessons[l] # i}
OldestUnreflected ==
    CHOOSE i \in Unreflected :
        \A j \in Unreflected : \/ TimeOf(grades[i].bar) < TimeOf(grades[j].bar)
                               \/ TimeOf(grades[i].bar) = TimeOf(grades[j].bar) /\ i <= j

ReflectAsk ==
    /\ LoopFree /\ supervisor.pc = "reflect"
    /\ supervisor' = IF Unreflected = {} THEN IdleSupervisor
                     ELSE [pc |-> "lesson", bar |-> NoBar, row |-> OldestUnreflected]
    /\ UNCHANGED <<tables, acts, auditing, switches, commandLive, gradeCache, slots, onLoop,
                   requests, outside, agBudget>>

ReflectStore ==
    /\ LoopFree /\ supervisor.pc = "lesson"
    /\ lessons' = Append(lessons, supervisor.row)
    /\ supervisor' = IdleSupervisor
    /\ UNCHANGED <<signals, grades, broker, switches, commandLive, gradeCache, slots, onLoop,
                   requests, outside, agBudget>>

-----------------------------------------------------------------------------
(* The owner, the clock, and the process *)

\* ui_rules: ai_enabled
OwnerTogglesAi ==
    /\ Spend("trouble")
    /\ aiOn' = ~aiOn
    /\ UNCHANGED <<tables, acts, auditing, pausedAll, account, commandLive,
                   gradeCache, slots, onLoop, requests, supervisor, outside>>

\* A command of another actor starts, or the live one is over.
CommandChanges ==
    /\ Spend("trouble")
    /\ commandLive' = ~commandLive
    /\ UNCHANGED <<tables, acts, auditing, switches, gradeCache, slots, onLoop, requests,
                   supervisor, outside>>

NextBar(s) ==
    /\ newestBar[s] < LastBar[s]
    /\ newestBar' = [newestBar EXCEPT ![s] = @ + 1]
    /\ UNCHANGED <<tables, acts, auditing, switches, commandLive, gradeCache, slots, onLoop,
                   requests, supervisor, config, agNow, agBudget>>

AgentTick ==
    /\ Spend("trouble")
    /\ agNow' = agNow + 1
    /\ UNCHANGED <<tables, acts, auditing, switches, commandLive, gradeCache, slots, onLoop,
                   requests, supervisor, config, newestBar>>

\* lifespan: jobs, slots and memory are gone, the tables stay.
AgentRestart ==
    /\ Spend("trouble")
    /\ gradeCache' = [b \in Bars |-> 0]
    /\ inflight' = {} /\ leaked' = {} /\ jobs' = [b \in Bars |-> 0]
    /\ onLoop' = <<>> /\ auditing' = <<>>
    /\ requests' = [t \in Threads |-> NoRequest]
    /\ supervisor' = IdleSupervisor
    /\ UNCHANGED <<tables, acts, switches, commandLive, outside>>

AnalyzeStep == \E t \in Threads : \/ \E s \in Series : AnalyzeLookup(t, s)
                                  \/ AnalyzeFromTable(t) \/ AnalyzeClaim(t)
                                  \/ AnalyzeSchedule(t) \/ ScheduleFails(t) \/ FactsFail(t)
JobStep == \/ JobStore \/ JobLost \/ AuditDone \/ AuditFails
           \/ \E b \in Bars : JobFailed(b)
           \/ \E b \in Bars, r \in Answers : JobAnswered(b, r[1], r[2])
SupervisorStep == \/ \E s \in Series : SuperviseAsk(s)
                  \/ SuperviseNothing \/ SuperviseOff \/ SuperviseFailed
                  \/ \E r \in Answers : SuperviseStore(r[1], r[2])
                  \/ ReflectAsk \/ ReflectStore
WorldStep == \/ OwnerTogglesAi \/ CommandChanges \/ AgentTick \/ AgentRestart
             \/ \E s \in Series : NextBar(s)

AgentNext == AnalyzeStep \/ JobStep \/ SupervisorStep \/ WorldStep

\* The supervisor loop, the grading jobs and the broker are tasks of the event loop; a
\* provider that fails does so within httpx's timeout, and only MaxTrouble times.
SupervisorGoesOn == \/ \E s \in Series : SuperviseAsk(s)
                    \/ SuperviseNothing \/ ReflectAsk \/ ReflectStore
                    \/ \E r \in Answers : SuperviseStore(r[1], r[2])
LoopGoesOn == JobStore \/ AuditDone
AgentFairness ==
    WF_agentVars(SupervisorGoesOn) /\ WF_agentVars(LoopGoesOn)

AgentSpec == AgentInit /\ [][AgentNext]_agentVars /\ AgentFairness
-----------------------------------------------------------------------------
(* Properties *)

AgentTypeOK ==
    /\ \A i \in DOMAIN signals : signals[i] \in Bars
    /\ \A i \in DOMAIN grades :
          grades[i] \in [bar : Bars, action : AllowedActions \union {"none"},
                        direction : Directions, score : {"open", "right", "wrong"}]
    /\ \A i \in DOMAIN audits :
          audits[i] \in [at : 0..MaxTrouble, intent : AllowedActions,
                        status : {"pending", "skipped", "rejected", "applied", "dispatched"}]
    /\ \A i \in DOMAIN lessons : lessons[i] \in DOMAIN grades
    /\ \A i \in DOMAIN acts : acts[i].row \in {0} \union DOMAIN audits
    /\ {pausedAll, aiOn, commandLive} \subseteq BOOLEAN
    /\ gradeCache \in [Bars -> Nat] /\ inflight \subseteq Bars /\ jobs \in [Bars -> Nat]

\* A slot is held by one job of its bar, or by one request on its way from the claim to
\* the job, whatever failed or was restarted in between: at most two gradings of
\* /analyze are in flight, one per bar, and a slot is lost (the bar is never graded by
\* /analyze again, and the cap is one lower) only with a request that failed over the
\* facts of the strategy, which schedule_grade does not guard.
Working == {b \in Bars : jobs[b] > 0}
Claimed == {b \in Bars : \E t \in Threads : In(t, "claimed") /\ requests[t].bar = b}
SlotsMatchJobs ==
    /\ inflight = Working \union Claimed \union leaked
    /\ Working \intersect Claimed = {} /\ leaked \intersect (Working \union Claimed) = {}
    /\ \A b \in Bars : jobs[b] <= 1
    /\ \A t, u \in Threads : In(t, "claimed") /\ In(u, "claimed")
                               /\ requests[t].bar = requests[u].bar => t = u
    /\ Cardinality(inflight) <= MaxInFlight

\* What the agent really did stays within its budgets, counted over the actions and
\* not over the audit rows the broker reads: at most PerHour in an hour and PerDay in a
\* day, whichever of the two graders asked, but for the actions that have no audit row
\* (the write failed, or the service died after the action).
Recent(i, span) == {j \in 1..i : acts[j].at + span >= acts[i].at}
Unrecorded == {j \in DOMAIN acts : acts[j].row = 0}
WithinBudget(i) ==
    /\ Cardinality(Recent(i, HourSpan) \ (Unrecorded \ {i})) <= PerHour
    /\ Cardinality(Recent(i, DaySpan) \ (Unrecorded \ {i})) <= PerDay

\* Every action is within the budgets; and on a real account there is none before live
\* actions are allowed and the grades scored are enough to judge the agent by
\* (calibration_gate: "stops an unproven agent from managing real money").
ActionsBounded ==
    \A i \in DOMAIN acts :
        /\ WithinBudget(i)
        /\ acts[i].live => config.allowLive /\ (config.bypass \/ Resolved >= MinResolved)

\* Signals are graded in the end, also those whose job was refused a slot, failed, or
\* died with the process, once AI stays on and the candles of their series stay the
\* newest: the supervisor grades no other series.
AllGraded(s) == \A i \in DOMAIN signals :
                    SeriesOf(signals[i]) = s => RowsFor(signals[i]) # {}
EverySignalGraded ==
    \A s \in Series : <>[](aiOn /\ LatestSeries = {s}) => []<>AllGraded(s)
=============================================================================
