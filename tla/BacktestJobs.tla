--------------------------- MODULE BacktestJobs ---------------------------
(***************************************************************************)
(* Back-tests started from the dashboard: one engine subprocess at a time, *)
(* driven by a daemon thread, with a row in backtest_runs and a directory  *)
(* of artifacts per run.  A restart of the service kills the thread; a      *)
(* thread that cannot be started, or whose last write fails, leaves its row.*)
(***************************************************************************)
EXTENDS Naturals, Sequences, FiniteSets

CONSTANTS
    KeepRuns,      \* _KEEP_RUNS
    MaxRuns, MaxCrashes, MaxPurges \* bounds of the run; a failed call counts as a crash

ASSUME BacktestAssumption == /\ KeepRuns \in Nat \ {0}
                             /\ {MaxRuns, MaxCrashes, MaxPurges} \subseteq Nat

VARIABLES
    runRows,    \* backtest_runs: the status of each run, by id
    runDirs,    \* ids with a directory under RUNS_DIR
    busy,       \* the _busy lock
    worker,     \* [run, pc]: the thread of this process
    stranded,   \* history: rows left running without a thread
    enoughBars, \* the candle table holds 300 bars in the range asked for
    btLeft      \* crashes and purges still to come

btVars == <<runRows, runDirs, busy, worker, stranded, enoughBars, btLeft>>

RunIds == DOMAIN runRows
NoWorker == [run |-> 0, pc |-> "none"]

BacktestInit ==
    /\ runRows = <<>> /\ runDirs = {} /\ busy = FALSE /\ worker = NoWorker
    /\ stranded = {}
    /\ enoughBars \in BOOLEAN
    /\ btLeft = [crashes |-> MaxCrashes, purges |-> MaxPurges]

Goes(what) == /\ btLeft[what] > 0
              /\ btLeft' = [btLeft EXCEPT ![what] = @ - 1]

\* finish_backtest_run
Finish(r, status) == runRows' = [runRows EXCEPT ![r] = status]

-----------------------------------------------------------------------------
(* POST /api/backtest, already past the checks that answer 400.  The handlers *)
(* run on worker threads: only the lock decides which of two comes first.     *)

StartRun ==
    /\ enoughBars /\ Len(runRows) < MaxRuns
    /\ ~busy
    /\ busy' = TRUE
    /\ runRows' = Append(runRows, "running")
    /\ worker' = [run |-> Len(runRows) + 1, pc |-> "prepare"]
    /\ UNCHANGED <<runDirs, stranded, enoughBars, btLeft>>

\* The insert fails, or the thread does not start after it: the lock is given back,
\* the row is not.
StartFails ==
    /\ enoughBars /\ Len(runRows) < MaxRuns
    /\ ~busy
    /\ Goes("crashes")
    /\ \/ UNCHANGED <<runRows, stranded>>
       \/ /\ runRows' = Append(runRows, "running")
          /\ stranded' = stranded \union {Len(runRows) + 1}
    /\ UNCHANGED <<runDirs, busy, worker, enoughBars>>

\* 409: a run is in flight; nothing is written.
RefuseRun == enoughBars /\ busy /\ UNCHANGED btVars

-----------------------------------------------------------------------------
(* _execute *)

At(pc) == worker.pc = pc
Goto(pc) == worker' = [worker EXCEPT !.pc = pc]

\* The except branch: the row is failed, unless that write fails, too.
Fail(r) == \/ Finish(r, "failed") /\ UNCHANGED <<stranded, btLeft>>
           \/ Goes("crashes") /\ stranded' = stranded \union {r} /\ UNCHANGED runRows

\* The bars are counted again in the thread: the table may have changed since.
Prepare ==
    /\ At("prepare")
    /\ enoughBars /\ Goto("engine")
    /\ runDirs' = runDirs \union {worker.run}
    /\ UNCHANGED <<runRows, busy, stranded, enoughBars, btLeft>>

\* Too few bars, or the directory or its first file cannot be made.
PrepareFails ==
    /\ At("prepare") /\ Goto("release")
    /\ \/ runDirs' = runDirs \union {worker.run}
       \/ UNCHANGED runDirs
    /\ Fail(worker.run)
    /\ UNCHANGED <<busy, enoughBars>>

EngineSucceeds ==
    /\ At("engine")
    /\ Finish(worker.run, "done") /\ Goto("prune")
    /\ UNCHANGED <<runDirs, busy, stranded, enoughBars, btLeft>>

\* A non-zero exit, no result file, RUN_TIMEOUT_S, or a row that cannot be set to done.
EngineFails ==
    /\ At("engine") /\ Goto("release")
    /\ Fail(worker.run)
    /\ UNCHANGED <<runDirs, busy, enoughBars>>

NewerDirs(d) == {e \in runDirs : e > d}
Stale(keep) == {d \in runDirs : Cardinality(NewerDirs(d)) >= KeepRuns} \ {keep}

\* Errors of rmtree are ignored: some directories may stay.
PruneRuns ==
    /\ At("prune")
    /\ \E gone \in SUBSET Stale(worker.run) : runDirs' = runDirs \ gone
    /\ Goto("release")
    /\ UNCHANGED <<runRows, busy, stranded, enoughBars, btLeft>>

\* The finally block of _execute_locked.
ReleaseBusy ==
    /\ At("release")
    /\ busy' = FALSE /\ worker' = NoWorker
    /\ UNCHANGED <<runRows, runDirs, stranded, enoughBars, btLeft>>

-----------------------------------------------------------------------------
(* Outside the thread *)

\* lifespan after a crash: rows left running are failed, unless the statement fails;
\* the lock is free.
\* Mutant: rows of the former process are left as they are.
Reconciled_Nothing == runRows
Reconciled == [r \in RunIds |-> IF runRows[r] = "running" THEN "failed" ELSE runRows[r]]
BacktestRestart ==
    /\ Goes("crashes")
    /\ \/ runRows' = Reconciled /\ stranded' = {}
       \/ UNCHANGED runRows /\ stranded' = {r \in RunIds : runRows[r] = "running"}
    /\ busy' = FALSE /\ worker' = NoWorker
    /\ UNCHANGED <<runDirs, enoughBars>>

\* A purge of old candles, or a backfill.
CandlesChange ==
    /\ Goes("purges")
    /\ enoughBars' = ~enoughBars
    /\ UNCHANGED <<runRows, runDirs, busy, worker, stranded>>

ThreadStep == Prepare \/ PrepareFails \/ EngineSucceeds \/ EngineFails \/ PruneRuns \/ ReleaseBusy
BacktestNext == \/ StartRun \/ StartFails \/ RefuseRun \/ ThreadStep
                \/ BacktestRestart \/ CandlesChange

\* The thread is scheduled, and the engine ends within its timeout.
BacktestFairness == WF_btVars(ThreadStep)
BacktestSpec == BacktestInit /\ [][BacktestNext]_btVars /\ BacktestFairness

-----------------------------------------------------------------------------
(* Properties *)

BacktestTypeOK ==
    /\ \A r \in RunIds : runRows[r] \in {"running", "done", "failed"}
    /\ runDirs \subseteq RunIds /\ busy \in BOOLEAN
    /\ worker.pc \in {"none", "prepare", "engine", "prune", "release"}

\* The lock is held exactly while a thread runs: no failure leaks it (every later start
\* would answer 409).  A row says running only when this process has a thread that will
\* settle it, or when its thread did not start, could not write the end down, or died
\* with a process whose successor could not settle it: a start of the service without a
\* failing statement leaves no such row.
\* The report of a done run can be opened while fewer than KeepRuns later runs exist.
RunningRowHasWorker ==
    /\ busy <=> worker # NoWorker
    /\ \A r \in RunIds :
          runRows[r] = "running" <=>
             \/ worker.run = r /\ worker.pc \in {"prepare", "engine"}
             \/ r \in stranded
RecentReportsKept ==
    \A r \in RunIds : runRows[r] = "done" /\ Len(runRows) - r < KeepRuns => r \in runDirs

\* The rows, the lock and the directories of the runs agree.
RunsAccounted == RunningRowHasWorker /\ RecentReportsKept
=============================================================================
