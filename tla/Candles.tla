------------------------------ MODULE Candles ------------------------------
(***************************************************************************)
(* The candles of the service: a window per series in memory, merged by    *)
(* the analyses of the charts, and the candles table, from which a start   *)
(* seeds the windows.  A closed bar never changes, so that a list of       *)
(* candles, kept in the order of its times, is a set of bar numbers.       *)
(*                                                                         *)
(* The analyses run on worker threads and take no lock between the read of *)
(* a window and the write of the merged one.                               *)
(***************************************************************************)
EXTENDS Integers, FiniteSets, FiniteSetsExt

CONSTANTS
    CandleSeries,  \* subset of {"XAUUSD", "BTCUSD"}
    Analyses,      \* worker threads 1..n
    WindowCap,     \* _CANDLE_WINDOW_CAP
    PostLen,       \* bars of an analysis request
    PruneBars,     \* candle_days, in bars
    MaxCandleBars, MaxAnalyses, MaxCandleTrouble \* bounds of the run

ASSUME CandlesAssumption ==
    /\ CandleSeries \subseteq {"XAUUSD", "BTCUSD"}
    /\ {WindowCap, PostLen, PruneBars} \subseteq Nat \ {0}
    /\ IsFiniteSet(Analyses) /\ Analyses = 1..Cardinality(Analyses)
    /\ PostLen <= WindowCap /\ WindowCap <= PruneBars
    /\ {MaxCandleBars, MaxAnalyses, MaxCandleTrouble} \subseteq Nat

VARIABLES
    barNow,        \* the newest closed bar
    window,        \* candles_by_series
    recent,        \* recent_candles: [series, bars]
    keptAnswer,    \* candles_cache: [key, bars]
    analyses,      \* thread -> [pc, series, posted, merged]
    candlesDb,     \* series -> bars of the candles table
    torn,          \* history: series whose window two analyses merged at once, or
                   \* that a start has not seeded
    cdPosts,       \* analyses still to come
    cdTrouble      \* failed writes, restarts and prunes still to come

candleVars == <<barNow, window, recent, keptAnswer, analyses, candlesDb, torn, cdPosts,
                cdTrouble>>

NoRecent == [series |-> "none", bars |-> {}]
NoKept == [key |-> <<>>, bars |-> {}]
NoAnalysis == [pc |-> "idle", series |-> "none", posted |-> {}, merged |-> {}]

CandlesInit ==
    /\ barNow = 0
    /\ window = [s \in CandleSeries |-> {}] /\ candlesDb = [s \in CandleSeries |-> {}]
    /\ recent = NoRecent /\ keptAnswer = NoKept
    /\ analyses = [t \in Analyses |-> NoAnalysis]
    /\ torn = {} /\ cdPosts = MaxAnalyses /\ cdTrouble = MaxCandleTrouble

CandleTrouble == cdTrouble > 0 /\ cdTrouble' = cdTrouble - 1

\* The last `n` bars: the slice of a sorted list, and LIMIT of the table.
LastBars(n, bars) == {b \in bars : Cardinality({c \in bars : c > b}) < n}
LastOf(bars) == IF bars = {} THEN 0 ELSE Max(bars)

-----------------------------------------------------------------------------
(* /analyze *)

CandleCloses ==
    /\ barNow < MaxCandleBars
    /\ barNow' = barNow + 1
    /\ UNCHANGED <<window, recent, keptAnswer, analyses, candlesDb, torn, cdTrouble, cdPosts>>

\* A request, perhaps late by a bar, has come to an idle thread (they are alike,
\* so the first of them); the window is read.
AnalysisReads(t, s, last) ==
    /\ analyses[t] = NoAnalysis /\ last > 0
    /\ \A u \in 1..(t - 1) : analyses[u] # NoAnalysis
    /\ cdPosts > 0 /\ cdPosts' = cdPosts - 1
    /\ LET posted == {b \in 1..last : b > last - PostLen}
       IN analyses' = [analyses EXCEPT ![t] =
              [pc |-> "merge", series |-> s, posted |-> posted,
               merged |-> LastBars(WindowCap, window[s] \union posted)]]
    /\ UNCHANGED <<barNow, window, recent, keptAnswer, candlesDb, torn, cdTrouble>>

\* The merged window is written over whatever is there by now.
AnalysisMerges(t) ==
    LET a == analyses[t] IN
    /\ a.pc = "merge"
    /\ window' = [window EXCEPT ![a.series] = a.merged]
    /\ recent' = [series |-> a.series, bars |-> a.merged]
    /\ analyses' = [analyses EXCEPT ![t].pc = "persist"]
    /\ torn' = torn \union {analyses[u].series :
                              u \in {v \in Analyses \ {t} : /\ analyses[v].pc = "merge"
                                                           /\ analyses[v].series = a.series}}
    /\ UNCHANGED <<barNow, keptAnswer, candlesDb, cdTrouble, cdPosts>>

\* upsert_candles; a failure is logged and the analysis goes on.
AnalysisPersists(t) ==
    LET a == analyses[t] IN
    /\ a.pc = "persist"
    /\ \/ /\ candlesDb' = [candlesDb EXCEPT ![a.series] = @ \union a.posted]
          /\ UNCHANGED cdTrouble
       \/ CandleTrouble /\ UNCHANGED candlesDb
    /\ analyses' = [analyses EXCEPT ![t] = NoAnalysis]
    /\ UNCHANGED <<barNow, window, recent, keptAnswer, torn, cdPosts>>

-----------------------------------------------------------------------------
(* Start and retention *)

\* seed_from_db gives up at the first series it cannot read; gold is preferred
\* as the recent series.
CandlesRestart ==
    /\ CandleTrouble
    /\ \E seeded \in SUBSET {s \in CandleSeries : candlesDb[s] # {}} :
          /\ window' = [s \in CandleSeries |->
                           IF s \in seeded THEN LastBars(WindowCap, candlesDb[s]) ELSE {}]
          /\ \/ seeded = {} /\ recent' = NoRecent
             \/ \E s \in seeded : /\ "XAUUSD" \in seeded => s = "XAUUSD"
                                  /\ recent' = [series |-> s, bars |-> window'[s]]
          /\ torn' = {s \in CandleSeries \ seeded : candlesDb[s] # {}}
    /\ keptAnswer' = NoKept
    /\ analyses' = [t \in Analyses |-> NoAnalysis]
    /\ UNCHANGED <<barNow, candlesDb, cdPosts>>

\* prune_old_data counts back from the newest bar of any series.
PruneCandles ==
    /\ CandleTrouble
    /\ LET newest == LastOf(UNION {candlesDb[s] : s \in CandleSeries})
       IN candlesDb' = [s \in CandleSeries |->
                           {b \in candlesDb[s] : b >= newest - PruneBars}]
    /\ UNCHANGED <<barNow, window, recent, keptAnswer, analyses, torn, cdPosts>>

-----------------------------------------------------------------------------
(* What the dashboard is given *)

\* The recent series; the answer is kept under a key that does not hold the bars.
RecentKey == <<recent.series, Cardinality(recent.bars), LastOf(recent.bars)>>
AskRecent ==
    /\ recent.bars # {} /\ keptAnswer.key # RecentKey
    /\ keptAnswer' = [key |-> RecentKey, bars |-> recent.bars]
    /\ UNCHANGED <<barNow, window, recent, analyses, candlesDb, torn, cdTrouble, cdPosts>>

\* GET /api/candles of one series. The recent one is answered from its window,
\* or as it was kept; of another one the table when its last bar is as new or it
\* has more bars, else the window.
RecentAnswer == IF keptAnswer.key = RecentKey THEN keptAnswer.bars ELSE recent.bars
TableRows(s) == LastBars(WindowCap, candlesDb[s])
AsNew(s) == LastOf(TableRows(s)) >= LastOf(window[s])
CandleBars(s) ==
    CASE recent.series = s -> RecentAnswer
      [] /\ recent.series # s
         /\ \/ window[s] = {}
            \/ TableRows(s) # {} /\ (AsNew(s) \/ Cardinality(TableRows(s)) > Cardinality(window[s]))
         -> TableRows(s)
      [] OTHER -> window[s]

\* The overlays of the same series are computed from bars chosen once more.
OverlayBars(s) ==
    IF TableRows(s) # {} /\ (AsNew(s) \/ window[s] = {}) THEN TableRows(s) ELSE window[s]

CandlesNext ==
    \/ CandleCloses \/ CandlesRestart \/ PruneCandles \/ AskRecent
    \/ \E t \in Analyses : \/ AnalysisMerges(t) \/ AnalysisPersists(t)
                           \/ \E s \in CandleSeries, last \in {barNow - 1, barNow} :
                                 AnalysisReads(t, s, last)
CandlesSpec == CandlesInit /\ [][CandlesNext]_candleVars

-----------------------------------------------------------------------------
(* Properties *)

CandlesTypeOK ==
    /\ barNow \in 0..MaxCandleBars /\ torn \subseteq CandleSeries
    /\ \A s \in CandleSeries : /\ Cardinality(window[s]) <= WindowCap
                               /\ window[s] \union candlesDb[s] \subseteq 1..barNow
    /\ \A t \in Analyses : analyses[t].pc \in {"idle", "merge", "persist"}

\* Until two analyses of a series overlap, or a start cannot seed it, its window
\* has every bar of the table that its length allows: failed writes, restarts,
\* prunes and late requests never leave it older than what is stored.
WindowHoldsTable ==
    \A s \in CandleSeries \ torn :
        LastBars(WindowCap, window[s] \union candlesDb[s]) = window[s]

\* The kept answer of the recent series is the one a new computation would give,
\* although its key names only the length and the last bar. (A bar that comes late
\* into a hole of a full window drops the oldest one and changes neither.)
KeptIsWhole ==
    LET kept == keptAnswer.bars
    IN  kept = {b \in 1..LastOf(kept) : b > LastOf(kept) - Cardinality(kept)}
KeptIsCurrent ==
    recent.bars # {} /\ keptAnswer.key = RecentKey /\ recent.series \notin torn /\ KeptIsWhole
        => keptAnswer.bars = recent.bars

\* The candles of a chart and the overlays drawn over them both reach the newest
\* bar that was written anywhere, and are of the same bars; for the recent series,
\* whose candles come from memory and its overlays from the table, as long as the
\* table lacks no bar of the window (a write that failed, a prune).
ChartIsWhole ==
    \A s \in CandleSeries \ torn :
        /\ LastOf(CandleBars(s)) = LastOf(window[s] \union candlesDb[s])
        /\ LastOf(OverlayBars(s)) = LastOf(window[s] \union candlesDb[s])
        /\ \/ recent.series # s
           \/ window[s] \subseteq candlesDb[s] /\ KeptIsWhole
           => OverlayBars(s) = CandleBars(s)

\* Memory, table and dashboard tell of the same candles.
CandlesAgree == WindowHoldsTable /\ KeptIsCurrent /\ ChartIsWhole
=============================================================================
