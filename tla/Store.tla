------------------------------- MODULE Store -------------------------------
(***************************************************************************)
(* The SQLite file of the service: the start that brings an older file up  *)
(* to date, statement by statement, and may be killed between any two; and *)
(* the statistics of the signals, kept in memory until one is written.     *)
(* ALTER TABLE commits by itself, the updates of the names do so together. *)
(***************************************************************************)
EXTENDS Naturals, Sequences, FiniteSets

CONSTANTS
    Groups,        \* the columns that were added over time: each group shares one check
    Readers,       \* worker threads that may ask for the statistics
    MaxKills, MaxInserts \* bounds of the run

\* A group adds a column at least, and no two groups add the same one.
ASSUME StoreAssumption ==
    /\ Groups \in Seq(Seq(STRING)) /\ \A g \in DOMAIN Groups : Groups[g] # <<>>
    /\ \A g, h \in DOMAIN Groups : \A k \in DOMAIN Groups[g], m \in DOMAIN Groups[h] :
           Groups[g][k] = Groups[h][m] => g = h
    /\ {MaxKills, MaxInserts} \subseteq Nat

VARIABLES
    (* the file *)
    columns,      \* columns that exist
    oldNames,     \* tables with a row that still has a former strategy name
    oldBeats,     \* heartbeats older than the retention are there
    signalCount,  \* rows of signals, as far as statistics tell them apart
    (* the process *)
    starting,     \* [pc, found, group, column]: SignalDb.__init__
    version,      \* _signals_version
    statsCache,   \* [version, count]: _stats_cache and _stats_cache_version; 0 is None
    readers,      \* thread -> [pc, count]
    (* history *)
    killedInside, \* groups a kill has left half done
    refused,      \* columns whose ALTER failed, until a start adds them or tries again
    namesRefused, \* the renaming of the present start failed
    overtaken,    \* an insert came between a computation and its version
    stLeft        \* kills or failed statements, and inserts, still to come

storeVars == <<columns, oldNames, oldBeats, signalCount, starting, version, statsCache,
               readers, killedInside, refused, namesRefused, overtaken, stLeft>>

Tables == {"signals", "trades", "ai_grades", "kv"}
ColumnsOf(g) == {Groups[g][k] : k \in DOMAIN Groups[g]}
AllColumns == UNION {ColumnsOf(g) : g \in DOMAIN Groups}
NotStarted == [pc |-> "check", found |-> {}, group |-> 1, column |-> 1]
Started == starting.pc = "ready"
NoReader == [pc |-> "idle", count |-> 0]
NoStats == [version |-> 0, count |-> 0, filled |-> FALSE]

\* A file of any earlier release: the groups were added one after the other.
StoreInit ==
    /\ \E g \in 0..Len(Groups) : columns = UNION {ColumnsOf(k) : k \in 1..g}
    /\ oldNames \in {{}, Tables} /\ oldBeats \in BOOLEAN
    /\ signalCount = 0
    /\ starting = NotStarted /\ version = 0 /\ statsCache = NoStats
    /\ readers = [t \in Readers |-> NoReader]
    /\ killedInside = {} /\ refused = {} /\ namesRefused = FALSE /\ overtaken = FALSE
    /\ stLeft = [kills |-> MaxKills, inserts |-> MaxInserts]

File == <<columns, oldNames, oldBeats, signalCount>>
Memory == <<version, statsCache, readers>>
History == <<killedInside, refused, namesRefused, overtaken, stLeft>>
StartTrouble == stLeft.kills > 0 /\ stLeft' = [stLeft EXCEPT !.kills = @ - 1]

-----------------------------------------------------------------------------
(* SignalDb.__init__ *)

\* PRAGMA table_info, once: the columns that are there when the start begins.
ReadColumns ==
    /\ starting.pc = "check"
    /\ starting' = [starting EXCEPT !.pc = "alter", !.found = columns]
    /\ UNCHANGED <<File, Memory, History>>

\* A group is skipped when its first column was found, else its columns are
\* added one by one; one that exists already is passed over.
AtGroup == starting.pc = "alter" /\ starting.group <= Len(Groups)
NextGroup == [starting EXCEPT !.group = @ + 1, !.column = 1]
SkipGroup ==
    /\ AtGroup /\ starting.column = 1 /\ Groups[starting.group][1] \in starting.found
    /\ starting' = NextGroup
    /\ UNCHANGED <<File, Memory, History>>

ColumnAt == Groups[starting.group][starting.column]
AfterColumn == IF starting.column = Len(Groups[starting.group]) THEN NextGroup
               ELSE [starting EXCEPT !.column = @ + 1]
AddColumn ==
    /\ AtGroup
    /\ starting.column > 1 \/ Groups[starting.group][1] \notin starting.found
    /\ starting' = AfterColumn
    /\ columns' = columns \union {ColumnAt} /\ refused' = refused \ {ColumnAt}
    /\ UNCHANGED <<oldNames, oldBeats, signalCount, Memory, killedInside, namesRefused,
                   overtaken, stLeft>>

\* Any other failure of the statement is passed over in the same way.
AddColumnFails ==
    /\ AtGroup /\ ColumnAt \notin columns
    /\ starting.column > 1 \/ Groups[starting.group][1] \notin starting.found
    /\ StartTrouble
    /\ starting' = AfterColumn
    /\ refused' = refused \union {ColumnAt}
    /\ UNCHANGED <<File, Memory, killedInside, namesRefused, overtaken>>

\* _migrate_strategy_ids: every table, in one transaction.
AtRename == starting.pc = "alter" /\ starting.group > Len(Groups)
RenameStrategies ==
    /\ AtRename
    /\ starting' = [starting EXCEPT !.pc = "retain"]
    /\ oldNames' = {}
    /\ UNCHANGED <<columns, oldBeats, signalCount, Memory, History>>

\* A failure is swallowed without a rollback: what was renamed before it goes
\* with the next commit (here at once).
RenameFails ==
    /\ AtRename /\ StartTrouble
    /\ starting' = [starting EXCEPT !.pc = "retain"]
    /\ \E left \in SUBSET oldNames : oldNames' = left
    /\ namesRefused' = TRUE
    /\ UNCHANGED <<columns, oldBeats, signalCount, Memory, killedInside, refused, overtaken>>

\* _retain, whose failure is swallowed too; the service runs with empty memory.
Retain ==
    /\ starting.pc = "retain"
    /\ starting' = [starting EXCEPT !.pc = "ready"]
    /\ oldBeats' \in {FALSE, oldBeats}
    /\ version' = 0 /\ statsCache' = NoStats
    /\ UNCHANGED <<columns, oldNames, signalCount, readers, History>>

\* The next start tries the first column of a group again.
Lasting == {c \in refused : \A g \in DOMAIN Groups : c # Groups[g][1]}
KilledAtStart ==
    /\ StartTrouble
    /\ starting' = NotStarted
    /\ killedInside' = IF AtGroup /\ starting.column > 1
                       THEN killedInside \union {starting.group} ELSE killedInside
    /\ readers' = [t \in Readers |-> NoReader]
    /\ refused' = Lasting /\ namesRefused' = FALSE
    /\ UNCHANGED <<File, version, statsCache, overtaken>>

-----------------------------------------------------------------------------
(* The statistics of the signals *)

\* Mutant: a write does not count.
SignalWritten_Quiet ==
    /\ Started /\ stLeft.inserts > 0
    /\ stLeft' = [stLeft EXCEPT !.inserts = @ - 1]
    /\ signalCount' = signalCount + 1
    /\ UNCHANGED <<columns, oldNames, oldBeats, starting, version, statsCache, readers,
                   killedInside, refused, namesRefused, overtaken>>

\* insert_signal, and resolve_outcomes when it resolved any, under the lock.
SignalWritten ==
    /\ Started /\ stLeft.inserts > 0
    /\ stLeft' = [stLeft EXCEPT !.inserts = @ - 1]
    /\ signalCount' = signalCount + 1 /\ version' = version + 1
    /\ overtaken' = (overtaken \/ \E t \in Readers : readers[t].pc = "computed")
    /\ UNCHANGED <<columns, oldNames, oldBeats, starting, statsCache, readers, killedInside,
                   refused, namesRefused>>

\* stats: the version is compared, the statistics computed, and kept under the
\* version there is by then; none of it holds the lock.
CacheHit == statsCache.filled /\ statsCache.version = version
StatsFromMemory(t) ==
    /\ Started /\ readers[t].pc = "idle" /\ CacheHit
    /\ readers' = [readers EXCEPT ![t] = [pc |-> "answer", count |-> statsCache.count]]
    /\ UNCHANGED <<File, starting, version, statsCache, History>>
StatsComputed(t) ==
    /\ Started /\ readers[t].pc = "idle" /\ ~CacheHit
    /\ readers' = [readers EXCEPT ![t] = [pc |-> "computed", count |-> signalCount]]
    /\ UNCHANGED <<File, starting, version, statsCache, History>>
StatsKept(t) ==
    /\ readers[t].pc = "computed"
    /\ statsCache' = [version |-> version, count |-> readers[t].count, filled |-> TRUE]
    /\ readers' = [readers EXCEPT ![t].pc = "answer"]
    /\ UNCHANGED <<File, starting, version, History>>
StatsAnswered(t) ==
    /\ readers[t].pc = "answer"
    /\ readers' = [readers EXCEPT ![t] = NoReader]
    /\ UNCHANGED <<File, starting, version, statsCache, History>>

StartStep == \/ ReadColumns \/ SkipGroup \/ AddColumn \/ AddColumnFails
             \/ RenameStrategies \/ RenameFails \/ Retain
StatsStep == \E t \in Readers : \/ StatsFromMemory(t) \/ StatsComputed(t)
                                \/ StatsKept(t) \/ StatsAnswered(t)
StoreNext == StartStep \/ KilledAtStart \/ SignalWritten \/ StatsStep
StoreSpec == StoreInit /\ [][StoreNext]_storeVars

-----------------------------------------------------------------------------
(* Properties *)

StoreTypeOK ==
    /\ columns \subseteq AllColumns /\ oldNames \subseteq Tables
    /\ starting.found \subseteq columns
    /\ {oldBeats, overtaken, namesRefused, statsCache.filled} \subseteq BOOLEAN
    /\ signalCount \in 0..MaxInserts /\ version \in 0..signalCount
    /\ killedInside \subseteq DOMAIN Groups /\ refused \subseteq AllColumns

\* A service that has started reads and writes a file with every column and only
\* present strategy names, whatever release wrote the file and however often the
\* start was killed. A statement that failed costs its own column and no other,
\* and the next start makes up for it, as for a renaming that failed; only a
\* column that shares its check with an earlier one is lost for good, when its own
\* ALTER failed or the start was killed between the two.
ColumnsPromised == UNION {{Groups[g][k] : k \in {m \in DOMAIN Groups[g] :
                              g \notin killedInside \/ m = 1}} : g \in DOMAIN Groups}
StartedIsComplete ==
    Started => /\ ColumnsPromised \ refused \subseteq columns
               /\ oldNames = {} \/ namesRefused

\* And it serves what the file holds: statistics kept under the present version
\* are those of the present rows, unless a signal was written between a
\* computation and the note of its version.
StatsAreFresh == overtaken \/ (Started /\ CacheHit => statsCache.count = signalCount)
=============================================================================
