---------------------------- MODULE RecordProofs ----------------------------
(***************************************************************************)
(* Proofs about the records of the service: a start brings the file up to  *)
(* date however often it is killed, statistics are those of the rows they  *)
(* are kept for, the candles in memory, in the table and on the dashboard  *)
(* are the same, and a band is the same pushed and asked for.              *)
(***************************************************************************)
EXTENDS Records, NatLemmas

-----------------------------------------------------------------------------
(* The start of the data base                                              *)

Starts == [pc : {"check", "alter", "retain", "ready"}, found : SUBSET AllColumns,
           group : Nat \ {0}, column : Nat \ {0}]
StoreKinds ==
    /\ columns \subseteq AllColumns /\ oldNames \subseteq Tables /\ oldBeats \in BOOLEAN
    /\ starting \in Starts /\ starting.found \subseteq columns
    /\ statsCache \in [version : Nat, count : Nat, filled : BOOLEAN]
    /\ readers \in [Readers -> [pc : {"idle", "computed", "answer"}, count : Nat]]
    /\ stLeft \in [kills : Nat, inserts : Nat] /\ overtaken \in BOOLEAN
    /\ signalCount \in Nat /\ signalCount + stLeft.inserts = MaxInserts
    /\ version \in 0..signalCount /\ killedInside \subseteq DOMAIN Groups
    /\ refused \subseteq AllColumns /\ namesRefused \in BOOLEAN

\* A group whose first column is there has all of them but those that failed; or
\* the start is at it, or a kill has left it half done.
Tried == columns \union refused
InsideGroup(g) == starting.pc = "alter" /\ starting.group = g /\ starting.column > 1
Whole(g) == ColumnsOf(g) \subseteq Tried \/ g \in killedInside
GroupsWhole ==
    \A g \in DOMAIN Groups : Groups[g][1] \in columns => Whole(g) \/ InsideGroup(g)

\* How far the start has come: the groups behind it are there or failed, and so are
\* the columns of its group behind it; after them, no former name is left unless
\* the renaming failed.
Done(g) == Groups[g][1] \in Tried /\ Whole(g)
GroupsDone ==
    /\ starting.pc = "check" => starting = NotStarted
    /\ starting.pc = "alter" =>
          /\ starting.group <= Len(Groups) + 1
          /\ starting.group <= Len(Groups) => starting.column <= Len(Groups[starting.group])
          /\ starting.group > Len(Groups) => starting.column = 1
          /\ \A g \in DOMAIN Groups : g < starting.group => Done(g)
          /\ \A k \in 1..(starting.column - 1) : Groups[starting.group][k] \in Tried
    /\ starting.pc \in {"retain", "ready"} =>
          (oldNames = {} \/ namesRefused) /\ \A g \in DOMAIN Groups : Done(g)

\* Statistics that are kept under the present version, or about to be, are those
\* of the rows, until a write overtakes a computation.
StatsKnow ==
    /\ ~Started => \A t \in Readers : readers[t] = NoReader
    /\ statsCache.filled /\ Started => statsCache.version <= version
    /\ ~overtaken => /\ Started /\ CacheHit => statsCache.count = signalCount
                     /\ \A t \in Readers : readers[t].pc = "computed"
                                           => readers[t].count = signalCount

StoreInv == StoreKinds /\ GroupsWhole /\ GroupsDone /\ StatsKnow

LEMMA GroupParts ==
  /\ Len(Groups) \in Nat /\ DOMAIN Groups = 1..Len(Groups)
  /\ \A g \in DOMAIN Groups :
        /\ Len(Groups[g]) \in Nat \ {0} /\ DOMAIN Groups[g] = 1..Len(Groups[g])
        /\ ColumnsOf(g) = {Groups[g][k] : k \in 1..Len(Groups[g])}
        /\ 1 \in 1..Len(Groups[g])
  /\ MaxInserts \in Nat /\ MaxKills \in Nat
<1>1. Len(Groups) \in Nat /\ DOMAIN Groups = 1..Len(Groups)
  BY StoreAssumption, LenProperties
<1>2. ASSUME NEW g \in DOMAIN Groups
      PROVE  Len(Groups[g]) \in Nat \ {0} /\ DOMAIN Groups[g] = 1..Len(Groups[g])
  <2>1. Groups[g] \in Seq(STRING) /\ Groups[g] # <<>>
    BY <1>1, StoreAssumption, ElementOfSeq
  <2>. QED BY <2>1, LenProperties, EmptySeq
<1>3. MaxInserts \in Nat /\ MaxKills \in Nat
  BY StoreAssumption
<1>. QED BY <1>1, <1>2, <1>3 DEF ColumnsOf

\* The first column of a group is of no other.
LEMMA GroupsApart ==
  ASSUME NEW g \in DOMAIN Groups, NEW h \in DOMAIN Groups,
         NEW k \in DOMAIN Groups[h], Groups[g][1] = Groups[h][k]
  PROVE  g = h
BY GroupParts, StoreAssumption

LEMMA StoreStart == ASSUME StoreInit PROVE StoreInv
<1>1. PICK n \in 0..Len(Groups) : columns = UNION {ColumnsOf(k) : k \in 1..n}
  BY DEF StoreInit
<1>2. columns \subseteq AllColumns
  BY <1>1, GroupParts DEF AllColumns
<1>3. starting \in Starts /\ starting.pc = "check" /\ starting.found = {}
  BY DEF StoreInit, Starts, NotStarted
<1>4. statsCache \in [version : Nat, count : Nat, filled : BOOLEAN] /\ ~statsCache.filled
  BY DEF StoreInit, NoStats
<1>5. readers \in [Readers -> [pc : {"idle", "computed", "answer"}, count : Nat]]
      /\ \A t \in Readers : readers[t] = NoReader /\ readers[t].pc = "idle"
  BY DEF StoreInit, NoReader
<1>6. stLeft \in [kills : Nat, inserts : Nat] /\ stLeft.inserts = MaxInserts
  BY GroupParts DEF StoreInit
<1>7. StoreKinds
  <2>1. oldNames \subseteq Tables /\ oldBeats \in BOOLEAN /\ overtaken \in BOOLEAN
        /\ killedInside \subseteq DOMAIN Groups /\ refused \subseteq AllColumns
        /\ namesRefused \in BOOLEAN
    BY DEF StoreInit
  <2>2. signalCount = 0 /\ version = 0 /\ MaxInserts \in Nat
    BY GroupParts DEF StoreInit
  <2>3. signalCount \in Nat /\ signalCount + stLeft.inserts = MaxInserts
        /\ version \in 0..signalCount
    BY <1>6, <2>2
  <2>4. starting.found \subseteq columns
    BY <1>3
  <2>. QED BY <1>2, <1>3, <1>4, <1>5, <1>6, <2>1, <2>3, <2>4 DEF StoreKinds
<1>8. GroupsWhole
  <2>. SUFFICES ASSUME NEW g \in DOMAIN Groups, Groups[g][1] \in columns
                PROVE  ColumnsOf(g) \subseteq columns
    BY DEF GroupsWhole, Whole, Tried
  <2>1. PICK h \in 1..n : Groups[g][1] \in ColumnsOf(h)
    BY <1>1
  <2>2. h \in DOMAIN Groups
    BY GroupParts
  <2>3. g = h
    BY <2>1, <2>2, GroupsApart DEF ColumnsOf
  <2>. QED BY <1>1, <2>3
<1>9. GroupsDone
  BY <1>3 DEF GroupsDone, StoreInit
<1>10. StatsKnow
  BY <1>3, <1>4, <1>5 DEF StatsKnow, Started, CacheHit
<1>. QED BY <1>7, <1>8, <1>9, <1>10 DEF StoreInv

\* A step that leaves the statistics and the rows alone, but for readers that go
\* idle.
LEMMA StatsRest ==
  ASSUME StoreInv, UNCHANGED <<signalCount, version, statsCache>>, overtaken' = overtaken,
         readers' = readers \/ readers' = [t \in Readers |-> NoReader],
         Started' => Started, ~Started' => \A t \in Readers : readers'[t] = NoReader
  PROVE  StatsKnow'
<1>1. StatsKnow
  BY DEF StoreInv
<1>2. \A t \in Readers : readers'[t].pc = "computed" => readers'[t] = readers[t]
  BY DEF NoReader
<1>3. CacheHit' = CacheHit
  BY DEF CacheHit
<1>. QED BY <1>1, <1>2, <1>3 DEF StatsKnow

\* While the service starts, no reader is at work.
LEMMA StartOnly ==
  ASSUME StoreInv, UNCHANGED <<signalCount, Memory, overtaken>>, ~Started, ~Started'
  PROVE  StatsKnow'
BY StatsRest DEF StoreInv, StatsKnow, Memory

LEMMA ReadColumnsKeeps == ASSUME StoreInv, ReadColumns PROVE StoreInv'
<1>. USE DEF StoreInv
<1>1. /\ starting = NotStarted /\ starting.pc = "check"
      /\ starting' = [starting EXCEPT !.pc = "alter", !.found = columns]
      /\ UNCHANGED <<File, Memory, History>>
  BY DEF ReadColumns, GroupsDone
<1>2. /\ starting'.pc = "alter" /\ starting'.found = columns /\ starting' \in Starts
      /\ starting'.group = 1 /\ starting'.column = 1
  BY <1>1 DEF NotStarted, StoreKinds, Starts
<1>3. StoreKinds'
  BY <1>1, <1>2 DEF StoreKinds, File, Memory, History
<1>4. GroupsWhole'
  BY <1>1 DEF GroupsWhole, Whole, Tried, InsideGroup, File, History
<1>5. GroupsDone'
  BY <1>2, GroupParts DEF GroupsDone
<1>6. StatsKnow'
  BY <1>1, <1>2, StartOnly DEF Started, File, History
<1>. QED BY <1>3, <1>4, <1>5, <1>6

\* The group the start is at.
LEMMA GroupThere ==
  ASSUME StoreInv, AtGroup
  PROVE  /\ starting.pc = "alter" /\ starting.group \in DOMAIN Groups
         /\ starting.column \in 1..Len(Groups[starting.group])
         /\ Groups[starting.group][starting.column] \in AllColumns
<1>1. starting.group \in Nat \ {0} /\ starting.column \in Nat \ {0}
  BY DEF StoreInv, StoreKinds, Starts
<1>2. starting.group \in DOMAIN Groups
  BY <1>1, GroupParts DEF AtGroup
<1>3. starting.column \in 1..Len(Groups[starting.group])
  BY <1>1, <1>2, GroupParts DEF AtGroup, StoreInv, GroupsDone
<1>. QED BY <1>2, <1>3, GroupParts DEF AtGroup, AllColumns

LEMMA StartMoves ==
  ASSUME NEW g \in Nat \ {0}, NEW c \in Nat \ {0}, starting \in Starts,
         starting' = [starting EXCEPT !.group = g, !.column = c]
  PROVE  /\ starting' \in Starts /\ starting'.pc = starting.pc
         /\ starting'.found = starting.found /\ starting'.group = g /\ starting'.column = c
<1>1. starting' \in Starts
  BY DEF Starts
<1>2. /\ starting'.pc = starting.pc /\ starting'.found = starting.found
      /\ starting'.group = g /\ starting'.column = c
  BY DEF Starts
<1>. QED BY <1>1, <1>2

LEMMA SkipGroupKeeps == ASSUME StoreInv, SkipGroup PROVE StoreInv'
<1>. USE DEF StoreInv
<1>. DEFINE g == starting.group
<1>1. /\ AtGroup /\ starting.column = 1 /\ Groups[g][1] \in starting.found
      /\ starting' = [starting EXCEPT !.group = @ + 1, !.column = 1]
      /\ UNCHANGED <<File, Memory, History>>
  BY DEF SkipGroup, NextGroup
<1>2. g \in DOMAIN Groups /\ starting.pc = "alter" /\ Groups[g][1] \in columns
  BY <1>1, GroupThere DEF StoreKinds
<1>3. /\ starting'.pc = "alter" /\ starting'.found = starting.found /\ starting' \in Starts
      /\ starting'.group = g + 1 /\ starting'.column = 1
  <2>1. starting \in Starts /\ g + 1 \in Nat \ {0}
    BY DEF StoreKinds, Starts
  <2>2. PICK h \in Nat \ {0}, k \in Nat \ {0} : h = g + 1 /\ k = 1
    BY <2>1
  <2>3. starting' = [starting EXCEPT !.group = h, !.column = k]
    BY <1>1, <2>2
  <2>4. /\ starting' \in Starts /\ starting'.pc = starting.pc /\ starting'.found = starting.found
        /\ starting'.group = h /\ starting'.column = k
    BY <2>1, <2>3, StartMoves
  <2>. QED BY <1>2, <2>2, <2>4
<1>4. StoreKinds'
  BY <1>1, <1>3 DEF StoreKinds, File, Memory, History
<1>5. GroupsWhole'
  BY <1>1 DEF GroupsWhole, Whole, Tried, InsideGroup, File, History
<1>6. GroupsDone'
  <2>1. g + 1 <= Len(Groups) + 1
    BY <1>2, GroupParts
  <2>2. g + 1 <= Len(Groups) => 1 <= Len(Groups[g + 1])
    BY <1>2, GroupParts
  <2>3. Done(g)
    BY <1>1, <1>2 DEF Done, Tried, GroupsWhole, InsideGroup
  <2>4. \A h \in DOMAIN Groups : h < g => Done(h)
    BY <1>2 DEF GroupsDone
  <2>5. \A h \in DOMAIN Groups : h < g + 1 => h < g \/ h = g
    BY <1>2, GroupParts
  <2>6. \A h \in DOMAIN Groups : h < g + 1 => Done(h)
    BY <2>3, <2>4, <2>5
  <2>7. \A h \in DOMAIN Groups : Done(h)' <=> Done(h)
    BY <1>1 DEF Done, Whole, Tried, File, History
  <2>. QED BY <1>1, <1>3, <2>1, <2>2, <2>6, <2>7 DEF GroupsDone
<1>7. StatsKnow'
  BY <1>1, <1>2, <1>3, StartOnly DEF Started, File, History
<1>. QED BY <1>4, <1>5, <1>6, <1>7

\* Where the start is after it has tried a column.
LEMMA ColumnMoves ==
  ASSUME StoreInv, AtGroup, starting' = AfterColumn
  PROVE  /\ starting'.pc = "alter" /\ starting'.found = starting.found /\ starting' \in Starts
         /\ starting.column = Len(Groups[starting.group])
               => starting'.group = starting.group + 1 /\ starting'.column = 1
         /\ starting.column # Len(Groups[starting.group])
               => starting'.group = starting.group /\ starting'.column = starting.column + 1
<1>. DEFINE g == starting.group
            c == starting.column
<1>1. /\ starting \in Starts /\ g \in Nat \ {0} /\ g + 1 \in Nat \ {0}
      /\ c \in Nat \ {0} /\ c + 1 \in Nat \ {0} /\ starting.pc = "alter"
  BY DEF StoreInv, StoreKinds, Starts, AtGroup
<1>2. CASE c = Len(Groups[g])
  <2>1. PICK h \in Nat \ {0}, k \in Nat \ {0} : h = g + 1 /\ k = 1
    BY <1>1
  <2>2. starting' = [starting EXCEPT !.group = h, !.column = k]
    BY <1>2, <2>1 DEF AfterColumn, NextGroup
  <2>3. /\ starting' \in Starts /\ starting'.pc = starting.pc
        /\ starting'.found = starting.found
        /\ starting'.group = h /\ starting'.column = k
    BY <1>1, <2>2, StartMoves
  <2>. QED BY <1>1, <1>2, <2>1, <2>3
<1>3. CASE c # Len(Groups[g])
  <2>1. starting' = [starting EXCEPT !.column = c + 1]
    BY <1>3 DEF AfterColumn
  <2>. QED BY <1>1, <1>3, <2>1 DEF Starts
<1>. QED BY <1>2, <1>3

\* A column that was tried is there or has failed, and the start goes on.
LEMMA ColumnTried ==
  ASSUME StoreInv, AtGroup, starting' = AfterColumn, UNCHANGED killedInside,
         columns \subseteq columns', columns' \subseteq columns \union {ColumnAt},
         Tried' = Tried \union {ColumnAt}
  PROVE  GroupsWhole' /\ GroupsDone'
<1>. USE DEF StoreInv
<1>. SUFFICES ASSUME NEW g, NEW c, g = starting.group, c = starting.column
              PROVE  GroupsWhole' /\ GroupsDone'
  OBVIOUS
<1>. DEFINE new == Groups[g][c]
<1>1. /\ g \in DOMAIN Groups /\ starting.pc = "alter" /\ c \in 1..Len(Groups[g])
      /\ new \in AllColumns
  BY GroupThere
<1>2. /\ starting'.pc = "alter" /\ starting'.found = starting.found /\ starting' \in Starts
      /\ c = Len(Groups[g]) => starting'.group = g + 1 /\ starting'.column = 1
      /\ c # Len(Groups[g]) => starting'.group = g /\ starting'.column = c + 1
  BY ColumnMoves
<1>3. new = ColumnAt /\ Tried \subseteq Tried'
  BY DEF ColumnAt
<1>4. \A k \in 1..c : Groups[g][k] \in Tried'
  <2>1. \A k \in 1..(c - 1) : Groups[g][k] \in Tried'
    BY <1>1, <1>3 DEF GroupsDone
  <2>2. \A k \in 1..c : k \in 1..(c - 1) \/ k = c
    BY <1>1, GroupParts
  <2>. QED BY <1>3, <2>1, <2>2
<1>5. \A h \in DOMAIN Groups : (Whole(h) => Whole(h)') /\ (Done(h) => Done(h)')
  BY <1>3 DEF Whole, Done
<1>6. GroupsWhole'
  <2>. SUFFICES ASSUME NEW h \in DOMAIN Groups, Groups[h][1] \in columns'
                PROVE  Whole(h)' \/ InsideGroup(h)'
    BY DEF GroupsWhole
  <2>1. CASE h = g /\ c = Len(Groups[g])
    BY <1>4, <2>1, GroupParts DEF Whole
  <2>2. CASE h = g /\ c # Len(Groups[g])
    BY <1>1, <1>2, <2>2, GroupParts DEF InsideGroup
  <2>3. CASE h # g
    <3>1. Groups[h][1] # new
      BY <1>1, <2>3, GroupsApart, GroupParts
    <3>2. Groups[h][1] \in columns
      BY <1>3, <3>1
    <3>3. Whole(h)
      BY <2>3, <3>2 DEF GroupsWhole, InsideGroup
    <3>. QED BY <1>5, <3>3
  <2>. QED BY <2>1, <2>2, <2>3
<1>7. \A h \in DOMAIN Groups : h < g => Done(h)'
  BY <1>1, <1>5 DEF GroupsDone
<1>8. CASE c = Len(Groups[g])
  <2>1. g + 1 <= Len(Groups) + 1
    BY <1>1, GroupParts
  <2>2. g + 1 <= Len(Groups) => 1 <= Len(Groups[g + 1])
    BY <1>1, GroupParts
  <2>3. Done(g)'
    BY <1>1, <1>4, <1>8, GroupParts DEF Done, Whole
  <2>4. \A h \in DOMAIN Groups : h < g + 1 => h < g \/ h = g
    BY <1>1, GroupParts
  <2>5. \A h \in DOMAIN Groups : h < g + 1 => Done(h)'
    BY <1>7, <2>3, <2>4
  <2>6. GroupsDone'
    BY <1>2, <1>8, <2>1, <2>2, <2>5 DEF GroupsDone
  <2>. QED BY <1>6, <2>6
<1>9. CASE c # Len(Groups[g])
  <2>1. c + 1 <= Len(Groups[g]) /\ g <= Len(Groups)
    BY <1>1, <1>9, GroupParts
  <2>2. \A k \in 1..(c + 1 - 1) : Groups[g][k] \in Tried'
    BY <1>1, <1>4, GroupParts
  <2>3. GroupsDone'
    BY <1>1, <1>2, <1>7, <1>9, <2>1, <2>2, GroupParts DEF GroupsDone
  <2>. QED BY <1>6, <2>3
<1>. QED BY <1>8, <1>9

LEMMA AddColumnKeeps == ASSUME StoreInv, AddColumn PROVE StoreInv'
<1>. USE DEF StoreInv
<1>1. /\ AtGroup /\ starting' = AfterColumn
      /\ columns' = columns \union {ColumnAt} /\ refused' = refused \ {ColumnAt}
      /\ UNCHANGED <<oldNames, oldBeats, signalCount, Memory, killedInside, namesRefused,
                     overtaken, stLeft>>
  BY DEF AddColumn
<1>2. ColumnAt \in AllColumns /\ starting.pc = "alter"
  BY <1>1, GroupThere DEF ColumnAt
<1>3. starting' \in Starts /\ starting'.found = starting.found /\ starting'.pc = "alter"
  BY <1>1, ColumnMoves
<1>4. StoreKinds'
  BY <1>1, <1>2, <1>3 DEF StoreKinds, Memory
<1>5. GroupsWhole' /\ GroupsDone'
  BY <1>1, ColumnTried DEF Tried
<1>6. StatsKnow'
  BY <1>1, <1>2, <1>3, StartOnly DEF Started
<1>. QED BY <1>4, <1>5, <1>6

\* A trouble of the start is counted.
LEMMA TroubleCounted ==
  ASSUME StoreInv, StartTrouble
  PROVE  stLeft' \in [kills : Nat, inserts : Nat] /\ stLeft'.inserts = stLeft.inserts
BY DEF StoreInv, StoreKinds, StartTrouble

LEMMA AddColumnFailsKeeps == ASSUME StoreInv, AddColumnFails PROVE StoreInv'
<1>. USE DEF StoreInv
<1>1. /\ AtGroup /\ starting' = AfterColumn /\ refused' = refused \union {ColumnAt}
      /\ StartTrouble /\ UNCHANGED <<File, Memory, killedInside, namesRefused, overtaken>>
  BY DEF AddColumnFails
<1>2. ColumnAt \in AllColumns /\ starting.pc = "alter"
  BY <1>1, GroupThere DEF ColumnAt
<1>3. starting' \in Starts /\ starting'.found = starting.found /\ starting'.pc = "alter"
  BY <1>1, ColumnMoves
<1>4. StoreKinds'
  BY <1>1, <1>2, <1>3, TroubleCounted DEF StoreKinds, Memory, File
<1>5. GroupsWhole' /\ GroupsDone'
  BY <1>1, ColumnTried DEF Tried, File
<1>6. StatsKnow'
  BY <1>1, <1>2, <1>3, StartOnly DEF Started, File
<1>. QED BY <1>4, <1>5, <1>6

\* When every column was tried, the names are renamed or that is noted.
LEMMA NamesTried ==
  ASSUME StoreInv, AtRename, starting' = [starting EXCEPT !.pc = "retain"],
         UNCHANGED <<columns, refused, killedInside>>, oldNames' = {} \/ namesRefused'
  PROVE  /\ GroupsWhole' /\ GroupsDone'
         /\ starting'.pc = "retain" /\ starting'.found = starting.found /\ starting' \in Starts
<1>. USE DEF StoreInv
<1>1. starting.pc = "alter" /\ starting.group > Len(Groups)
  BY DEF AtRename
<1>2. starting'.pc = "retain" /\ starting'.found = starting.found /\ starting' \in Starts
  BY DEF StoreKinds, Starts
<1>3. \A g \in DOMAIN Groups : (Whole(g)' <=> Whole(g)) /\ (Done(g)' <=> Done(g))
  BY DEF Whole, Done, Tried
<1>4. \A g \in DOMAIN Groups : g < starting.group
  BY <1>1, GroupParts DEF StoreKinds, Starts
<1>5. \A g \in DOMAIN Groups : Done(g)
  BY <1>1, <1>4 DEF GroupsDone
<1>6. GroupsWhole'
  BY <1>3, <1>5 DEF GroupsWhole, Done
<1>7. GroupsDone'
  BY <1>2, <1>3, <1>5 DEF GroupsDone
<1>. QED BY <1>2, <1>6, <1>7

LEMMA RenameKeeps ==
  ASSUME StoreInv, RenameStrategies \/ RenameFails
  PROVE  StoreInv'
<1>. USE DEF StoreInv
<1>1. /\ AtRename /\ starting' = [starting EXCEPT !.pc = "retain"]
      /\ oldNames' \subseteq oldNames /\ namesRefused' \in BOOLEAN
      /\ oldNames' = {} \/ namesRefused'
      /\ UNCHANGED <<columns, oldBeats, signalCount, Memory, killedInside, refused, overtaken>>
  BY DEF RenameStrategies, RenameFails, History, StoreKinds
<1>2. stLeft' \in [kills : Nat, inserts : Nat] /\ stLeft'.inserts = stLeft.inserts
  BY TroubleCounted DEF RenameStrategies, RenameFails, History, StoreKinds
<1>3. /\ starting'.pc = "retain" /\ starting'.found = starting.found /\ starting' \in Starts
      /\ GroupsWhole' /\ GroupsDone'
  BY <1>1, NamesTried
<1>4. StoreKinds'
  BY <1>1, <1>2, <1>3 DEF StoreKinds, Memory
<1>5. StatsKnow'
  BY <1>1, <1>3, StartOnly DEF Started, AtRename
<1>. QED BY <1>3, <1>4, <1>5

LEMMA RetainKeeps == ASSUME StoreInv, Retain PROVE StoreInv'
<1>. USE DEF StoreInv
<1>1. /\ starting.pc = "retain" /\ oldBeats' \in BOOLEAN /\ version' = 0 /\ statsCache' = NoStats
      /\ starting' = [starting EXCEPT !.pc = "ready"]
      /\ UNCHANGED <<columns, oldNames, signalCount, readers, History>>
  BY DEF Retain, StoreKinds
<1>2. starting'.pc = "ready" /\ starting'.found = starting.found /\ starting' \in Starts
  BY <1>1 DEF StoreKinds, Starts
<1>3. /\ statsCache' \in [version : Nat, count : Nat, filled : BOOLEAN]
      /\ ~statsCache'.filled
  BY <1>1 DEF NoStats
<1>4. version' \in 0..signalCount
  BY <1>1 DEF StoreKinds
<1>5. StoreKinds'
  BY <1>1, <1>2, <1>3, <1>4 DEF StoreKinds, History
<1>6. GroupsWhole'
  BY <1>1 DEF GroupsWhole, Whole, Tried, InsideGroup, History
<1>7. GroupsDone'
  BY <1>1, <1>2 DEF GroupsDone, Done, Whole, Tried, History
<1>8. \A t \in Readers : readers'[t].pc = "idle"
  BY <1>1 DEF StatsKnow, Started, NoReader
<1>9. StatsKnow'
  BY <1>2, <1>3, <1>8 DEF StatsKnow, Started, CacheHit
<1>. QED BY <1>5, <1>6, <1>7, <1>9

LEMMA KilledKeeps == ASSUME StoreInv, KilledAtStart PROVE StoreInv'
<1>. USE DEF StoreInv
<1>1. /\ starting' = NotStarted /\ refused' = Lasting /\ namesRefused' = FALSE /\ readers' = [t \in Readers |-> NoReader]
      /\ UNCHANGED <<File, version, statsCache, overtaken>>
  BY DEF KilledAtStart
<1>2. killedInside' = IF AtGroup /\ starting.column > 1
                      THEN killedInside \union {starting.group} ELSE killedInside
  BY DEF KilledAtStart
<1>3. /\ starting' \in Starts /\ starting'.pc = "check" /\ starting'.found = {}
      /\ readers' \in [Readers -> [pc : {"idle", "computed", "answer"}, count : Nat]]
  BY <1>1 DEF NotStarted, Starts, NoReader
<1>4. /\ stLeft' \in [kills : Nat, inserts : Nat] /\ stLeft'.inserts = stLeft.inserts
  BY TroubleCounted DEF KilledAtStart
<1>5. killedInside \subseteq killedInside' /\ killedInside' \subseteq DOMAIN Groups
  BY <1>2, GroupThere DEF StoreKinds
<1>6. \A g \in DOMAIN Groups : InsideGroup(g) => g \in killedInside'
  BY <1>2, GroupParts DEF InsideGroup, AtGroup
<1>7. StoreKinds'
  BY <1>1, <1>3, <1>4, <1>5 DEF StoreKinds, File, Lasting
<1>8. GroupsWhole'
  <2>. SUFFICES ASSUME NEW g \in DOMAIN Groups, Groups[g][1] \in columns
                PROVE  Whole(g)'
    BY <1>1 DEF GroupsWhole, File
  <2>1. CASE g \in killedInside'
    BY <2>1 DEF Whole
  <2>2. CASE g \notin killedInside'
    <3>1. ColumnsOf(g) \subseteq Tried
      BY <1>5, <1>6, <2>2 DEF GroupsWhole, Whole
    <3>2. ASSUME NEW k \in DOMAIN Groups[g], Groups[g][k] \notin columns
          PROVE  Groups[g][k] \in Lasting
      <4>1. Groups[g][k] \in refused
        BY <3>1, <3>2 DEF Tried, ColumnsOf
      <4>2. ASSUME NEW h \in DOMAIN Groups, Groups[g][k] = Groups[h][1]
            PROVE  FALSE
        BY <3>2, <4>2, GroupsApart
      <4>. QED BY <4>1, <4>2 DEF Lasting
    <3>. QED BY <1>1, <3>2 DEF Whole, Tried, ColumnsOf, File
  <2>. QED BY <2>1, <2>2
<1>9. GroupsDone'
  BY <1>1, <1>3 DEF GroupsDone
<1>10. StatsKnow'
  BY <1>1, <1>3, StatsRest DEF Started, File
<1>. QED BY <1>7, <1>8, <1>9, <1>10

-----------------------------------------------------------------------------
(* The statistics of the signals                                           *)

\* What the statistics do leaves the file and the start alone.
LEMMA StartRests ==
  ASSUME StoreInv,
         UNCHANGED <<columns, oldNames, starting, killedInside, refused, namesRefused>>
  PROVE  GroupsWhole' /\ GroupsDone'
BY DEF StoreInv, GroupsWhole, Whole, Tried, Done, InsideGroup, GroupsDone

LEMMA WrittenKeeps == ASSUME StoreInv, SignalWritten PROVE StoreInv'
<1>. USE DEF StoreInv
<1>1. /\ Started /\ stLeft.inserts > 0 /\ stLeft' = [stLeft EXCEPT !.inserts = @ - 1]
      /\ signalCount' = signalCount + 1 /\ version' = version + 1
      /\ UNCHANGED <<columns, oldNames, oldBeats, starting, statsCache, readers, killedInside,
                     refused, namesRefused>>
  BY DEF SignalWritten
<1>2. overtaken' = (overtaken \/ \E t \in Readers : readers[t].pc = "computed")
  BY DEF SignalWritten
<1>3. stLeft' \in [kills : Nat, inserts : Nat] /\ stLeft'.inserts = stLeft.inserts - 1
  BY <1>1 DEF StoreKinds
<1>4. signalCount' \in Nat /\ signalCount' + stLeft'.inserts = MaxInserts
      /\ version' \in 0..signalCount'
  <2>1. /\ signalCount \in Nat /\ version \in 0..signalCount /\ stLeft.inserts \in Nat
        /\ signalCount + stLeft.inserts = MaxInserts
    BY DEF StoreKinds
  <2>. QED BY <1>1, <1>3, <2>1
<1>5. overtaken' \in BOOLEAN
  BY <1>2
<1>6. StoreKinds'
  BY <1>1, <1>3, <1>4, <1>5 DEF StoreKinds
<1>7. statsCache.filled => statsCache.version <= version /\ statsCache.version \in Nat
  BY <1>1 DEF StatsKnow, StoreKinds
<1>8. version \in Nat
  BY DEF StoreKinds
<1>9. ~CacheHit'
  BY <1>1, <1>7, <1>8 DEF CacheHit
<1>10. statsCache.filled => statsCache.version <= version'
  BY <1>1, <1>7, <1>8
<1>11. StatsKnow'
  BY <1>1, <1>2, <1>9, <1>10 DEF StatsKnow, Started
<1>. QED BY <1>1, <1>6, <1>11, StartRests

LEMMA StatsStepKeeps == ASSUME StoreInv, StatsStep PROVE StoreInv'
<1>. USE DEF StoreInv
<1>. DEFINE StatAnswers == [pc : {"idle", "computed", "answer"}, count : Nat]
<1>1. PICK t \in Readers : \/ StatsFromMemory(t) \/ StatsComputed(t)
                           \/ StatsKept(t) \/ StatsAnswered(t)
  BY DEF StatsStep
<1>2. Started
  BY <1>1 DEF StatsFromMemory, StatsComputed, StatsKept, StatsAnswered, StatsKnow, NoReader
<1>3. UNCHANGED <<File, starting, version, History>>
  BY <1>1 DEF StatsFromMemory, StatsComputed, StatsKept, StatsAnswered
<1>4. /\ readers[t] \in StatAnswers /\ signalCount \in Nat /\ version \in Nat
      /\ statsCache \in [version : Nat, count : Nat, filled : BOOLEAN]
  BY DEF StoreKinds
<1>5. \E a \in StatAnswers : /\ readers' = [readers EXCEPT ![t] = a]
                             /\ a.pc = "computed" => a.count = signalCount
  <2>1. CASE StatsFromMemory(t)
    <3>. DEFINE a == [pc |-> "answer", count |-> statsCache.count]
    <3>1. a \in StatAnswers /\ a.pc # "computed"
      BY <1>4
    <3>. QED BY <2>1, <3>1 DEF StatsFromMemory
  <2>2. CASE StatsComputed(t)
    <3>. DEFINE a == [pc |-> "computed", count |-> signalCount]
    <3>1. a \in StatAnswers /\ a.count = signalCount
      BY <1>4
    <3>. QED BY <2>2, <3>1 DEF StatsComputed
  <2>3. CASE StatsKept(t)
    <3>. DEFINE a == [readers[t] EXCEPT !.pc = "answer"]
    <3>1. a \in StatAnswers /\ a.pc # "computed"
      BY <1>4
    <3>. QED BY <2>3, <3>1 DEF StatsKept
  <2>4. CASE StatsAnswered(t)
    <3>. DEFINE a == NoReader
    <3>1. a \in StatAnswers /\ a.pc # "computed"
      BY DEF NoReader
    <3>. QED BY <2>4, <3>1 DEF StatsAnswered
  <2>. QED BY <1>1, <2>1, <2>2, <2>3, <2>4
<1>6. /\ readers' \in [Readers -> StatAnswers]
      /\ ~overtaken => \A r \in Readers : readers'[r].pc = "computed"
                                         => readers'[r].count = signalCount
  BY <1>5 DEF StoreKinds, StatsKnow
<1>7. /\ statsCache' \in [version : Nat, count : Nat, filled : BOOLEAN]
      /\ statsCache'.filled => statsCache'.version <= version
      /\ ~overtaken /\ statsCache'.filled /\ statsCache'.version = version
            => statsCache'.count = signalCount
  <2>1. CASE statsCache' = statsCache
    BY <1>2, <1>4, <2>1 DEF StatsKnow, CacheHit
  <2>2. CASE StatsKept(t)
    <3>1. statsCache' = [version |-> version, count |-> readers[t].count, filled |-> TRUE]
      BY <2>2 DEF StatsKept
    <3>2. ~overtaken => readers[t].count = signalCount
      BY <2>2 DEF StatsKept, StatsKnow
    <3>. QED BY <1>4, <3>1, <3>2
  <2>. QED BY <1>1, <2>1, <2>2 DEF StatsFromMemory, StatsComputed, StatsAnswered
<1>8. StoreKinds'
  BY <1>3, <1>6, <1>7 DEF StoreKinds, File, History
<1>9. StatsKnow'
  BY <1>2, <1>3, <1>6, <1>7 DEF StatsKnow, Started, CacheHit, File, History
<1>10. GroupsWhole' /\ GroupsDone'
  BY <1>3, StartRests DEF File, History
<1>. QED BY <1>8, <1>9, <1>10

LEMMA StoreStep == ASSUME StoreInv, [StoreNext]_storeVars PROVE StoreInv'
<1>1. CASE UNCHANGED storeVars
  <2>1. StoreKinds'
    BY <1>1 DEF storeVars, StoreInv, StoreKinds
  <2>2. StatsKnow'
    BY <1>1 DEF storeVars, StoreInv, StatsKnow, Started, CacheHit
  <2>. QED BY <1>1, <2>1, <2>2, StartRests DEF storeVars, StoreInv
<1>2. CASE StoreNext
  BY <1>2, ReadColumnsKeeps, SkipGroupKeeps, AddColumnKeeps, AddColumnFailsKeeps, RenameKeeps,
     RetainKeeps, KilledKeeps, WrittenKeeps, StatsStepKeeps DEF StoreNext, StartStep
<1>. QED BY <1>1, <1>2

LEMMA StoreShows == ASSUME StoreInv PROVE StoreTypeOK /\ StartedIsComplete /\ StatsAreFresh
<1>. USE DEF StoreInv
<1>1. StoreTypeOK
  <2>1. signalCount \in 0..MaxInserts
    BY GroupParts DEF StoreKinds
  <2>2. statsCache.filled \in BOOLEAN
    BY DEF StoreKinds
  <2>. QED BY <2>1, <2>2 DEF StoreKinds, StoreTypeOK
<1>2. StartedIsComplete
  <2>. SUFFICES ASSUME Started
                PROVE  ColumnsPromised \subseteq Tried /\ (oldNames = {} \/ namesRefused)
    BY DEF StartedIsComplete, Tried
  <2>1. (oldNames = {} \/ namesRefused) /\ \A g \in DOMAIN Groups : Done(g)
    BY DEF Started, GroupsDone
  <2>2. ASSUME NEW g \in DOMAIN Groups, NEW k \in DOMAIN Groups[g], g \notin killedInside \/ k = 1
        PROVE  Groups[g][k] \in Tried
    BY <2>1, <2>2 DEF Done, Whole, ColumnsOf
  <2>. QED BY <2>1, <2>2 DEF ColumnsPromised
<1>3. StatsAreFresh
  BY DEF StatsAreFresh, StatsKnow
<1>. QED BY <1>1, <1>2, <1>3

\* Whatever release wrote the file, however often its start was killed and
\* whichever of its statements failed, a service that has started has every column
\* but those that failed themselves and those a kill has left half done, and no
\* former name unless the renaming of this start failed; and statistics kept under
\* the present version are those of the present rows, but for a write between
\* computation and note.
THEOREM StoreServes == StoreSpec => [](StoreTypeOK /\ StartedIsComplete /\ StatsAreFresh)
<1>1. StoreSpec => []StoreInv
  BY StoreStart, StoreStep, PTL DEF StoreSpec
<1>. QED BY <1>1, StoreShows, PTL

-----------------------------------------------------------------------------
(* The last bars of a series                                               *)

Above(bars, b) == {c \in bars : c > b}

\* Sets of bar numbers up to N.
BarSets(N) == SUBSET (1..N)

LEMMA BarSetParts ==
  ASSUME NEW N \in Nat, NEW A \in BarSets(N)
  PROVE  /\ \A b \in A : b \in Int /\ 1 <= b /\ b <= N
         /\ \A B : B \subseteq A => B \in BarSets(N)
         /\ \A B \in BarSets(N) : A \union B \in BarSets(N) /\ A \ B \in BarSets(N)
<1>1. \A b \in A : b \in Int /\ 1 <= b /\ b <= N
  BY DEF BarSets
<1>2. \A B : B \subseteq A => B \in BarSets(N)
  BY DEF BarSets
<1>3. \A B \in BarSets(N) : A \union B \in BarSets(N) /\ A \ B \in BarSets(N)
  BY DEF BarSets
<1>. QED BY <1>1, <1>2, <1>3

\* They are finite, and a part of one that is as large is all of it.
LEMMA BarsAreFinite ==
  ASSUME NEW N \in Nat, NEW A \in BarSets(N)
  PROVE  IsFiniteSet(A) /\ Cardinality(A) \in Nat /\ (Cardinality(A) = 0 <=> A = {})
<1>1. IsFiniteSet(1..N)
  BY FS_Interval
<1>2. IsFiniteSet(A)
  BY <1>1, FS_Subset DEF BarSets
<1>. QED BY <1>2, FS_CardinalityType, FS_EmptySet

LEMMA PartIsSmaller ==
  ASSUME NEW N \in Nat, NEW A \in BarSets(N), NEW B, B \subseteq A
  PROVE  /\ Cardinality(A) \in Nat /\ Cardinality(B) \in Nat /\ Cardinality(B) <= Cardinality(A)
         /\ Cardinality(B) = Cardinality(A) => B = A
<1>1. IsFiniteSet(A) /\ B \in SUBSET A
  BY BarsAreFinite
<1>2. IsFiniteSet(B) /\ Cardinality(B) <= Cardinality(A)
      /\ (Cardinality(B) = Cardinality(A) => B = A)
  BY <1>1, FS_Subset
<1>. QED BY <1>1, <1>2, FS_CardinalityType

\* The largest and the smallest of them.
LEMMA BarBounds ==
  ASSUME NEW N \in Nat, NEW A \in BarSets(N), A # {}
  PROVE  /\ Max(A) \in A /\ \A y \in A : y <= Max(A)
         /\ Min(A) \in A /\ \A y \in A : Min(A) <= y
<1>1. A \in SUBSET (0..N) /\ A \in SUBSET Nat
  BY DEF BarSets
<1>. QED BY <1>1, MaxOfNaturals, MinOfNaturals

LEMMA LastBarsOf ==
  ASSUME NEW n \in Nat \ {0}, NEW N \in Nat, NEW A \in BarSets(N)
  PROVE  /\ LastBars(n, A) \subseteq A /\ Cardinality(LastBars(n, A)) <= n
         /\ A # LastBars(n, A) => /\ Cardinality(LastBars(n, A)) >= n
                                  /\ \A x \in A \ LastBars(n, A), y \in LastBars(n, A) : x < y
         /\ LastOf(LastBars(n, A)) = LastOf(A) /\ (A # {} => LastBars(n, A) # {})
<1>. DEFINE T == LastBars(n, A)
<1>1. T \subseteq A /\ T \in BarSets(N)
  BY BarSetParts DEF LastBars
<1>2. \A b \in A : b \in T <=> Cardinality(Above(A, b)) < n
  BY DEF LastBars, Above
<1>3. \A b : /\ Above(A, b) \subseteq A /\ Above(A, b) \in BarSets(N)
             /\ Cardinality(Above(A, b)) \in Nat
  <2>1. \A b : Above(A, b) \subseteq A
    BY DEF Above
  <2>. QED BY <2>1, BarsAreFinite, BarSetParts
<1>4. \A b \in A : b \in Int /\ 1 <= b /\ b <= N
  BY BarSetParts
<1>5. \A b, c : c \in Above(A, b) <=> c \in A /\ c > b
  BY DEF Above
<1>. HIDE DEF T
<1>6. Cardinality(T) <= n
  <2>1. CASE T = {}
    BY <2>1, FS_EmptySet
  <2>2. CASE T # {}
    <3>1. PICK k \in T : \A y \in T : k <= y
      BY <1>1, <2>2, BarBounds
    <3>. DEFINE K == Above(A, k) \union {k}
    <3>2. T \subseteq K /\ k \notin Above(A, k)
      BY <1>1, <1>4, <1>5, <3>1
    <3>3. K \subseteq A
      BY <1>1, <1>5, <3>1
    <3>4. Cardinality(K) = Cardinality(Above(A, k)) + 1
      <4>1. IsFiniteSet(Above(A, k))
        BY <1>3, BarsAreFinite
      <4>. QED BY <3>2, <4>1, FS_AddElement
    <3>. HIDE DEF K
    <3>5. K \in BarSets(N)
      BY <3>3, BarSetParts
    <3>6. Cardinality(T) \in Nat /\ Cardinality(T) <= Cardinality(K)
      BY <3>2, <3>5, PartIsSmaller
    <3>7. Cardinality(Above(A, k)) < n
      BY <1>1, <1>2, <3>1
    <3>. QED BY <1>3, <3>4, <3>6, <3>7
  <2>. QED BY <2>1, <2>2
<1>7. ASSUME A # T
      PROVE  Cardinality(T) >= n /\ \A x \in A \ T, y \in T : x < y
  <2>1. PICK m \in A \ T : \A x \in A \ T : x <= m
    <3>1. A \ T \in BarSets(N) /\ A \ T # {}
      BY <1>1, <1>7, BarSetParts
    <3>. QED BY <3>1, BarBounds
  <2>2. Cardinality(Above(A, m)) >= n
    BY <1>2, <1>3, <2>1
  <2>3. Above(A, m) \subseteq T
    <3>. SUFFICES ASSUME NEW c \in A, c > m, c \notin T PROVE FALSE
      BY <1>5
    <3>. QED BY <1>4, <2>1
  <2>4. ASSUME NEW y \in T PROVE y > m
    <3>1. y # m /\ y \in Int /\ m \in Int /\ Cardinality(Above(A, y)) < n
      BY <1>1, <1>2, <1>4, <2>1
    <3>2. SUFFICES ASSUME y < m PROVE FALSE
      BY <3>1
    <3>3. Above(A, m) \subseteq Above(A, y)
      <4>. SUFFICES ASSUME NEW c \in A, c > m PROVE c > y
        BY <1>5
      <4>. QED BY <1>4, <3>1, <3>2
    <3>4. Cardinality(Above(A, m)) <= Cardinality(Above(A, y))
      BY <1>1, <1>3, <3>3, PartIsSmaller
    <3>. QED BY <1>3, <2>2, <3>1, <3>4
  <2>5. Cardinality(T) \in Nat /\ Cardinality(Above(A, m)) <= Cardinality(T)
    BY <1>1, <2>3, PartIsSmaller
  <2>6. \A x \in A \ T, y \in T : x < y
    BY <1>1, <1>4, <2>1, <2>4
  <2>. QED BY <1>3, <2>2, <2>5, <2>6
<1>8. LastOf(T) = LastOf(A) /\ (A # {} => T # {})
  <2>1. CASE A = {}
    BY <1>1, <2>1 DEF LastOf
  <2>2. CASE A # {}
    <3>1. Max(A) \in A /\ \A y \in A : y <= Max(A)
      BY <2>2, BarBounds
    <3>2. Above(A, Max(A)) = {}
      <4>. SUFFICES ASSUME NEW c \in A, c > Max(A) PROVE FALSE
        BY <1>5
      <4>. QED BY <1>4, <3>1
    <3>3. Max(A) \in T
      BY <1>2, <3>1, <3>2, FS_EmptySet
    <3>4. Max(T) \in T /\ \A y \in T : y <= Max(T)
      BY <1>1, <3>3, BarBounds
    <3>5. Max(T) = Max(A)
      BY <1>1, <1>4, <3>1, <3>3, <3>4
    <3>. QED BY <2>2, <3>3, <3>5 DEF LastOf
  <2>. QED BY <2>1, <2>2
<1>. QED BY <1>1, <1>6, <1>7, <1>8 DEF T

\* To merge into the last bars is to merge into all of them.
LEMMA LastBarsAgain ==
  ASSUME NEW n \in Nat \ {0}, NEW N \in Nat, NEW A \in BarSets(N), NEW P \in BarSets(N)
  PROVE  LastBars(n, LastBars(n, A) \union P) = LastBars(n, A \union P)
<1>. DEFINE T == LastBars(n, A)
            U == T \union P
            V == A \union P
<1>1. T \subseteq A /\ (A # T => Cardinality(T) >= n /\ \A x \in A \ T, y \in T : x < y)
  BY LastBarsOf
<1>2. \A b \in A : b \in T <=> Cardinality(Above(A, b)) < n
  BY DEF LastBars, Above
<1>. HIDE DEF T
<1>3. U \subseteq V /\ V \in BarSets(N) /\ U \in BarSets(N)
  BY <1>1, BarSetParts
<1>4. \A b : /\ Above(A, b) \subseteq Above(V, b) /\ Above(U, b) \subseteq Above(V, b)
             /\ Above(V, b) \subseteq V /\ Above(U, b) \subseteq U
  BY <1>3 DEF Above
<1>. HIDE DEF U, V
<1>5. \A b : Above(V, b) \in BarSets(N) /\ Above(U, b) \in BarSets(N)
  BY <1>3, <1>4, BarSetParts
<1>6. \A b : /\ Cardinality(Above(A, b)) <= Cardinality(Above(V, b))
             /\ Cardinality(Above(U, b)) <= Cardinality(Above(V, b))
             /\ Cardinality(Above(A, b)) \in Nat /\ Cardinality(Above(U, b)) \in Nat
             /\ Cardinality(Above(V, b)) \in Nat
  <2>. TAKE b
  <2>1. Above(A, b) \subseteq Above(V, b) /\ Above(U, b) \subseteq Above(V, b)
    BY <1>4
  <2>2. Above(V, b) \in BarSets(N)
    BY <1>5
  <2>. QED BY <2>1, <2>2, PartIsSmaller
<1>7. ASSUME NEW x \in V, Cardinality(Above(V, x)) < n
      PROVE  x \in U /\ Cardinality(Above(U, x)) < n
  BY <1>2, <1>6, <1>7 DEF U, V
<1>8. ASSUME NEW x \in U, Cardinality(Above(U, x)) < n
      PROVE  x \in V /\ Cardinality(Above(V, x)) < n
  <2>1. CASE A = T
    BY <1>8, <2>1 DEF U, V
  <2>2. CASE A # T
    <3>1. \A b \in V : b \in Int
      BY <1>3, BarSetParts
    <3>2. PICK y \in T : y <= x
      <4>. SUFFICES ASSUME \A y \in T : ~(y <= x) PROVE FALSE
        OBVIOUS
      <4>1. T \subseteq Above(U, x)
        BY <1>1, <1>3, <3>1 DEF Above, U, V
      <4>2. Cardinality(T) <= Cardinality(Above(U, x)) /\ Cardinality(T) \in Nat
        <5>1. Above(U, x) \in BarSets(N)
          BY <1>5
        <5>. QED BY <4>1, <5>1, PartIsSmaller
      <4>3. Cardinality(T) >= n /\ Cardinality(Above(U, x)) \in Nat
        BY <1>1, <1>6, <2>2
      <4>. QED BY <1>8, <4>2, <4>3
    <3>3. ASSUME NEW c \in A, c > x PROVE c \in T
      <4>1. c \in Int /\ y \in Int /\ x \in Int
        BY <1>1, <1>3, <3>1 DEF V
      <4>. QED BY <1>1, <2>2, <3>2, <3>3, <4>1
    <3>4. Above(V, x) = Above(U, x)
      BY <1>1, <3>3 DEF Above, U, V
    <3>. QED BY <1>3, <1>8, <3>4
  <2>. QED BY <2>1, <2>2
<1>9. {b \in U : Cardinality(Above(U, b)) < n} = {b \in V : Cardinality(Above(V, b)) < n}
  BY <1>7, <1>8
<1>. QED BY <1>9 DEF LastBars, Above, T, U, V

\* The last bars do not depend on which of the others are there.
LEMMA LastBarsBetween ==
  ASSUME NEW n \in Nat \ {0}, NEW N \in Nat, NEW A \in BarSets(N), NEW C \in BarSets(N),
         C \subseteq A, LastBars(n, A) \subseteq C
  PROVE  LastBars(n, C) = LastBars(n, A)
<1>1. LastBars(n, A) \union C = C /\ A \union C = A
  OBVIOUS
<1>2. LastBars(n, LastBars(n, A) \union C) = LastBars(n, A \union C)
  BY LastBarsAgain
<1>. QED BY <1>1, <1>2

\* What a window holds already, it holds after a merge.
LEMMA StillHeld ==
  ASSUME NEW n \in Nat \ {0}, NEW N \in Nat, NEW w \in BarSets(N),
         NEW X \in BarSets(N), NEW P \in BarSets(N), LastBars(n, w \union X) = w
  PROVE  LastBars(n, LastBars(n, w \union P) \union X) = LastBars(n, w \union P)
<1>1. w \union P \in BarSets(N) /\ w \union X \in BarSets(N)
  BY BarSetParts
<1>2. LastBars(n, LastBars(n, w \union P) \union X) = LastBars(n, (w \union P) \union X)
  BY <1>1, LastBarsAgain
<1>3. (w \union P) \union X = (w \union X) \union P
  OBVIOUS
<1>4. LastBars(n, LastBars(n, w \union X) \union P) = LastBars(n, (w \union X) \union P)
  BY <1>1, LastBarsAgain
<1>. QED BY <1>2, <1>3, <1>4

-----------------------------------------------------------------------------
(* The candles                                                             *)

KnownBars == BarSets(barNow)
AnalysisStates == [pc : {"idle", "merge", "persist"}, series : CandleSeries \union {"none"},
                   posted : KnownBars, merged : KnownBars]
CandleKinds ==
    /\ barNow \in 0..MaxCandleBars /\ torn \subseteq CandleSeries
    /\ window \in [CandleSeries -> KnownBars] /\ candlesDb \in [CandleSeries -> KnownBars]
    /\ analyses \in [Analyses -> AnalysisStates]
    /\ \A t \in Analyses : analyses[t].pc # "idle" => analyses[t].series \in CandleSeries
    /\ keptAnswer.bars \in KnownBars

\* No window, and no window about to be, is longer than it may be.
WindowsShort ==
    /\ \A s \in CandleSeries : Cardinality(window[s]) <= WindowCap
    /\ \A t \in Analyses : analyses[t].pc = "merge" => Cardinality(analyses[t].merged) <= WindowCap

\* While no two merges of a series overlap, the one under way merges into the
\* window as it is, and what is still to be written to the table is in the window.
InHand ==
    \A t \in Analyses :
        LET a == analyses[t] IN
        a.pc # "idle" /\ a.series \notin torn
           => LastBars(WindowCap, window[a.series] \union a.posted)
                = IF a.pc = "merge" THEN a.merged ELSE window[a.series]

RecentIsWindow ==
    recent # NoRecent => recent.series \in CandleSeries /\ recent.bars = window[recent.series]

\* The answer that is kept was a window of its series.  The window has grown since:
\* it holds the answer's bars, if these have no hole, or it has a later one.
Contiguous(bars) == bars = {b \in 1..LastOf(bars) : b > LastOf(bars) - Cardinality(bars)}
KeptIn(s) ==
    LET kept == keptAnswer.bars
    IN /\ keptAnswer.key = <<s, Cardinality(kept), LastOf(kept)>>
       /\ Cardinality(kept) <= WindowCap
       /\ s \notin torn /\ Contiguous(kept)
             => kept \subseteq window[s] \/ LastOf(kept) < LastOf(window[s])
KeptKnown == keptAnswer = NoKept \/ \E s \in CandleSeries : KeptIn(s)

CandlesInv == /\ CandleKinds /\ WindowsShort /\ WindowHoldsTable /\ InHand /\ RecentIsWindow
              /\ KeptKnown

LEMMA LastOfBars ==
  ASSUME NEW N \in Nat, NEW A \in BarSets(N)
  PROVE  /\ LastOf(A) \in 0..N /\ (A # {} => LastOf(A) \in A) /\ \A b \in A : b <= LastOf(A)
         /\ \A B : B \subseteq A => LastOf(B) <= LastOf(A)
<1>1. \A b \in A : b \in Int /\ 1 <= b /\ b <= N
  BY BarSetParts
<1>2. ASSUME NEW C \in BarSets(N), C # {}
      PROVE  LastOf(C) \in C /\ \A b \in C : b <= LastOf(C)
  BY <1>2, BarBounds DEF LastOf
<1>3. LastOf({}) = 0
  BY DEF LastOf
<1>4. LastOf(A) \in 0..N
  <2>1. CASE A = {}
    BY <1>3, <2>1
  <2>2. CASE A # {}
    <3>1. LastOf(A) \in A
      BY <1>2, <2>2
    <3>. QED BY <1>1, <3>1
  <2>. QED BY <2>1, <2>2
<1>5. ASSUME NEW B, B \subseteq A PROVE LastOf(B) <= LastOf(A)
  <2>1. CASE B = {}
    BY <1>3, <1>4, <2>1
  <2>2. CASE B # {}
    BY <1>2, <1>5, <2>2, BarSetParts
  <2>. QED BY <2>1, <2>2
<1>. QED BY <1>2, <1>3, <1>4, <1>5

LEMMA CandleNumbers ==
  /\ WindowCap \in Nat \ {0} /\ PostLen \in Nat \ {0} /\ MaxCandleBars \in Nat
  /\ "none" \notin CandleSeries
BY CandlesAssumption

\* A window that holds the bars of an answer, or has a later one, does so after a
\* merge.
LEMMA KeptGrows ==
  ASSUME NEW n \in Nat \ {0}, NEW N \in Nat, NEW w \in BarSets(N), NEW P \in BarSets(N),
         NEW K \in BarSets(N), Cardinality(K) <= n, Contiguous(K),
         K \subseteq w \/ LastOf(K) < LastOf(w)
  PROVE  \/ K \subseteq LastBars(n, w \union P)
         \/ LastOf(K) < LastOf(LastBars(n, w \union P))
<1>. DEFINE A == w \union P
            T == LastBars(n, A)
            L == LastOf(A)
<1>1. A \in BarSets(N) /\ w \subseteq A
  BY BarSetParts
<1>. HIDE DEF A
<1>2. /\ T \subseteq A /\ LastOf(T) = L
      /\ A # T => Cardinality(T) >= n /\ \A x \in A \ T, y \in T : x < y
  BY <1>1, LastBarsOf
<1>3. LastOf(w) <= L /\ L \in Nat /\ LastOf(w) \in Nat /\ LastOf(K) \in Nat
  BY <1>1, LastOfBars
<1>4. \A b \in A : b \in Int /\ b <= L
  BY <1>1, LastOfBars, BarSetParts
<1>. HIDE DEF T, L
<1>5. CASE LastOf(K) < LastOf(w)
  BY <1>2, <1>3, <1>5 DEF T, A
<1>6. CASE K \subseteq w
  <2>1. LastOf(K) <= L
    BY <1>1, <1>6, LastOfBars DEF L
  <2>. SUFFICES ASSUME LastOf(K) = L, NEW x \in K, x \notin T PROVE FALSE
    BY <1>2, <1>3, <2>1 DEF T, A
  <2>2. x \in A \ T
    BY <1>1, <1>6
  <2>3. Cardinality(K) \in Nat
    BY BarsAreFinite
  <2>4. x \in Int /\ x > L - Cardinality(K) /\ x <= L
    BY <1>4, <2>2 DEF Contiguous
  <2>5. T \in SUBSET (x + 1 .. L)
    BY <1>2, <1>4, <2>2, <2>4
  <2>6. IsFiniteSet(x + 1 .. L) /\ Cardinality(x + 1 .. L) <= L - x
    <3>1. x + 1 \in Int /\ L \in Int
      BY <1>3, <2>4
    <3>2. /\ IsFiniteSet(x + 1 .. L)
          /\ Cardinality(x + 1 .. L) = IF x + 1 > L THEN 0 ELSE L - (x + 1) + 1
      BY <3>1, FS_Interval
    <3>. QED BY <1>3, <2>4, <3>2
  <2>7. Cardinality(T) <= Cardinality(x + 1 .. L) /\ Cardinality(T) \in Nat
        /\ Cardinality(x + 1 .. L) \in Nat
    BY <2>5, <2>6, FS_Subset, FS_CardinalityType
  <2>8. Cardinality(T) >= n
    BY <1>2, <2>2
  <2>. QED BY <1>3, <2>3, <2>4, <2>6, <2>7, <2>8
<1>. QED BY <1>5, <1>6

LEMMA CandlesStart == ASSUME CandlesInit PROVE CandlesInv
<1>. USE DEF CandlesInit
<1>1. {} \in KnownBars /\ barNow \in Nat
  BY DEF BarSets, KnownBars
<1>2. NoAnalysis \in AnalysisStates /\ NoAnalysis.pc = "idle"
  BY <1>1 DEF NoAnalysis, AnalysisStates
<1>3. \A t \in Analyses : analyses[t] = NoAnalysis
  OBVIOUS
<1>4. CandleKinds
  BY <1>1, <1>2, <1>3, CandleNumbers DEF CandleKinds, NoKept
<1>5. WindowsShort
  BY <1>2, <1>3, FS_EmptySet, CandleNumbers DEF WindowsShort
<1>6. LastBars(WindowCap, {}) = {}
  BY DEF LastBars
<1>7. WindowHoldsTable
  BY <1>6 DEF WindowHoldsTable
<1>8. InHand
  BY <1>2, <1>3 DEF InHand
<1>. QED BY <1>4, <1>5, <1>7, <1>8 DEF CandlesInv, RecentIsWindow, KeptKnown

\* What the invariant says of one series and one analysis.
LEMMA SeriesParts ==
  ASSUME CandlesInv, NEW s \in CandleSeries
  PROVE  /\ barNow \in Nat /\ window[s] \in KnownBars /\ candlesDb[s] \in KnownBars
         /\ Cardinality(window[s]) <= WindowCap
         /\ s \notin torn => LastBars(WindowCap, window[s] \union candlesDb[s]) = window[s]
BY CandleNumbers DEF CandlesInv, CandleKinds, WindowsShort, WindowHoldsTable

LEMMA AnalysisParts ==
  ASSUME CandlesInv, NEW t \in Analyses
  PROVE  /\ analyses[t].posted \in KnownBars /\ analyses[t].merged \in KnownBars
         /\ analyses[t].pc \in {"idle", "merge", "persist"} /\ analyses[t] \in AnalysisStates
         /\ analyses[t].pc # "idle" => analyses[t].series \in CandleSeries
BY DEF CandlesInv, CandleKinds, AnalysisStates

LEMMA BarsRest ==
  ASSUME barNow' = barNow PROVE KnownBars' = KnownBars /\ AnalysisStates' = AnalysisStates
<1>1. KnownBars' = KnownBars
  BY DEF KnownBars, BarSets
<1>. QED BY <1>1 DEF AnalysisStates

LEMMA CloseKeeps == ASSUME CandlesInv, CandleCloses PROVE CandlesInv'
<1>. USE DEF CandlesInv, CandleCloses
<1>1. barNow' \in 0..MaxCandleBars /\ barNow \in Nat /\ barNow' \in Nat
  BY CandleNumbers DEF CandleKinds
<1>2. \A B \in KnownBars : B \in KnownBars'
  BY <1>1 DEF BarSets, KnownBars
<1>3. \A a \in AnalysisStates : a \in AnalysisStates'
  BY <1>2 DEF AnalysisStates
<1>4. CandleKinds'
  BY <1>1, <1>2, <1>3 DEF CandleKinds
<1>5. WindowsShort' /\ WindowHoldsTable' /\ InHand' /\ RecentIsWindow' /\ KeptKnown'
  BY DEF WindowsShort, WindowHoldsTable, InHand, RecentIsWindow, KeptKnown, KeptIn
<1>. QED BY <1>4, <1>5

LEMMA ReadsKeeps ==
  ASSUME CandlesInv, NEW t \in Analyses, NEW s \in CandleSeries,
         NEW last \in {barNow - 1, barNow}, AnalysisReads(t, s, last)
  PROVE  CandlesInv'
<1>. DEFINE posted == {b \in 1..last : b > last - PostLen}
            merged == LastBars(WindowCap, window[s] \union posted)
            a == [pc |-> "merge", series |-> s, posted |-> posted, merged |-> merged]
<1>1. /\ analyses' = [analyses EXCEPT ![t] = a]
      /\ UNCHANGED <<barNow, window, recent, keptAnswer, candlesDb, torn>>
  BY DEF AnalysisReads
<1>2. posted \in KnownBars
  <2>0. barNow \in Nat
    BY SeriesParts
  <2>1. last \in Int /\ last <= barNow
    BY <2>0
  <2>2. posted \subseteq 1..last /\ 1..last \subseteq 1..barNow
    BY <2>0, <2>1
  <2>. QED BY <2>2 DEF KnownBars, BarSets
<1>. HIDE DEF posted
<1>3. window[s] \union posted \in KnownBars
  BY <1>2, SeriesParts, BarSetParts DEF KnownBars
<1>4. merged \in KnownBars /\ Cardinality(merged) <= WindowCap
  <2>. DEFINE A == window[s] \union posted
  <2>1. A \in BarSets(barNow) /\ barNow \in Nat
    BY <1>3, SeriesParts DEF KnownBars
  <2>. HIDE DEF A
  <2>2. LastBars(WindowCap, A) \subseteq A /\ Cardinality(LastBars(WindowCap, A)) <= WindowCap
    BY <2>1, CandleNumbers, LastBarsOf
  <2>3. LastBars(WindowCap, A) \in BarSets(barNow)
    BY <2>1, <2>2, BarSetParts
  <2>. QED BY <2>2, <2>3 DEF A, KnownBars
<1>. HIDE DEF merged
<1>5. a \in AnalysisStates
  BY <1>2, <1>4 DEF AnalysisStates
<1>6. CandleKinds'
  <2>1. KnownBars' = KnownBars /\ AnalysisStates' = AnalysisStates
    BY <1>1, BarsRest
  <2>2. \A u \in Analyses : analyses'[u].pc # "idle" => analyses'[u].series \in CandleSeries
    BY <1>1 DEF CandlesInv, CandleKinds
  <2>. QED BY <1>1, <1>5, <2>1, <2>2 DEF CandlesInv, CandleKinds
<1>7. WindowsShort'
  BY <1>1, <1>4 DEF CandlesInv, WindowsShort, CandleKinds
<1>8. InHand'
  <2>. SUFFICES ASSUME NEW u \in Analyses, analyses'[u].pc # "idle", analyses'[u].series \notin torn
                PROVE  LastBars(WindowCap, window[analyses'[u].series] \union analyses'[u].posted)
                         = IF analyses'[u].pc = "merge" THEN analyses'[u].merged
                           ELSE window[analyses'[u].series]
    BY <1>1 DEF InHand
  <2>1. CASE u = t
    BY <1>1, <2>1 DEF CandlesInv, CandleKinds, merged
  <2>2. CASE u # t
    BY <1>1, <2>2 DEF CandlesInv, CandleKinds, InHand
  <2>. QED BY <2>1, <2>2
<1>9. WindowHoldsTable' /\ RecentIsWindow' /\ KeptKnown'
  BY <1>1 DEF CandlesInv, WindowHoldsTable, RecentIsWindow, KeptKnown, KeptIn
<1>. QED BY <1>6, <1>7, <1>8, <1>9 DEF CandlesInv

LEMMA MergesKeeps == ASSUME CandlesInv, NEW t \in Analyses, AnalysisMerges(t) PROVE CandlesInv'
<1>. DEFINE a == analyses[t]
            s == a.series
            w == window[s]
            new == [a EXCEPT !.pc = "persist"]
            others == {analyses[u].series :
                          u \in {v \in Analyses \ {t} : /\ analyses[v].pc = "merge"
                                                        /\ analyses[v].series = s}}
<1>1. /\ a.pc = "merge" /\ window' = [window EXCEPT ![s] = a.merged]
      /\ recent' = [series |-> s, bars |-> a.merged]
      /\ analyses' = [analyses EXCEPT ![t] = new] /\ torn' = torn \union others
      /\ UNCHANGED <<barNow, keptAnswer, candlesDb>>
  BY DEF AnalysisMerges
<1>2. /\ s \in CandleSeries /\ a \in AnalysisStates
      /\ a.posted \in KnownBars /\ a.merged \in KnownBars
      /\ Cardinality(a.merged) <= WindowCap
  BY <1>1, AnalysisParts DEF CandlesInv, WindowsShort
<1>3. w \in KnownBars /\ candlesDb[s] \in KnownBars /\ barNow \in Nat /\ WindowCap \in Nat \ {0}
  BY <1>2, SeriesParts, CandleNumbers
<1>4. s \notin torn => LastBars(WindowCap, w \union a.posted) = a.merged
  BY <1>1 DEF CandlesInv, InHand
<1>5. /\ new \in AnalysisStates /\ new.pc = "persist" /\ new.series = s
      /\ new.posted = a.posted
  BY <1>2 DEF AnalysisStates
<1>6. others \subseteq {s}
  OBVIOUS
<1>. HIDE DEF a, w, new, others
<1>7. window'[s] = a.merged /\ \A r \in CandleSeries \ {s} : window'[r] = window[r]
  BY <1>1, <1>2 DEF CandlesInv, CandleKinds
<1>8. analyses'[t] = new /\ \A u \in Analyses \ {t} : analyses'[u] = analyses[u]
  BY <1>1 DEF CandlesInv, CandleKinds
<1>9. CandleKinds'
  <2>1. window' \in [CandleSeries -> KnownBars] /\ torn' \subseteq CandleSeries
    BY <1>1, <1>2, <1>6 DEF CandlesInv, CandleKinds
  <2>2. analyses' \in [Analyses -> AnalysisStates]
    BY <1>1, <1>5 DEF CandlesInv, CandleKinds
  <2>3. \A u \in Analyses : analyses'[u].pc # "idle" => analyses'[u].series \in CandleSeries
    BY <1>2, <1>5, <1>8 DEF CandlesInv, CandleKinds
  <2>4. KnownBars' = KnownBars /\ AnalysisStates' = AnalysisStates
    BY <1>1, BarsRest
  <2>. QED BY <1>1, <2>1, <2>2, <2>3, <2>4 DEF CandlesInv, CandleKinds
<1>10. WindowsShort'
  BY <1>2, <1>5, <1>7, <1>8 DEF CandlesInv, WindowsShort
<1>11. s \notin torn =>
          \A X \in KnownBars : LastBars(WindowCap, w \union X) = w
                          => LastBars(WindowCap, a.merged \union X) = a.merged
  <2>. SUFFICES ASSUME s \notin torn, NEW X \in BarSets(barNow), LastBars(WindowCap, w \union X) = w
                PROVE  LastBars(WindowCap, a.merged \union X) = a.merged
    BY DEF KnownBars
  <2>1. w \in BarSets(barNow) /\ a.posted \in BarSets(barNow)
    BY <1>2, <1>3 DEF KnownBars
  <2>2. LastBars(WindowCap, LastBars(WindowCap, w \union a.posted) \union X)
          = LastBars(WindowCap, w \union a.posted)
    BY <1>3, <2>1, StillHeld
  <2>. QED BY <1>4, <2>2
<1>12. WindowHoldsTable'
  <2>. SUFFICES ASSUME NEW r \in CandleSeries, r \notin torn
                PROVE  LastBars(WindowCap, window'[r] \union candlesDb[r]) = window'[r]
    BY <1>1 DEF WindowHoldsTable
  <2>1. CASE r = s
    <3>1. LastBars(WindowCap, w \union candlesDb[s]) = w
      BY <2>1, SeriesParts DEF w
    <3>. QED BY <1>3, <1>7, <1>11, <2>1, <3>1
  <2>2. CASE r # s
    BY <1>7, <2>2, SeriesParts
  <2>. QED BY <2>1, <2>2
<1>13. InHand'
  <2>. SUFFICES ASSUME NEW u \in Analyses, analyses'[u].pc # "idle", analyses'[u].series \notin torn'
                PROVE  LastBars(WindowCap, window'[analyses'[u].series] \union analyses'[u].posted)
                         = IF analyses'[u].pc = "merge" THEN analyses'[u].merged
                           ELSE window'[analyses'[u].series]
    BY DEF InHand
  <2>1. CASE u = t
    <3>1. s \notin torn
      BY <1>1, <1>5, <1>8, <2>1
    <3>2. LastBars(WindowCap, a.merged \union a.posted) = a.merged
      <4>1. w \union a.posted \in KnownBars
        BY <1>2, <1>3, BarSetParts DEF KnownBars
      <4>2. LastBars(WindowCap, a.merged \union a.posted)
              = LastBars(WindowCap, (w \union a.posted) \union a.posted)
        <5>. DEFINE A == w \union a.posted
        <5>1. A \in BarSets(barNow) /\ a.posted \in BarSets(barNow)
          BY <1>2, <4>1 DEF KnownBars
        <5>. HIDE DEF A
        <5>2. LastBars(WindowCap, LastBars(WindowCap, A) \union a.posted)
                = LastBars(WindowCap, A \union a.posted)
          BY <1>3, <5>1, LastBarsAgain
        <5>. QED BY <1>4, <3>1, <5>2 DEF A
      <4>3. (w \union a.posted) \union a.posted = w \union a.posted
        OBVIOUS
      <4>. QED BY <1>4, <3>1, <4>2, <4>3
    <3>. QED BY <1>5, <1>7, <1>8, <2>1, <3>2
  <2>2. CASE u # t /\ analyses[u].series = s
    <3>1. analyses'[u] = analyses[u] /\ s \notin torn'
      BY <1>8, <2>2
    <3>2. analyses[u].pc = "persist" /\ s \notin torn
      <4>1. analyses[u].pc # "merge"
        BY <1>1, <2>2, <3>1 DEF others
      <4>. QED BY <1>1, <3>1, <4>1, AnalysisParts
    <3>3. LastBars(WindowCap, w \union analyses[u].posted) = w /\ analyses[u].posted \in KnownBars
      BY <2>2, <3>2, AnalysisParts DEF CandlesInv, InHand, w
    <3>4. LastBars(WindowCap, a.merged \union analyses[u].posted) = a.merged
      BY <1>11, <3>2, <3>3
    <3>. QED BY <1>7, <2>2, <3>1, <3>2, <3>4
  <2>3. CASE u # t /\ analyses[u].series # s
    <3>1. /\ analyses'[u] = analyses[u] /\ analyses[u].series \in CandleSeries
          /\ analyses[u].series \notin torn
      BY <1>1, <1>8, <2>3, AnalysisParts
    <3>2. window'[analyses[u].series] = window[analyses[u].series]
      BY <1>7, <2>3, <3>1
    <3>. QED BY <3>1, <3>2 DEF CandlesInv, InHand
  <2>. QED BY <2>1, <2>2, <2>3
<1>14. RecentIsWindow'
  BY <1>1, <1>2, <1>7 DEF RecentIsWindow
<1>15. KeptKnown'
  <2>. SUFFICES ASSUME NEW r \in CandleSeries, KeptIn(r) PROVE KeptIn(r)'
    BY <1>1 DEF CandlesInv, KeptKnown
  <2>. DEFINE kept == keptAnswer.bars
  <2>. SUFFICES ASSUME r \notin torn, Contiguous(kept)
                PROVE  kept \subseteq window'[r] \/ LastOf(kept) < LastOf(window'[r])
    BY <1>1 DEF KeptIn
  <2>1. /\ kept \in KnownBars /\ Cardinality(kept) <= WindowCap
        /\ kept \subseteq window[r] \/ LastOf(kept) < LastOf(window[r])
    BY DEF KeptIn, CandlesInv, CandleKinds
  <2>2. CASE r = s
    <3>. HIDE DEF kept
    <3>1. \/ kept \subseteq LastBars(WindowCap, w \union a.posted)
          \/ LastOf(kept) < LastOf(LastBars(WindowCap, w \union a.posted))
      <4>1. /\ w \in BarSets(barNow) /\ a.posted \in BarSets(barNow)
            /\ kept \in BarSets(barNow) /\ Contiguous(kept) /\ Cardinality(kept) <= WindowCap
        BY <1>2, <1>3, <2>1 DEF KnownBars, kept
      <4>2. kept \subseteq w \/ LastOf(kept) < LastOf(w)
        BY <2>1, <2>2 DEF w
      <4>. QED BY <1>3, <4>1, <4>2, KeptGrows
    <3>. QED BY <1>4, <1>7, <2>2, <3>1
  <2>3. CASE r # s
    BY <1>7, <2>1, <2>3
  <2>. QED BY <2>2, <2>3
<1>. QED BY <1>9, <1>10, <1>12, <1>13, <1>14, <1>15 DEF CandlesInv

LEMMA PersistsKeeps == ASSUME CandlesInv, NEW t \in Analyses, AnalysisPersists(t) PROVE CandlesInv'
<1>. DEFINE a == analyses[t]
            s == a.series
<1>1. /\ a.pc = "persist" /\ analyses' = [analyses EXCEPT ![t] = NoAnalysis]
      /\ candlesDb' = candlesDb \/ candlesDb' = [candlesDb EXCEPT ![s] = @ \union a.posted]
      /\ UNCHANGED <<barNow, window, recent, keptAnswer, torn>>
  BY DEF AnalysisPersists
<1>2. s \in CandleSeries /\ a.posted \in KnownBars
  BY <1>1, AnalysisParts
<1>3. KnownBars' = KnownBars /\ AnalysisStates' = AnalysisStates
  BY <1>1, BarsRest
<1>4. NoAnalysis \in AnalysisStates /\ NoAnalysis.pc = "idle"
  BY DEF NoAnalysis, AnalysisStates, KnownBars, BarSets
<1>5. /\ analyses'[t] = NoAnalysis /\ \A u \in Analyses \ {t} : analyses'[u] = analyses[u]
      /\ analyses' \in [Analyses -> AnalysisStates]
  BY <1>1, <1>4 DEF CandlesInv, CandleKinds
<1>6. candlesDb[s] \union a.posted \in KnownBars
  BY <1>2, SeriesParts, BarSetParts DEF KnownBars
<1>7. s \notin torn => LastBars(WindowCap, window[s] \union a.posted) = window[s]
  BY <1>1 DEF CandlesInv, InHand
<1>. HIDE DEF a, s
<1>8. CandleKinds'
  <2>1. candlesDb' \in [CandleSeries -> KnownBars]
    BY <1>1, <1>2, <1>6 DEF CandlesInv, CandleKinds
  <2>2. \A u \in Analyses : analyses'[u].pc # "idle" => analyses'[u].series \in CandleSeries
    BY <1>4, <1>5 DEF CandlesInv, CandleKinds
  <2>. QED BY <1>1, <1>3, <1>5, <2>1, <2>2 DEF CandlesInv, CandleKinds
<1>9. WindowsShort'
  BY <1>1, <1>4, <1>5 DEF CandlesInv, WindowsShort
<1>10. WindowHoldsTable'
  <2>. SUFFICES ASSUME NEW r \in CandleSeries, r \notin torn
                PROVE  LastBars(WindowCap, window[r] \union candlesDb'[r]) = window[r]
    BY <1>1 DEF WindowHoldsTable
  <2>1. CASE candlesDb'[r] = candlesDb[r]
    BY <2>1, SeriesParts
  <2>2. CASE r = s /\ candlesDb'[s] = candlesDb[s] \union a.posted
    <3>. DEFINE w == window[s]
                A == w \union candlesDb[s]
    <3>1. A \in BarSets(barNow) /\ barNow \in Nat /\ a.posted \in BarSets(barNow)
      BY <1>2, SeriesParts, BarSetParts DEF KnownBars
    <3>2. LastBars(WindowCap, A) = w
      BY <2>2, SeriesParts
    <3>3. w \union candlesDb'[s] = A \union a.posted
      BY <2>2
    <3>. HIDE DEF A
    <3>4. LastBars(WindowCap, LastBars(WindowCap, A) \union a.posted)
            = LastBars(WindowCap, A \union a.posted)
      BY <3>1, CandleNumbers, LastBarsAgain
    <3>. QED BY <1>7, <2>2, <3>2, <3>3, <3>4
  <2>. QED BY <1>1, <1>2, <2>1, <2>2 DEF CandlesInv, CandleKinds
<1>11. InHand'
  <2>. SUFFICES ASSUME NEW u \in Analyses, analyses'[u].pc # "idle", analyses'[u].series \notin torn
                PROVE  LastBars(WindowCap, window[analyses'[u].series] \union analyses'[u].posted)
                         = IF analyses'[u].pc = "merge" THEN analyses'[u].merged
                           ELSE window[analyses'[u].series]
    BY <1>1 DEF InHand
  <2>1. u # t
    BY <1>4, <1>5
  <2>. QED BY <1>5, <2>1 DEF CandlesInv, InHand
<1>12. RecentIsWindow' /\ KeptKnown'
  BY <1>1 DEF CandlesInv, RecentIsWindow, KeptKnown, KeptIn
<1>. QED BY <1>8, <1>9, <1>10, <1>11, <1>12 DEF CandlesInv

LEMMA RestartKeeps == ASSUME CandlesInv, CandlesRestart PROVE CandlesInv'
<1>1. PICK seeded \in SUBSET {s \in CandleSeries : candlesDb[s] # {}} :
          /\ window' = [s \in CandleSeries |->
                           IF s \in seeded THEN LastBars(WindowCap, candlesDb[s]) ELSE {}]
          /\ \/ seeded = {} /\ recent' = NoRecent
             \/ \E s \in seeded : /\ "XAUUSD" \in seeded => s = "XAUUSD"
                                  /\ recent' = [series |-> s, bars |-> window'[s]]
          /\ torn' = {s \in CandleSeries \ seeded : candlesDb[s] # {}}
  BY DEF CandlesRestart
<1>2. /\ keptAnswer' = NoKept /\ analyses' = [t \in Analyses |-> NoAnalysis]
      /\ UNCHANGED <<barNow, candlesDb>>
  BY DEF CandlesRestart
<1>3. KnownBars' = KnownBars /\ AnalysisStates' = AnalysisStates
  BY <1>2, BarsRest
<1>4. {} \in KnownBars /\ NoAnalysis \in AnalysisStates /\ NoAnalysis.pc = "idle"
  BY DEF NoAnalysis, AnalysisStates, KnownBars, BarSets
<1>5. ASSUME NEW s \in CandleSeries
      PROVE  /\ LastBars(WindowCap, candlesDb[s]) \in KnownBars
             /\ Cardinality(LastBars(WindowCap, candlesDb[s])) <= WindowCap
             /\ LastBars(WindowCap, candlesDb[s]) \subseteq candlesDb[s]
             /\ candlesDb[s] \in BarSets(barNow) /\ barNow \in Nat
  <2>1. candlesDb[s] \in BarSets(barNow) /\ barNow \in Nat
    BY SeriesParts DEF KnownBars
  <2>2. WindowCap \in Nat \ {0}
    BY CandleNumbers
  <2>3. /\ LastBars(WindowCap, candlesDb[s]) \subseteq candlesDb[s]
        /\ Cardinality(LastBars(WindowCap, candlesDb[s])) <= WindowCap
    BY <2>1, <2>2, LastBarsOf
  <2>4. LastBars(WindowCap, candlesDb[s]) \in KnownBars
    BY <2>1, <2>3, BarSetParts DEF KnownBars
  <2>. QED BY <2>1, <2>3, <2>4
<1>6. CandleKinds'
  <2>1. window' \in [CandleSeries -> KnownBars] /\ torn' \subseteq CandleSeries
    BY <1>1, <1>4, <1>5
  <2>2. analyses' \in [Analyses -> AnalysisStates] /\ keptAnswer'.bars \in KnownBars
    BY <1>2, <1>4 DEF NoKept
  <2>. QED BY <1>2, <1>3, <1>4, <2>1, <2>2 DEF CandlesInv, CandleKinds
<1>7. WindowsShort'
  BY <1>1, <1>2, <1>4, <1>5, FS_EmptySet, CandleNumbers DEF WindowsShort
<1>8. WindowHoldsTable'
  <2>. SUFFICES ASSUME NEW s \in CandleSeries, s \notin torn'
                PROVE  LastBars(WindowCap, window'[s] \union candlesDb[s]) = window'[s]
    BY <1>2 DEF WindowHoldsTable
  <2>1. CASE s \in seeded
    BY <1>1, <1>5, <2>1
  <2>2. CASE s \notin seeded
    <3>1. window'[s] = {} /\ candlesDb[s] = {}
      BY <1>1, <2>2
    <3>. QED BY <3>1 DEF LastBars
  <2>. QED BY <2>1, <2>2
<1>9. InHand'
  BY <1>2, <1>4 DEF InHand
<1>10. RecentIsWindow'
  BY <1>1 DEF RecentIsWindow
<1>. QED BY <1>2, <1>6, <1>7, <1>8, <1>9, <1>10 DEF CandlesInv, KeptKnown

LEMMA PruneKeeps == ASSUME CandlesInv, PruneCandles PROVE CandlesInv'
<1>1. /\ \A s \in CandleSeries : candlesDb'[s] \subseteq candlesDb[s]
      /\ DOMAIN candlesDb' = CandleSeries /\ candlesDb' = [s \in CandleSeries |-> candlesDb'[s]]
      /\ UNCHANGED <<barNow, window, recent, keptAnswer, analyses, torn>>
  BY DEF PruneCandles
<1>2. KnownBars' = KnownBars /\ AnalysisStates' = AnalysisStates
  BY <1>1, BarsRest
<1>3. ASSUME NEW s \in CandleSeries PROVE candlesDb'[s] \in KnownBars
  <2>1. candlesDb[s] \in BarSets(barNow) /\ barNow \in Nat /\ candlesDb'[s] \subseteq candlesDb[s]
    BY <1>1, SeriesParts DEF KnownBars
  <2>. QED BY <2>1, BarSetParts DEF KnownBars
<1>4. CandleKinds'
  BY <1>1, <1>2, <1>3 DEF CandlesInv, CandleKinds
<1>5. WindowHoldsTable'
  <2>. SUFFICES ASSUME NEW s \in CandleSeries, s \notin torn
                PROVE  LastBars(WindowCap, window[s] \union candlesDb'[s]) = window[s]
    BY <1>1 DEF WindowHoldsTable
  <2>. DEFINE A == window[s] \union candlesDb[s]
              C == window[s] \union candlesDb'[s]
  <2>1. /\ A \in BarSets(barNow) /\ C \in BarSets(barNow) /\ barNow \in Nat
        /\ C \subseteq A /\ window[s] \subseteq C
    BY <1>1, <1>3, SeriesParts, BarSetParts DEF KnownBars
  <2>2. LastBars(WindowCap, A) = window[s]
    BY SeriesParts
  <2>. HIDE DEF A, C
  <2>3. LastBars(WindowCap, C) = LastBars(WindowCap, A)
    BY <2>1, <2>2, CandleNumbers, LastBarsBetween
  <2>. QED BY <2>2, <2>3 DEF C
<1>6. WindowsShort' /\ InHand' /\ RecentIsWindow' /\ KeptKnown'
  BY <1>1 DEF CandlesInv, WindowsShort, InHand, RecentIsWindow, KeptKnown, KeptIn
<1>. QED BY <1>4, <1>5, <1>6 DEF CandlesInv

LEMMA AskKeeps == ASSUME CandlesInv, AskRecent PROVE CandlesInv'
<1>1. /\ recent.bars # {} /\ keptAnswer' = [key |-> RecentKey, bars |-> recent.bars]
      /\ UNCHANGED <<barNow, window, recent, analyses, candlesDb, torn>>
  BY DEF AskRecent
<1>2. recent.series \in CandleSeries /\ recent.bars = window[recent.series]
  BY <1>1 DEF CandlesInv, RecentIsWindow, NoRecent
<1>3. recent.bars \in KnownBars /\ Cardinality(recent.bars) <= WindowCap
  BY <1>2, SeriesParts
<1>4. KnownBars' = KnownBars /\ AnalysisStates' = AnalysisStates
  BY <1>1, BarsRest
<1>5. CandleKinds'
  BY <1>1, <1>3, <1>4 DEF CandlesInv, CandleKinds
<1>6. KeptIn(recent.series)'
  BY <1>1, <1>2, <1>3 DEF KeptIn, RecentKey
<1>7. KeptKnown'
  BY <1>1, <1>2, <1>6 DEF KeptKnown
<1>8. WindowsShort' /\ WindowHoldsTable' /\ InHand' /\ RecentIsWindow'
  BY <1>1 DEF CandlesInv, WindowsShort, WindowHoldsTable, InHand, RecentIsWindow
<1>. QED BY <1>5, <1>7, <1>8 DEF CandlesInv

LEMMA CandlesStep == ASSUME CandlesInv, [CandlesNext]_candleVars PROVE CandlesInv'
<1>1. CASE UNCHANGED candleVars
  <2>1. KnownBars' = KnownBars /\ AnalysisStates' = AnalysisStates
    BY <1>1, BarsRest DEF candleVars
  <2>2. CandleKinds'
    BY <1>1, <2>1 DEF CandlesInv, CandleKinds, candleVars
  <2>. QED BY <1>1, <2>2 DEF candleVars, CandlesInv, WindowsShort, WindowHoldsTable, InHand,
                             RecentIsWindow, KeptKnown, KeptIn
<1>2. CASE CandlesNext
  BY <1>2, CloseKeeps, RestartKeeps, PruneKeeps, AskKeeps, MergesKeeps, PersistsKeeps, ReadsKeeps
     DEF CandlesNext
<1>. QED BY <1>1, <1>2

\* The recent series is answered by a list as new as its window, which is the window
\* itself when the kept answer is whole.
LEMMA RecentIsAnswered ==
  ASSUME CandlesInv, recent.series \in CandleSeries, recent.series \notin torn
  PROVE  /\ LastOf(RecentAnswer) = LastOf(window[recent.series])
         /\ KeptIsWhole => RecentAnswer = window[recent.series]
<1>. DEFINE s == recent.series
            kept == keptAnswer.bars
<1>1. recent.bars = window[s]
  BY CandlesAssumption DEF CandlesInv, RecentIsWindow, NoRecent
<1>2. CASE keptAnswer.key # RecentKey
  BY <1>1, <1>2 DEF RecentAnswer
<1>3. CASE keptAnswer.key = RecentKey
  <2>1. RecentAnswer = kept /\ keptAnswer.key = <<s, Cardinality(window[s]), LastOf(window[s])>>
    BY <1>1, <1>3 DEF RecentAnswer, RecentKey
  <2>2. keptAnswer # NoKept
    BY <2>1 DEF NoKept
  <2>3. PICK r \in CandleSeries : KeptIn(r)
    BY <2>2 DEF CandlesInv, KeptKnown
  <2>4. /\ r = s /\ Cardinality(kept) = Cardinality(window[s])
        /\ LastOf(kept) = LastOf(window[s])
    BY <2>1, <2>3 DEF KeptIn
  <2>5. window[s] \in BarSets(barNow) /\ barNow \in Nat
    BY SeriesParts DEF KnownBars
  <2>6. LastOf(window[s]) \in Nat
    BY <2>5, LastOfBars
  <2>7. KeptIsWhole => kept \subseteq window[s]
    BY <2>3, <2>4, <2>6 DEF KeptIn, KeptIsWhole, Contiguous
  <2>8. KeptIsWhole => kept = window[s]
    BY <2>4, <2>5, <2>7, PartIsSmaller
  <2>. QED BY <2>1, <2>4, <2>8
<1>. QED BY <1>2, <1>3

LEMMA AnswerIsCurrent == ASSUME CandlesInv PROVE KeptIsCurrent
<1>. SUFFICES ASSUME recent.bars # {}, keptAnswer.key = RecentKey, recent.series \notin torn,
                     KeptIsWhole
              PROVE  keptAnswer.bars = recent.bars
  BY DEF KeptIsCurrent
<1>1. recent.series \in CandleSeries /\ recent.bars = window[recent.series]
  BY DEF CandlesInv, RecentIsWindow, NoRecent
<1>. QED BY <1>1, RecentIsAnswered DEF RecentAnswer

\* The table's last bars are no more than the window's, so that overlays and
\* candles come to the same choice.
LEMMA ChartsWhole == ASSUME CandlesInv PROVE ChartIsWhole
<1>. SUFFICES ASSUME NEW s \in CandleSeries, s \notin torn
              PROVE  /\ LastOf(CandleBars(s)) = LastOf(window[s] \union candlesDb[s])
                     /\ LastOf(OverlayBars(s)) = LastOf(window[s] \union candlesDb[s])
                     /\ \/ recent.series # s
                        \/ window[s] \subseteq candlesDb[s] /\ KeptIsWhole
                        => OverlayBars(s) = CandleBars(s)
  BY DEF ChartIsWhole
<1>. DEFINE w == window[s]
            D == candlesDb[s]
            A == w \union D
            rows == TableRows(s)
<1>1. /\ w \in BarSets(barNow) /\ D \in BarSets(barNow) /\ A \in BarSets(barNow)
      /\ barNow \in Nat /\ WindowCap \in Nat \ {0}
  BY SeriesParts, CandleNumbers, BarSetParts DEF KnownBars
<1>2. LastBars(WindowCap, A) = w /\ D \subseteq A /\ rows = LastBars(WindowCap, D)
  BY SeriesParts DEF TableRows
<1>. HIDE DEF A, D, w, rows
<1>3. /\ rows \subseteq D /\ Cardinality(rows) <= WindowCap /\ LastOf(rows) = LastOf(D)
      /\ D # {} => rows # {}
  BY <1>1, <1>2, LastBarsOf
<1>4. /\ A # w => Cardinality(w) >= WindowCap
      /\ LastOf(w) = LastOf(A) /\ (A # {} => w # {})
  BY <1>1, <1>2, LastBarsOf
<1>5. Cardinality(rows) \in Nat /\ Cardinality(w) \in Nat /\ Cardinality(rows) <= Cardinality(w)
  <2>1. rows \in BarSets(barNow)
    BY <1>1, <1>3, BarSetParts
  <2>2. Cardinality(rows) \in Nat /\ Cardinality(w) \in Nat
    BY <1>1, <2>1, BarsAreFinite
  <2>3. CASE A # w
    BY <1>1, <1>3, <1>4, <2>2, <2>3
  <2>4. CASE A = w
    <3>1. rows \subseteq w
      BY <1>2, <1>3, <2>4
    <3>. QED BY <1>1, <2>2, <3>1, PartIsSmaller
  <2>. QED BY <2>3, <2>4
<1>6. LastOf(rows) <= LastOf(A) /\ LastOf(A) \in Nat /\ LastOf(rows) \in Nat /\ LastOf(w) \in Nat
  BY <1>1, <1>2, <1>3, LastOfBars
<1>7. AsNew(s) <=> LastOf(rows) >= LastOf(w)
  BY DEF AsNew, rows, w
<1>8. OverlayBars(s) = IF rows # {} /\ (AsNew(s) \/ w = {}) THEN rows ELSE w
  BY DEF OverlayBars, rows, w
<1>9. /\ LastOf(OverlayBars(s)) = LastOf(A)
      /\ w \subseteq D => OverlayBars(s) = w
  <2>1. LastOf(OverlayBars(s)) = LastOf(A)
    BY <1>2, <1>3, <1>4, <1>6, <1>7, <1>8 DEF A
  <2>2. ASSUME w \subseteq D PROVE rows = w
    <3>1. A = D
      BY <2>2 DEF A
    <3>. QED BY <1>2, <3>1
  <2>. QED BY <1>8, <2>1, <2>2
<1>10. CASE recent.series = s
  <2>1. CandleBars(s) = RecentAnswer
    BY <1>10 DEF CandleBars
  <2>2. LastOf(RecentAnswer) = LastOf(w) /\ (KeptIsWhole => RecentAnswer = w)
    BY <1>10, RecentIsAnswered DEF w
  <2>. QED BY <1>4, <1>9, <1>10, <2>1, <2>2 DEF A, D, w
<1>11. CASE recent.series # s
  <2>1. CandleBars(s) = IF w = {} \/ (rows # {} /\ (AsNew(s) \/ Cardinality(rows) > Cardinality(w)))
                        THEN rows ELSE w
    BY <1>11 DEF CandleBars, rows, w
  <2>2. w = {} => rows = {}
    BY <1>2, <1>3, <1>4 DEF A
  <2>3. OverlayBars(s) = CandleBars(s)
    BY <1>5, <1>8, <2>1, <2>2
  <2>. QED BY <1>9, <2>3 DEF A, D, w
<1>. QED BY <1>10, <1>11

LEMMA CandlesShow == ASSUME CandlesInv PROVE CandlesTypeOK /\ CandlesAgree
<1>1. CandlesTypeOK
  <2>1. \A s \in CandleSeries : /\ Cardinality(window[s]) <= WindowCap
                                /\ window[s] \union candlesDb[s] \subseteq 1..barNow
    BY SeriesParts DEF KnownBars, BarSets
  <2>2. \A t \in Analyses : analyses[t].pc \in {"idle", "merge", "persist"}
    BY AnalysisParts
  <2>. QED BY <2>1, <2>2 DEF CandlesTypeOK, CandlesInv, CandleKinds
<1>. QED BY <1>1, ChartsWhole, AnswerIsCurrent DEF CandlesAgree, CandlesInv

\* However analyses interleave, writes fail, rows are pruned and the service is
\* restarted: a window that no two merges have overlapped in holds what the table
\* does, the kept answer of the dashboard is the present one, and candles and
\* overlays of a chart reach the newest bar written anywhere and are of the same
\* bars, the recent series apart while the table lacks bars of its window.
THEOREM CandlesHold == CandlesSpec => [](CandlesTypeOK /\ CandlesAgree)
<1>1. CandlesSpec => []CandlesInv
  BY CandlesStart, CandlesStep, PTL DEF CandlesSpec
<1>. QED BY <1>1, CandlesShow, PTL

-----------------------------------------------------------------------------
(* The rows of a symbol                                                    *)

LEMMA NewestOf ==
  ASSUME NEW n \in Nat, NEW S \in SUBSET (1..n)
  PROVE  /\ Newest(S) \in 0..n /\ (Newest(S) = 0 <=> S = {})
         /\ S # {} => Newest(S) \in S
         /\ \A i \in S : i <= Newest(S)
         /\ Newest(S \union {n + 1}) = n + 1
<1>1. CASE S = {}
  <2>1. n + 1 \in 1..(n + 1) /\ {n + 1} \in SUBSET (0..(n + 1)) /\ {n + 1} # {}
    OBVIOUS
  <2>2. Max({n + 1}) \in {n + 1}
    BY <2>1, MaxOfNaturals
  <2>3. S \union {n + 1} = {n + 1}
    BY <1>1
  <2>. QED BY <1>1, <2>1, <2>2, <2>3 DEF Newest
<1>2. CASE S # {}
  <2>1. S \in SUBSET (0..n)
    OBVIOUS
  <2>2. Max(S) \in S /\ \A y \in S : y <= Max(S)
    BY <1>2, <2>1, MaxOfNaturals
  <2>. DEFINE T == S \union {n + 1}
  <2>3. T \in SUBSET (0..(n + 1)) /\ T # {} /\ n + 1 \in T /\ \A y \in S : y <= n
    OBVIOUS
  <2>4. Max(T) \in T /\ \A y \in T : y <= Max(T)
    BY <2>3, MaxOfNaturals
  <2>5. Max(T) = n + 1
    <3>. DEFINE m == Max(T)
    <3>1. n + 1 <= m /\ (m \in S \/ m = n + 1)
      BY <2>3, <2>4
    <3>2. \A y \in S : y \in Nat /\ y <= n
      BY <2>3
    <3>. HIDE DEF T, m
    <3>3. ASSUME m \in S PROVE FALSE
      <4>1. m \in Nat /\ m <= n
        BY <3>2, <3>3
      <4>. QED BY <3>1, <4>1
    <3>4. m = n + 1
      BY <3>1, <3>3
    <3>. QED BY <3>4 DEF m
  <2>6. Newest(S) = Max(S) /\ Newest(T) = Max(T)
    BY <1>2, <2>3 DEF Newest
  <2>7. Max(S) \in 1..n
    BY <2>2
  <2>. QED BY <1>2, <2>2, <2>5, <2>6, <2>7
<1>. QED BY <1>1, <1>2

LEMMA NewestIs ==
  ASSUME NEW n \in Nat, NEW S \in SUBSET (1..n), NEW i \in S, \A j \in S : j <= i
  PROVE  Newest(S) = i
<1>1. Newest(S) \in S /\ i <= Newest(S) /\ Newest(S) <= i
  BY NewestOf
<1>2. Newest(S) \in 0..n /\ i \in 1..n
  BY NewestOf
<1>. DEFINE m == Newest(S)
<1>3. m \in Nat /\ i \in Nat /\ i <= m /\ m <= i
  BY <1>1, <1>2
<1>. HIDE DEF m
<1>4. m = i
  BY <1>3
<1>. QED BY <1>4 DEF m

LEMMA RowsGrow ==
  ASSUME NEW rows \in Seq(EventRows), NEW r \in EventRows, NEW s
  PROVE  LET n == Len(rows)
             more == Append(rows, r)
         IN /\ n \in Nat /\ more \in Seq(EventRows) /\ Len(more) = n + 1
            /\ \A i \in 1..n : more[i] = rows[i]
            /\ more[n + 1] = r
            /\ RowsOf(rows, s) \in SUBSET (1..n) /\ Entries(rows) \in SUBSET (1..n)
            /\ RowsOf(more, s) = RowsOf(rows, s) \union (IF r.symbol = s THEN {n + 1} ELSE {})
            /\ Entries(more) = Entries(rows) \union (IF EntersBasket(r) THEN {n + 1} ELSE {})
<1>. DEFINE n == Len(rows)
            more == Append(rows, r)
<1>1. /\ n \in Nat /\ DOMAIN rows = 1..n
      /\ more \in Seq(EventRows) /\ Len(more) = n + 1 /\ DOMAIN more = 1..(n + 1)
  BY LenProperties, AppendProperties
<1>2. (\A i \in 1..n : more[i] = rows[i]) /\ more[n + 1] = r
  BY AppendProperties, <1>1
<1>. HIDE DEF more
<1>3. RowsOf(rows, s) \in SUBSET (1..n) /\ Entries(rows) \in SUBSET (1..n)
  BY <1>1 DEF RowsOf, Entries
<1>4. \A i : i \in 1..(n + 1) <=> i \in 1..n \/ i = n + 1
  BY <1>1
<1>. HIDE DEF n
<1>5. RowsOf(more, s) = RowsOf(rows, s) \union (IF r.symbol = s THEN {n + 1} ELSE {})
  BY <1>1, <1>2, <1>4 DEF RowsOf
<1>6. Entries(more) = Entries(rows) \union (IF EntersBasket(r) THEN {n + 1} ELSE {})
  BY <1>1, <1>2, <1>4 DEF Entries
<1>. QED BY <1>1, <1>2, <1>3, <1>5, <1>6 DEF n, more

LEMMA RowsIn ==
  ASSUME NEW rows \in Seq(EventRows), NEW s
  PROVE  /\ Len(rows) \in Nat /\ DOMAIN rows = 1..Len(rows)
         /\ RowsOf(rows, s) \in SUBSET (1..Len(rows)) /\ Entries(rows) \in SUBSET (1..Len(rows))
         /\ \A limit : RecentTrades(rows, s, limit) \in SUBSET (1..Len(rows))
         /\ \A i \in 1..Len(rows) : rows[i] \in EventRows
         /\ LastEntry(rows, s) \in 0..Len(rows)
<1>1. Len(rows) \in Nat /\ DOMAIN rows = 1..Len(rows) /\ \A i \in 1..Len(rows) : rows[i] \in EventRows
  BY LenProperties, ElementOfSeq
<1>2. RowsOf(rows, s) \in SUBSET (1..Len(rows)) /\ Entries(rows) \in SUBSET (1..Len(rows))
  BY <1>1 DEF RowsOf, Entries
<1>3. \A limit : RecentTrades(rows, s, limit) \in SUBSET (1..Len(rows))
  BY <1>2 DEF RecentTrades
<1>4. LastEntry(rows, s) \in 0..Len(rows)
  BY <1>1, <1>2, NewestOf DEF LastEntry
<1>. QED BY <1>1, <1>2, <1>3, <1>4

\* The band of a chart depends on the rows of its own symbol.
LEMMA BandRests ==
  ASSUME NEW rows \in Seq(EventRows), NEW r \in EventRows, NEW s, r.symbol # s, NEW beaten
  PROVE  Band(Append(rows, r), s, beaten) = Band(rows, s, beaten)
<1>. DEFINE n == Len(rows)
            more == Append(rows, r)
<1>1. /\ n \in Nat /\ RowsOf(more, s) = RowsOf(rows, s)
      /\ \A i \in 1..n : more[i] = rows[i] /\ (i \in Entries(more) <=> i \in Entries(rows))
  <2>1. Entries(more) = Entries(rows) \union (IF EntersBasket(r) THEN {n + 1} ELSE {}) /\ n \in Nat
    BY RowsGrow
  <2>2. /\ RowsOf(more, s) = RowsOf(rows, s) \union (IF r.symbol = s THEN {n + 1} ELSE {})
        /\ \A i \in 1..n : more[i] = rows[i]
    BY RowsGrow
  <2>3. \A i \in 1..n : i # n + 1
    BY <2>1
  <2>. HIDE DEF n, more
  <2>. QED BY <2>1, <2>2, <2>3
<1>2. more \in Seq(EventRows)
  BY RowsGrow
<1>. HIDE DEF more
<1>3. \A limit : /\ RecentTrades(more, s, limit) = RecentTrades(rows, s, limit)
                 /\ RecentTrades(rows, s, limit) \in SUBSET (1..n)
  BY <1>1, RowsIn DEF RecentTrades
<1>. DEFINE asked == RecentTrades(rows, s, OpenLookback)
            last == RecentTrades(rows, s, ClosedLookback)
<1>4. /\ asked \in SUBSET (1..n) /\ last \in SUBSET (1..n)
      /\ asked = RecentTrades(more, s, OpenLookback) /\ last = RecentTrades(more, s, ClosedLookback)
  BY <1>3
<1>. HIDE DEF asked, last, n
<1>5. /\ asked \intersect Entries(more) = asked \intersect Entries(rows)
      /\ last \intersect Entries(more) = last \intersect Entries(rows)
  BY <1>1, <1>4
<1>6. \A first : /\ OpenRow(more, s, first) = OpenRow(rows, s, first)
                 /\ OpenRow(rows, s, first) \in 0..n
  <2>. TAKE first
  <2>. DEFINE entries == asked \intersect Entries(rows)
              mine == {i \in entries : rows[i].ticket = first.ticket}
  <2>1. entries \in SUBSET (1..n) /\ mine \in SUBSET (1..n)
    BY <1>4
  <2>2. mine = {i \in entries : more[i].ticket = first.ticket}
    BY <1>1, <2>1
  <2>3. Newest(mine) \in 0..n /\ Newest(entries) \in 0..n
    BY <1>1, <2>1, NewestOf
  <2>4. OpenRow(rows, s, first) = IF Newest(mine) # 0 THEN Newest(mine) ELSE Newest(entries)
    BY DEF OpenRow, asked
  <2>5. OpenRow(more, s, first) = IF Newest(mine) # 0 THEN Newest(mine) ELSE Newest(entries)
    BY <1>4, <1>5, <2>2 DEF OpenRow
  <2>. QED BY <2>3, <2>4, <2>5
<1>7. \A first : LET row == OpenRow(rows, s, first)
                 IN (IF row = 0 THEN 0 ELSE rows[row].tp) = (IF row = 0 THEN 0 ELSE more[row].tp)
  BY <1>1, <1>6
<1>8. OpenBand(more, s, beaten) = OpenBand(rows, s, beaten)
  BY <1>6, <1>7 DEF OpenBand
<1>9. last # {} => ClosedBand(more, s) = ClosedBand(rows, s)
  <2>. HAVE last # {}
  <2>. DEFINE entries == last \intersect Entries(rows)
  <2>1. Newest(last) \in 1..n /\ Newest(entries) \in 0..n
    BY <1>1, <1>4, NewestOf
  <2>2. more[Newest(last)] = rows[Newest(last)]
    BY <1>1, <2>1
  <2>3. Newest(entries) # 0 => more[Newest(entries)] = rows[Newest(entries)]
    BY <1>1, <2>1
  <2>. QED BY <1>4, <1>5, <2>2, <2>3 DEF ClosedBand, last
<1>. QED BY <1>4, <1>8, <1>9 DEF Band, last, more

\* A band names a row there is, or none.
LEMMA BandOnRecord ==
  ASSUME NEW rows \in Seq(EventRows), NEW s, NEW beaten
  PROVE  /\ Band(rows, s, beaten).state \in {"none", "open", "closed"}
         /\ Band(rows, s, beaten).row \in 0..Len(rows)
<1>. DEFINE n == Len(rows)
<1>1. n \in Nat /\ Entries(rows) \in SUBSET (1..n)
      /\ \A limit : RecentTrades(rows, s, limit) \in SUBSET (1..n)
  BY RowsIn
<1>. HIDE DEF n
<1>2. \A first : OpenRow(rows, s, first) \in 0..n
  <2>. TAKE first
  <2>. DEFINE entries == RecentTrades(rows, s, OpenLookback) \intersect Entries(rows)
              mine == {i \in entries : rows[i].ticket = first.ticket}
  <2>1. entries \in SUBSET (1..n) /\ mine \in SUBSET (1..n)
    BY <1>1
  <2>2. Newest(mine) \in 0..n /\ Newest(entries) \in 0..n
    BY <1>1, <2>1, NewestOf
  <2>. QED BY <2>2 DEF OpenRow
<1>3. OpenBand(rows, s, beaten).state = "open" /\ OpenBand(rows, s, beaten).row \in 0..n
  BY <1>2 DEF OpenBand
<1>4. ClosedBand(rows, s).state = "closed" /\ ClosedBand(rows, s).row \in 0..n
  <2>. DEFINE latest == RecentTrades(rows, s, ClosedLookback)
  <2>1. Newest(latest) \in 0..n /\ Newest(latest \intersect Entries(rows)) \in 0..n
    BY <1>1, NewestOf
  <2>. QED BY <2>1 DEF ClosedBand
<1>5. NoBand.state = "none" /\ NoBand.row = 0
  BY DEF NoBand
<1>. QED BY <1>1, <1>3, <1>4, <1>5 DEF Band, n

-----------------------------------------------------------------------------
(* The band of a basket                                                    *)

BandLegs == [ticket : Int, dir : {"BUY", "SELL"}, px : Int, sl : Int]
BandBeats == [known : BOOLEAN, legs : Seq(BandLegs)]
BandKinds ==
    /\ legsHeld \in [BandCharts -> Seq(BandLegs)] /\ bandPosts \in [BandCharts -> Seq(EventRows)]
    /\ \A s \in BandCharts : /\ Len(legsHeld[s]) <= LegCap[s]
                             /\ \A k \in 1..Len(bandPosts[s]) : bandPosts[s][k].symbol = s
    /\ bandRows \in Seq(EventRows) /\ lastBeat \in BandCharts \union {"none"}
    /\ heartbeats \in [BandCharts -> BandBeats] /\ answering \in [BandCharts -> BandBeats]
    /\ unread \in 0..QueueCap /\ listening \in BOOLEAN /\ lostRows \subseteq BandCharts
    /\ bdLeft \in [{"legs", "beats", "stops", "trouble"} -> Nat]

\* What a stream was told last is a band of rows there are.
ToldOnRecord ==
    /\ told = [s \in BandCharts |-> told[s]]
    /\ \A s \in BandCharts : /\ told[s].state \in {"none", "open", "closed"}
                             /\ told[s].row \in 0..Len(bandRows)

\* A heartbeat between its arrival and its answer is the newest of its chart.
BeatsKnown ==
    \A s \in BandCharts : answering[s] # NoHeartbeat
                             => heartbeats[s] = answering[s] /\ heartbeats[s].known

\* What the stream was told last is what is answered now, read or not.
ToldAgrees ==
    \A s \in BandCharts :
        listening /\ heartbeats[s].known /\ answering[s] = NoHeartbeat
           => told[s] \in (IF s = "XAUUSD" THEN {} ELSE {NoBand}) \union {AskedBand(s)}

\* The events of a chart tell of one basket after another: the direction of a
\* close is that of the entry, on record or on its way, before it; the last event
\* is of the legs there are, or a close.
ToldInOrder(s) ==
    LET p == bandPosts[s]
        e == LastEntry(bandRows, s)
        held == legsHeld[s]
    IN /\ p # <<>> /\ p[1].event = "close" /\ e # 0 => bandRows[e].dir = p[1].dir
       /\ \A k \in 2..Len(p) : p[k].event = "close" => p[k].dir = p[k - 1].dir
       /\ \A k \in 1..Len(held) : held[k].dir = held[1].dir
       /\ held # <<>> /\ p # <<>> => p[Len(p)].dir = held[1].dir
       /\ held # <<>> /\ p = <<>> /\ e # 0 => bandRows[e].dir = held[1].dir
       /\ held = <<>> /\ p # <<>> => p[Len(p)].event = "close"
       /\ held = <<>> /\ p = <<>> => BasketClosed(bandRows, s)
NothingMissed == \A s \in BandCharts \ lostRows : ToldInOrder(s)

\* A ticket is one leg's, wherever it is told of: what its chart, its direction and
\* its price are, by ticket.
Deeds == [chart : BandCharts, dir : {"BUY", "SELL"}, px : Prices]
LegFits(deed, s, leg) == /\ leg.ticket \in DOMAIN deed
                         /\ deed[leg.ticket] = [chart |-> s, dir |-> leg.dir, px |-> leg.px]
RowFits(deed, r) ==
    EntersBasket(r) /\ r.ticket \in 1..MaxFills
       => /\ r.ticket \in DOMAIN deed
          /\ deed[r.ticket] = [chart |-> r.symbol, dir |-> r.dir, px |-> r.px]
          /\ r.tp \in {0, r.px + Up(r.dir) * TargetGap}
LegsFit(deed) == \A s \in BandCharts : \A k \in 1..Len(legsHeld[s]) :
                    LegFits(deed, s, legsHeld[s][k])
BeatsFit(deed) == \A s \in BandCharts : \A k \in 1..Len(heartbeats[s].legs) :
                     LegFits(deed, s, heartbeats[s].legs[k])
PostsFit(deed) == \A s \in BandCharts : \A k \in 1..Len(bandPosts[s]) :
                     RowFits(deed, bandPosts[s][k])
RowsFit(deed) == \A i \in 1..Len(bandRows) : RowFits(deed, bandRows[i])
OneDeedEach ==
    /\ bdLeft.legs <= MaxFills
    /\ \E deed \in [1..(MaxFills - bdLeft.legs) -> Deeds] :
          LegsFit(deed) /\ BeatsFit(deed) /\ PostsFit(deed) /\ RowsFit(deed)

BandsInv == /\ BandKinds /\ ToldOnRecord /\ BeatsKnown /\ ToldAgrees /\ NothingMissed
            /\ OneDeedEach

LEMMA BandNumbers ==
  /\ QueueCap \in Nat \ {0} /\ ClosedLookback \in Nat \ {0} /\ OldRows \in Seq(EventRows)
  /\ \A s \in BandCharts : /\ LegCap[s] \in Nat /\ s \in {"XAUUSD", "BTCUSD"}
                           /\ BasketClosed(OldRows, s)
  /\ StopGap \in Nat /\ TargetGap \in Nat
  /\ MaxFills \in Nat /\ MaxBandBeats \in Nat /\ MaxStopMoves \in Nat /\ MaxBandTrouble \in Nat
  /\ Prices \subseteq Nat \ {0} /\ Stops \subseteq Nat
  /\ TargetGap \in Nat \ {0} /\ PctDelta \in Nat \ {0} /\ OpenLookback \in Nat \ {0}
  /\ \A i \in 1..Len(OldRows) : OldRows[i].ticket \notin 1..MaxFills
<1>1. OldRows \in Seq(EventRows) /\ \A i \in DOMAIN OldRows : OldRows[i].ticket \notin 1..MaxFills
  BY OldRowsAssumption
<1>2. DOMAIN OldRows = 1..Len(OldRows)
  BY <1>1, LenProperties
<1>. QED BY <1>1, <1>2, BandsAssumption, OldRowsAssumption

-----------------------------------------------------------------------------
(* Initially *)

LEMMA BandsStart == BandsInit => BandsInv
<1>. SUFFICES ASSUME BandsInit PROVE BandsInv
  OBVIOUS
<1>1. /\ <<>> \in Seq(BandLegs) /\ <<>> \in Seq(EventRows) /\ NoHeartbeat \in BandBeats
      /\ ~NoHeartbeat.known
  BY DEF NoHeartbeat, BandBeats
<1>2. BandKinds
  <2>1. /\ legsHeld \in [BandCharts -> Seq(BandLegs)] /\ bandPosts \in [BandCharts -> Seq(EventRows)]
        /\ \A s \in BandCharts : legsHeld[s] = <<>> /\ bandPosts[s] = <<>>
    BY <1>1 DEF BandsInit
  <2>2. \A s \in BandCharts : /\ Len(legsHeld[s]) <= LegCap[s]
                              /\ \A k \in 1..Len(bandPosts[s]) : bandPosts[s][k].symbol = s
    BY <2>1, BandNumbers
  <2>3. bdLeft \in [{"legs", "beats", "stops", "trouble"} -> Nat]
    BY BandNumbers DEF BandsInit
  <2>. QED BY <1>1, <2>1, <2>2, <2>3, BandNumbers DEF BandsInit, BandKinds
<1>3. ToldOnRecord
  <2>1. NoBand.state = "none" /\ NoBand.row = 0 /\ Len(bandRows) \in Nat
    BY BandNumbers, LenProperties DEF NoBand, BandsInit
  <2>. QED BY <2>1 DEF BandsInit, ToldOnRecord
<1>4. BeatsKnown
  BY DEF BandsInit, BeatsKnown
<1>5. ToldAgrees
  BY <1>1 DEF BandsInit, ToldAgrees
<1>6. NothingMissed
  <2>. SUFFICES ASSUME NEW s \in BandCharts PROVE ToldInOrder(s)
    BY DEF NothingMissed
  <2>1. legsHeld[s] = <<>> /\ bandPosts[s] = <<>> /\ BasketClosed(bandRows, s)
    BY BandNumbers DEF BandsInit
  <2>. QED BY <2>1 DEF ToldInOrder
<1>7. OneDeedEach
  <2>1. bdLeft.legs = MaxFills /\ MaxFills \in Nat
    BY BandNumbers DEF BandsInit
  <2>2. PICK deed : deed = [t \in 1..0 |-> [chart |-> "none", dir |-> "BUY", px |-> 0]]
    OBVIOUS
  <2>3. deed \in [1..(MaxFills - bdLeft.legs) -> Deeds]
    <3>1. \A t \in 1..0 : FALSE
      OBVIOUS
    <3>2. 1..(MaxFills - bdLeft.legs) = 1..0
      BY <2>1
    <3>. QED BY <2>2, <3>1, <3>2
  <2>4. LegsFit(deed) /\ PostsFit(deed)
    <3>1. \A s \in BandCharts : Len(legsHeld[s]) = 0 /\ Len(bandPosts[s]) = 0
      BY EmptySeq DEF BandsInit
    <3>. QED BY <3>1 DEF LegsFit, PostsFit
  <2>5. BeatsFit(deed)
    <3>1. \A s \in BandCharts : Len(heartbeats[s].legs) = 0
      BY EmptySeq DEF BandsInit, NoHeartbeat
    <3>. QED BY <3>1 DEF BeatsFit
  <2>6. RowsFit(deed)
    BY BandNumbers DEF BandsInit, RowsFit, RowFits
  <2>7. bdLeft.legs <= MaxFills
    BY <2>1
  <2>. QED BY <2>3, <2>4, <2>5, <2>6, <2>7 DEF OneDeedEach
<1>. QED BY <1>2, <1>3, <1>4, <1>5, <1>6, <1>7 DEF BandsInv

-----------------------------------------------------------------------------
(* What an action does *)

\* A trade event takes its chart's place in the rows.
LEMMA PostGoes ==
  ASSUME BandKinds, NEW s \in BandCharts, bandPosts[s] # <<>>
  PROVE  LET p == bandPosts[s]
         IN /\ p \in Seq(EventRows) /\ Len(p) \in Nat \ {0}
            /\ p[1] \in EventRows /\ p[1].symbol = s
            /\ Tail(p) \in Seq(EventRows) /\ Len(Tail(p)) = Len(p) - 1
            /\ \A k \in 1..(Len(p) - 1) : Tail(p)[k] = p[k + 1]
<1>. DEFINE p == bandPosts[s]
<1>1. p \in Seq(EventRows) /\ \A k \in 1..Len(p) : p[k].symbol = s
  BY DEF BandKinds
<1>. HIDE DEF p
<1>2. p # <<>>
  BY DEF p
<1>3. Len(p) \in Nat \ {0} /\ \A k \in 1..Len(p) : p[k] \in EventRows
  BY <1>1, <1>2, EmptySeq, LenProperties, ElementOfSeq
<1>4. /\ Tail(p) \in Seq(EventRows) /\ Len(Tail(p)) = Len(p) - 1
      /\ \A k \in 1..(Len(p) - 1) : Tail(p)[k] = p[k + 1]
  BY <1>1, <1>2, HeadTailProperties
<1>5. 1 \in 1..Len(p)
  BY <1>3
<1>. QED BY <1>1, <1>3, <1>4, <1>5 DEF p

LEMMA LegGoes ==
  ASSUME BandKinds, NEW s \in BandCharts, legsHeld[s] # <<>>
  PROVE  LET held == legsHeld[s]
         IN /\ held \in Seq(BandLegs) /\ Len(held) \in Nat \ {0} /\ held[1] \in BandLegs
            /\ Tail(held) \in Seq(BandLegs) /\ Len(Tail(held)) = Len(held) - 1
            /\ \A k \in 1..(Len(held) - 1) : Tail(held)[k] = held[k + 1]
<1>. DEFINE held == legsHeld[s]
<1>1. held \in Seq(BandLegs) /\ held # <<>>
  BY DEF BandKinds
<1>. HIDE DEF held
<1>2. Len(held) \in Nat \ {0} /\ held[1] \in BandLegs
  BY <1>1, EmptySeq, LenProperties, ElementOfSeq
<1>3. /\ Tail(held) \in Seq(BandLegs) /\ Len(Tail(held)) = Len(held) - 1
      /\ \A k \in 1..(Len(held) - 1) : Tail(held)[k] = held[k + 1]
  BY <1>1, HeadTailProperties
<1>. QED BY <1>1, <1>2, <1>3 DEF held

LEMMA StopsMoved ==
  ASSUME BandKinds, NEW s \in BandCharts, NEW sl \in Stops, StopsMove(s, sl)
  PROVE  /\ legsHeld'[s] \in Seq(BandLegs) /\ Len(legsHeld'[s]) = Len(legsHeld[s])
         /\ \A k \in 1..Len(legsHeld[s]) : /\ legsHeld'[s][k].dir = legsHeld[s][k].dir
                                            /\ legsHeld'[s][k].px = legsHeld[s][k].px
                                            /\ legsHeld'[s][k].ticket = legsHeld[s][k].ticket
<1>. DEFINE held == legsHeld[s]
            moved == [k \in DOMAIN held |-> [held[k] EXCEPT !.sl = sl]]
<1>1. legsHeld'[s] = moved
  BY DEF StopsMove, BandKinds
<1>2. /\ held \in Seq(BandLegs) /\ Len(held) \in Nat /\ DOMAIN held = 1..Len(held)
      /\ \A k \in 1..Len(held) : held[k] \in BandLegs
  BY LenProperties, ElementOfSeq DEF BandKinds
<1>3. sl \in Int
  BY BandNumbers
<1>. HIDE DEF held
<1>4. \A k \in 1..Len(held) : /\ moved[k] \in BandLegs /\ moved[k].dir = held[k].dir
                               /\ moved[k].px = held[k].px /\ moved[k].ticket = held[k].ticket
  BY <1>2, <1>3 DEF BandLegs
<1>5. moved \in [1..Len(held) -> BandLegs]
  BY <1>2, <1>4
<1>6. moved \in Seq(BandLegs) /\ Len(moved) = Len(held)
  BY <1>2, <1>5, IsASeq, LenProperties
<1>. QED BY <1>1, <1>4, <1>6 DEF held

LEMMA KindsHold ==
  ASSUME BandKinds, [BandsNext]_bandVars
  PROVE  BandKinds'
<1>1. CASE UNCHANGED bandVars
  BY <1>1 DEF bandVars, BandKinds
<1>0. QueueCap \in Nat /\ unread \in 0..QueueCap /\ listening \in BOOLEAN
  BY BandNumbers DEF BandKinds
<1>u. ASSUME NEW what \in {"legs", "beats", "stops", "trouble"}, Uses(what)
      PROVE  bdLeft' \in [{"legs", "beats", "stops", "trouble"} -> Nat]
  BY <1>u DEF Uses, BandKinds
<1>2. ASSUME NEW s \in BandCharts, NEW band, Broadcast(s, band)
      PROVE  unread' \in 0..QueueCap /\ listening' \in BOOLEAN
  <2>1. CASE ~listening
    BY <1>0, <1>2, <2>1 DEF Broadcast
  <2>2. CASE listening
    <3>1. /\ unread' = IF QueueCap - unread > 1 THEN unread + 2 ELSE QueueCap
          /\ listening' = (QueueCap - unread > 1)
      BY <1>2, <2>2 DEF Broadcast
    <3>. QED BY <1>0, <3>1
  <2>. QED BY <1>0, <2>1, <2>2
<1>3. CASE ViewerConnects \/ ViewerReads
  <2>1. /\ unread' = 0 /\ listening' \in BOOLEAN
        /\ bdLeft' \in [{"legs", "beats", "stops", "trouble"} -> Nat]
    BY <1>0, <1>3, <1>u DEF ViewerConnects, ViewerReads, BandKinds
  <2>2. UNCHANGED <<legsHeld, bandPosts, bandRows, heartbeats, lastBeat, answering, lostRows>>
    BY <1>3 DEF ViewerConnects, ViewerReads
  <2>3. 0 \in 0..QueueCap
    BY <1>0
  <2>. QED BY <2>1, <2>2, <2>3 DEF BandKinds
<1>4. NoHeartbeat \in BandBeats
  BY EmptySeq DEF NoHeartbeat, BandBeats
<1>5. CASE BandsRestart
  <2>1. /\ unread' = 0 /\ listening' \in BOOLEAN /\ lastBeat' = "none"
        /\ heartbeats' = [s \in BandCharts |-> NoHeartbeat] /\ answering' = [s \in BandCharts |-> NoHeartbeat]
        /\ bdLeft' \in [{"legs", "beats", "stops", "trouble"} -> Nat]
    BY <1>5, <1>u DEF BandsRestart
  <2>2. UNCHANGED <<legsHeld, bandPosts, bandRows, lostRows>>
    BY <1>5 DEF BandsRestart
  <2>3. 0 \in 0..QueueCap
    BY <1>0
  <2>. QED BY <1>4, <2>1, <2>2, <2>3 DEF BandKinds
<1>6. ASSUME NEW s \in BandCharts, EventArrives(s) \/ EventLost(s)
      PROVE  BandKinds'
  <2>1. bandPosts[s] # <<>> /\ bandPosts' = [bandPosts EXCEPT ![s] = Tail(@)]
    BY <1>6 DEF EventArrives, EventLost
  <2>2. bandRows' \in Seq(EventRows)
    <3>1. bandPosts[s][1] \in EventRows /\ bandRows \in Seq(EventRows)
      BY <2>1, PostGoes DEF BandKinds
    <3>2. Append(bandRows, bandPosts[s][1]) \in Seq(EventRows)
      BY <3>1, AppendProperties
    <3>. QED BY <1>6, <3>1, <3>2 DEF EventArrives, EventLost
  <2>3. /\ bandPosts' \in [BandCharts -> Seq(EventRows)]
        /\ \A c \in BandCharts : \A k \in 1..Len(bandPosts'[c]) : bandPosts'[c][k].symbol = c
    <3>1. bandPosts' \in [BandCharts -> Seq(EventRows)] /\ bandPosts'[s] = Tail(bandPosts[s])
          /\ \A c \in BandCharts \ {s} : bandPosts'[c] = bandPosts[c]
      BY <2>1, PostGoes DEF BandKinds
    <3>2. ASSUME NEW k \in 1..Len(bandPosts'[s]) PROVE bandPosts'[s][k].symbol = s
      <4>1. /\ Len(bandPosts[s]) \in Nat \ {0} /\ Len(bandPosts'[s]) = Len(bandPosts[s]) - 1
            /\ \A i \in 1..(Len(bandPosts[s]) - 1) : bandPosts'[s][i] = bandPosts[s][i + 1]
        BY <2>1, <3>1, PostGoes
      <4>2. k + 1 \in 1..Len(bandPosts[s]) /\ bandPosts'[s][k] = bandPosts[s][k + 1]
        BY <4>1
      <4>. QED BY <4>2 DEF BandKinds
    <3>. QED BY <3>1, <3>2 DEF BandKinds
  <2>4. /\ unread' \in 0..QueueCap /\ listening' \in BOOLEAN /\ lostRows' \subseteq BandCharts
        /\ bdLeft' \in [{"legs", "beats", "stops", "trouble"} -> Nat]
    BY <1>0, <1>2, <1>6, <1>u DEF EventArrives, EventLost, BandKinds
  <2>. QED BY <1>6, <2>2, <2>3, <2>4 DEF EventArrives, EventLost, BandKinds
<1>7. ASSUME NEW s \in BandCharts, BeatStores(s)
      PROVE  BandKinds'
  <2>1. [known |-> TRUE, legs |-> legsHeld[s]] \in BandBeats
    BY DEF BandKinds, BandBeats
  <2>2. heartbeats' \in [BandCharts -> BandBeats] /\ answering' \in [BandCharts -> BandBeats]
    BY <1>7, <2>1 DEF BeatStores, BandKinds
  <2>. QED BY <1>7, <1>u, <2>2 DEF BeatStores, BandKinds
<1>8. ASSUME NEW s \in BandCharts, BeatBroadcasts(s)
      PROVE  BandKinds'
  <2>1. answering' \in [BandCharts -> BandBeats]
    BY <1>4, <1>8 DEF BeatBroadcasts, BandKinds
  <2>2. unread' \in 0..QueueCap /\ listening' \in BOOLEAN
    BY <1>2, <1>8 DEF BeatBroadcasts
  <2>. QED BY <1>8, <2>1, <2>2 DEF BeatBroadcasts, BandKinds
<1>9. ASSUME NEW s \in BandCharts, NEW event \in EventRows, event.symbol = s, Posts(s, event)
      PROVE  /\ bandPosts' \in [BandCharts -> Seq(EventRows)]
             /\ \A c \in BandCharts : \A k \in 1..Len(bandPosts'[c]) : bandPosts'[c][k].symbol = c
  <2>1. /\ bandPosts[s] \in Seq(EventRows) /\ Len(bandPosts[s]) \in Nat
        /\ \A k \in 1..Len(bandPosts[s]) : bandPosts[s][k].symbol = s
    BY LenProperties DEF BandKinds
  <2>2. /\ bandPosts' \in [BandCharts -> Seq(EventRows)]
        /\ bandPosts'[s] = Append(bandPosts[s], event)
        /\ \A c \in BandCharts \ {s} : bandPosts'[c] = bandPosts[c]
    BY <1>9, <2>1, AppendProperties DEF Posts, BandKinds
  <2>3. \A k \in 1..Len(bandPosts'[s]) : bandPosts'[s][k].symbol = s
    BY <1>9, <2>1, <2>2, AppendProperties
  <2>. QED BY <2>2, <2>3 DEF BandKinds
<1>10. ASSUME NEW s \in BandCharts, NEW dir \in {"BUY", "SELL"}, NEW px \in Prices,
              NEW adr \in AdrModes, LegFills(s, dir, px, adr)
       PROVE  BandKinds'
  <2>. DEFINE ticket == MaxFills - bdLeft.legs + 1
              sl == px - Up(dir) * StopGap
              leg == [ticket |-> ticket, dir |-> dir, px |-> px, sl |-> sl]
              event == [symbol |-> s, event |-> IF legsHeld[s] = <<>> THEN "open" ELSE "add",
                        ticket |-> ticket, dir |-> dir, px |-> px, sl |-> sl,
                        tp |-> IF adr \/ legsHeld[s] # <<>> THEN px + Up(dir) * TargetGap ELSE 0]
  <2>1. /\ legsHeld' = [legsHeld EXCEPT ![s] = Append(@, leg)] /\ Posts(s, event)
        /\ Len(legsHeld[s]) < LegCap[s] /\ Uses("legs") /\ ServiceKeeps
    BY <1>10 DEF LegFills
  <2>2. leg \in BandLegs /\ event \in EventRows /\ event.symbol = s
    <3>1. ticket \in Int /\ px \in Int /\ sl \in Int
      <4>1. bdLeft.legs \in Nat /\ MaxFills \in Nat /\ px \in Nat /\ StopGap \in Nat
        BY BandNumbers DEF BandKinds
      <4>. QED BY <4>1 DEF Up
    <3>2. px + Up(dir) * TargetGap \in Int
      BY BandNumbers DEF Up
    <3>. HIDE DEF ticket, sl
    <3>. QED BY <3>1, <3>2, BandNumbers DEF BandLegs, EventRows
  <2>. HIDE DEF leg, event
  <2>3. /\ legsHeld' \in [BandCharts -> Seq(BandLegs)]
        /\ \A c \in BandCharts : Len(legsHeld'[c]) <= LegCap[c]
    <3>1. /\ legsHeld[s] \in Seq(BandLegs) /\ Append(legsHeld[s], leg) \in Seq(BandLegs)
          /\ Len(Append(legsHeld[s], leg)) = Len(legsHeld[s]) + 1 /\ Len(legsHeld[s]) \in Nat
          /\ LegCap[s] \in Nat
      BY <2>2, BandNumbers, AppendProperties, LenProperties DEF BandKinds
    <3>. QED BY <2>1, <3>1 DEF BandKinds
  <2>. QED BY <1>9, <1>u, <2>1, <2>2, <2>3 DEF ServiceKeeps, BandKinds
<1>11. ASSUME NEW s \in BandCharts, legsHeld[s] # <<>>, NEW left \in {<<>>, Tail(legsHeld[s])},
              LegsClose(s, left)
       PROVE  BandKinds'
  <2>. DEFINE event == [symbol |-> s, event |-> "close", ticket |-> 0,
                        dir |-> legsHeld[s][1].dir, px |-> legsHeld[s][1].px, sl |-> 0, tp |-> 0]
  <2>1. /\ legsHeld' = [legsHeld EXCEPT ![s] = left] /\ Posts(s, event)
        /\ ServiceKeeps /\ UNCHANGED bdLeft
    BY <1>11 DEF LegsClose
  <2>2. /\ legsHeld[s] \in Seq(BandLegs) /\ Len(legsHeld[s]) \in Nat \ {0}
        /\ legsHeld[s][1] \in BandLegs /\ Tail(legsHeld[s]) \in Seq(BandLegs)
        /\ Len(Tail(legsHeld[s])) = Len(legsHeld[s]) - 1
    BY <1>11, LegGoes
  <2>3. event \in EventRows /\ event.symbol = s
    <3>1. s \in {"XAUUSD", "BTCUSD"}
      BY BandNumbers
    <3>2. legsHeld[s][1].dir \in {"BUY", "SELL"} /\ legsHeld[s][1].px \in Int
      BY <2>2 DEF BandLegs
    <3>. QED BY <3>1, <3>2 DEF EventRows
  <2>. HIDE DEF event
  <2>4. left \in Seq(BandLegs) /\ Len(left) <= LegCap[s]
    <3>1. LegCap[s] \in Nat /\ Len(legsHeld[s]) <= LegCap[s]
      BY BandNumbers DEF BandKinds
    <3>2. CASE left = <<>>
      BY <3>1, <3>2, EmptySeq
    <3>3. CASE left = Tail(legsHeld[s])
      BY <2>2, <3>1, <3>3
    <3>. QED BY <3>2, <3>3
  <2>5. /\ legsHeld' \in [BandCharts -> Seq(BandLegs)]
        /\ \A c \in BandCharts : Len(legsHeld'[c]) <= LegCap[c]
    BY <2>1, <2>4 DEF BandKinds
  <2>. QED BY <1>9, <2>1, <2>3, <2>5 DEF ServiceKeeps, BandKinds
<1>12. ASSUME NEW s \in BandCharts, NEW sl \in Stops, StopsMove(s, sl)
       PROVE  BandKinds'
  <2>1. LET moved == legsHeld'[s]
        IN /\ moved \in Seq(BandLegs) /\ Len(moved) = Len(legsHeld[s])
    BY <1>12, StopsMoved
  <2>2. \A c \in BandCharts \ {s} : legsHeld'[c] = legsHeld[c]
    BY <1>12 DEF StopsMove, BandKinds
  <2>3. legsHeld' = [legsHeld EXCEPT ![s] = legsHeld'[s]]
    BY <1>12 DEF StopsMove, BandKinds
  <2>4. /\ legsHeld' \in [BandCharts -> Seq(BandLegs)]
        /\ \A c \in BandCharts : Len(legsHeld'[c]) <= LegCap[c]
    BY <2>1, <2>2, <2>3 DEF BandKinds
  <2>. QED BY <1>12, <1>u, <2>4 DEF StopsMove, ServiceKeeps, BandKinds
<1>. QED
  BY <1>1, <1>3, <1>5, <1>6, <1>7, <1>8, <1>10, <1>11, <1>12 DEF BandsNext

\* The service, and so every band, changes in six actions only.
LEMMA BandSteps ==
  ASSUME [BandsNext]_bandVars
  PROVE  \/ UNCHANGED <<bandRows, heartbeats, lastBeat, answering, listening, told>>
         \/ ViewerConnects \/ BandsRestart
         \/ \E s \in BandCharts : EventArrives(s) \/ BeatStores(s) \/ BeatBroadcasts(s)
<1>. DEFINE Quiet == UNCHANGED <<bandRows, heartbeats, lastBeat, answering, listening, told>>
<1>1. UNCHANGED bandVars => Quiet
  BY DEF bandVars
<1>2. ViewerReads => Quiet
  BY DEF ViewerReads
<1>3. ASSUME NEW s \in BandCharts, EventLost(s) PROVE Quiet
  BY <1>3 DEF EventLost
<1>4. ServiceKeeps => Quiet
  BY DEF ServiceKeeps
<1>5. ASSUME NEW s \in BandCharts, NEW dir \in {"BUY", "SELL"}, NEW px \in Prices,
             NEW adr \in AdrModes, LegFills(s, dir, px, adr)
      PROVE  ServiceKeeps
  BY <1>5 DEF LegFills
<1>6. ASSUME NEW s \in BandCharts, NEW left \in {<<>>, Tail(legsHeld[s])}, LegsClose(s, left)
      PROVE  ServiceKeeps
  BY <1>6 DEF LegsClose
<1>7. ASSUME NEW s \in BandCharts, NEW sl \in Stops, StopsMove(s, sl) PROVE ServiceKeeps
  BY <1>7 DEF StopsMove
<1>. HIDE DEF Quiet
<1>8. Quiet \/ ViewerConnects \/ BandsRestart
      \/ \E s \in BandCharts : EventArrives(s) \/ BeatStores(s) \/ BeatBroadcasts(s)
  BY <1>1, <1>2, <1>3, <1>4, <1>5, <1>6, <1>7 DEF BandsNext
<1>. QED BY <1>8 DEF Quiet

LEMMA AskedOnRecord ==
  ASSUME NEW rows \in Seq(EventRows), NEW known, NEW newest, NEW s
  PROVE  /\ BandOf(rows, known, newest, s).state \in {"none", "open", "closed"}
         /\ BandOf(rows, known, newest, s).row \in 0..Len(rows)
BY BandOnRecord DEF BandOf

LEMMA RecordHolds ==
  ASSUME BandKinds, ToldOnRecord, [BandsNext]_bandVars
  PROVE  ToldOnRecord'
<1>. DEFINE Fits(band) == /\ band.state \in {"none", "open", "closed"}
                         /\ band.row \in 0..Len(bandRows)'
<1>1. \A s \in BandCharts : Fits(told[s])
  <2>1. Len(bandRows) \in Nat /\ Len(bandRows)' \in Nat /\ Len(bandRows) <= Len(bandRows)'
    <3>1. Len(bandRows) \in Nat
      BY LenProperties DEF BandKinds
    <3>2. ASSUME NEW s \in BandCharts, EventArrives(s) PROVE Len(bandRows)' = Len(bandRows) + 1
      <4>1. bandRows' = Append(bandRows, bandPosts[s][1]) /\ bandPosts[s] # <<>>
        BY <3>2 DEF EventArrives
      <4>. QED BY <4>1, PostGoes, AppendProperties DEF BandKinds
    <3>3. UNCHANGED bandRows \/ \E s \in BandCharts : EventArrives(s)
      BY BandSteps DEF ViewerConnects, BandsRestart, BeatStores, BeatBroadcasts
    <3>. QED BY <3>1, <3>2, <3>3
  <2>. HIDE DEF BandKinds
  <2>. QED BY <2>1 DEF ToldOnRecord
<1>2. bandRows' \in Seq(EventRows)
  BY KindsHold DEF BandKinds
<1>3. ASSUME told' = told PROVE ToldOnRecord'
  BY <1>1, <1>3 DEF ToldOnRecord
<1>4. ASSUME NEW s \in BandCharts, NEW band, Fits(band), Broadcast(s, band) PROVE ToldOnRecord'
  <2>1. CASE UNCHANGED told
    BY <1>3, <2>1
  <2>2. CASE told' = [told EXCEPT ![s] = band]
    <3>1. told' = [c \in BandCharts |-> IF c = s THEN band ELSE told[c]]
      BY <2>2 DEF ToldOnRecord
    <3>. HIDE DEF Fits
    <3>2. \A c \in BandCharts : Fits(told'[c])
      BY <1>1, <1>4, <3>1
    <3>. QED BY <3>1, <3>2 DEF ToldOnRecord, Fits
  <2>. QED BY <1>4, <2>1, <2>2 DEF Broadcast
<1>5. CASE ViewerConnects
  <2>1. /\ told' = [s \in BandCharts |-> IF s = "XAUUSD" THEN AskedBand(s) ELSE NoBand]
        /\ bandRows' = bandRows
    BY <1>5 DEF ViewerConnects
  <2>2. \A s : Fits(AskedBand(s))
    BY <2>1, AskedOnRecord DEF AskedBand, BandKinds
  <2>3. Fits(NoBand)
    BY <1>2, LenProperties DEF NoBand
  <2>. HIDE DEF Fits
  <2>4. \A s \in BandCharts : Fits(told'[s])
    BY <2>1, <2>2, <2>3
  <2>. QED BY <2>1, <2>4 DEF ToldOnRecord, Fits
<1>6. ASSUME NEW s \in BandCharts, EventArrives(s) PROVE ToldOnRecord'
  <2>1. Broadcast(s, BandOf(bandRows', heartbeats, lastBeat, s))
    BY <1>6 DEF EventArrives
  <2>. QED BY <1>2, <1>4, <2>1, AskedOnRecord
<1>7. ASSUME NEW s \in BandCharts, BeatBroadcasts(s) PROVE ToldOnRecord'
  <2>1. Broadcast(s, Band(bandRows, s, answering[s].legs)) /\ bandRows' = bandRows
    BY <1>7 DEF BeatBroadcasts
  <2>. QED BY <1>2, <1>4, <2>1, BandOnRecord
<1>8. \/ UNCHANGED told \/ ViewerConnects
      \/ \E s \in BandCharts : EventArrives(s) \/ BeatBroadcasts(s)
  BY BandSteps DEF BandsRestart, BeatStores
<1>. QED BY <1>3, <1>5, <1>6, <1>7, <1>8

LEMMA BeatsHold ==
  ASSUME BandKinds, BeatsKnown, [BandsNext]_bandVars
  PROVE  BeatsKnown'
<1>1. CASE UNCHANGED <<heartbeats, answering>>
  BY <1>1 DEF BeatsKnown
<1>2. CASE BandsRestart
  BY <1>2 DEF BandsRestart, BeatsKnown
<1>3. ASSUME NEW s \in BandCharts, BeatStores(s) PROVE BeatsKnown'
  BY <1>3 DEF BeatStores, BeatsKnown, BandKinds
<1>4. ASSUME NEW s \in BandCharts, BeatBroadcasts(s) PROVE BeatsKnown'
  BY <1>4 DEF BeatBroadcasts, BeatsKnown, BandKinds
<1>5. \/ UNCHANGED <<heartbeats, answering>> \/ BandsRestart
      \/ \E s \in BandCharts : BeatStores(s) \/ BeatBroadcasts(s)
  BY BandSteps DEF ViewerConnects, EventArrives
<1>. QED BY <1>1, <1>2, <1>3, <1>4, <1>5

\* An event that arrives leaves the answers about the other charts as they were,
\* and is told with what is answered now; a heartbeat is told when it is answered.
LEMMA AgreementHolds ==
  ASSUME BandKinds, ToldOnRecord, BeatsKnown, ToldAgrees, [BandsNext]_bandVars
  PROVE  ToldAgrees'
<1>. DEFINE Agrees(c) == told[c] \in (IF c = "XAUUSD" THEN {} ELSE {NoBand}) \union {AskedBand(c)}
            Settled(c) == listening /\ heartbeats[c].known /\ answering[c] = NoHeartbeat
<1>1. \A c \in BandCharts : Settled(c) => Agrees(c)
  BY DEF ToldAgrees
<1>2. SUFFICES ASSUME NEW c \in BandCharts, Settled(c)' PROVE Agrees(c)'
  BY DEF ToldAgrees
<1>3. \A k : heartbeats[k].known => AskedBand(k) = Band(bandRows, k, heartbeats[k].legs)
  BY DEF AskedBand, BandOf
<1>4. ASSUME UNCHANGED <<bandRows, told>>, heartbeats'[c] = heartbeats[c], Settled(c)
      PROVE  Agrees(c)'
  <2>1. AskedBand(c)' = AskedBand(c)
    BY <1>4 DEF AskedBand, BandOf
  <2>. QED BY <1>1, <1>4, <2>1
<1>5. CASE UNCHANGED <<bandRows, heartbeats, lastBeat, answering, listening, told>>
  BY <1>2, <1>4, <1>5
<1>6. CASE ViewerConnects
  <2>1. /\ told' = [s \in BandCharts |-> IF s = "XAUUSD" THEN AskedBand(s) ELSE NoBand]
        /\ UNCHANGED <<bandRows, heartbeats, lastBeat>>
    BY <1>6 DEF ViewerConnects
  <2>2. AskedBand(c)' = AskedBand(c)
    BY <2>1 DEF AskedBand, BandOf
  <2>. QED BY <2>1, <2>2
<1>7. CASE BandsRestart
  BY <1>2, <1>7 DEF BandsRestart
<1>8. ASSUME NEW s \in BandCharts, BeatStores(s) PROVE Agrees(c)'
  <2>1. /\ heartbeats' = [heartbeats EXCEPT ![s] = [known |-> TRUE, legs |-> legsHeld[s]]]
        /\ answering' = [answering EXCEPT ![s] = heartbeats'[s]]
        /\ UNCHANGED <<bandRows, listening, told>>
    BY <1>8 DEF BeatStores
  <2>2. c # s
    BY <1>2, <2>1 DEF BandKinds, NoHeartbeat
  <2>. QED BY <1>2, <1>4, <2>1, <2>2 DEF BandKinds
<1>9. ASSUME NEW s \in BandCharts, NEW band, Broadcast(s, band), listening'
      PROVE  listening /\ told' = [told EXCEPT ![s] = band]
  BY <1>9 DEF Broadcast
<1>10. ASSUME NEW s \in BandCharts, BeatBroadcasts(s) PROVE Agrees(c)'
  <2>1. /\ answering[s] # NoHeartbeat /\ answering' = [answering EXCEPT ![s] = NoHeartbeat]
        /\ Broadcast(s, Band(bandRows, s, answering[s].legs))
        /\ UNCHANGED <<bandRows, heartbeats, lastBeat>>
    BY <1>10 DEF BeatBroadcasts
  <2>2. listening /\ told' = [told EXCEPT ![s] = Band(bandRows, s, answering[s].legs)]
    BY <1>2, <1>9, <2>1
  <2>3. AskedBand(c)' = AskedBand(c)
    BY <2>1 DEF AskedBand, BandOf
  <2>4. CASE c = s
    BY <1>3, <2>1, <2>2, <2>3, <2>4 DEF BeatsKnown, ToldOnRecord
  <2>5. CASE c # s
    <3>1. told'[c] = told[c] /\ answering'[c] = answering[c]
      BY <2>1, <2>2, <2>5 DEF ToldOnRecord, BandKinds
    <3>. QED BY <1>1, <1>2, <2>1, <2>2, <2>3, <3>1
  <2>. QED BY <2>4, <2>5
<1>11. ASSUME NEW s \in BandCharts, EventArrives(s) PROVE Agrees(c)'
  <2>1. /\ bandPosts[s] # <<>> /\ bandRows' = Append(bandRows, bandPosts[s][1])
        /\ Broadcast(s, BandOf(bandRows', heartbeats, lastBeat, s))
        /\ UNCHANGED <<heartbeats, lastBeat, answering>>
    BY <1>11 DEF EventArrives
  <2>2. listening /\ told' = [told EXCEPT ![s] = BandOf(bandRows', heartbeats, lastBeat, s)]
    BY <1>2, <1>9, <2>1
  <2>3. CASE c = s
    BY <2>1, <2>2, <2>3 DEF AskedBand, ToldOnRecord
  <2>4. CASE c # s
    <3>1. bandPosts[s][1] \in EventRows /\ bandPosts[s][1].symbol # c
      BY <2>1, <2>4, PostGoes
    <3>2. Band(bandRows', c, heartbeats[c].legs) = Band(bandRows, c, heartbeats[c].legs)
      BY <2>1, <3>1, BandRests DEF BandKinds
    <3>3. AskedBand(c)' = AskedBand(c)
      BY <1>2, <2>1, <3>2 DEF AskedBand, BandOf
    <3>4. told'[c] = told[c]
      BY <2>2, <2>4 DEF ToldOnRecord
    <3>. QED BY <1>1, <1>2, <2>1, <2>2, <3>3, <3>4
  <2>. QED BY <2>3, <2>4
<1>. QED BY <1>5, <1>6, <1>7, <1>8, <1>10, <1>11, BandSteps

\* The rows of one chart and its legs do not depend on what another chart posts.
LEMMA ToldRests ==
  ASSUME BandKinds, NEW c \in BandCharts, ToldInOrder(c),
         bandPosts'[c] = bandPosts[c], legsHeld'[c] = legsHeld[c],
         \/ UNCHANGED bandRows
         \/ \E r \in EventRows : r.symbol # c /\ bandRows' = Append(bandRows, r)
  PROVE  ToldInOrder(c)'
<1>1. CASE UNCHANGED bandRows
  BY <1>1 DEF ToldInOrder, LastEntry, BasketClosed, RowsOf, Entries
<1>2. ASSUME NEW r \in EventRows, r.symbol # c, bandRows' = Append(bandRows, r)
      PROVE  ToldInOrder(c)'
  <2>. DEFINE n == Len(bandRows)
              more == Append(bandRows, r)
              own == RowsOf(bandRows, c)
  <2>1. /\ n \in Nat /\ own \in SUBSET (1..n) /\ RowsOf(more, c) = own
        /\ \A i \in 1..n : more[i] = bandRows[i]
    <3>1. bandRows \in Seq(EventRows)
      BY DEF BandKinds
    <3>2. n \in Nat /\ own \in SUBSET (1..n) /\ \A i \in 1..n : more[i] = bandRows[i]
      BY <1>2, <3>1, RowsGrow
    <3>3. RowsOf(more, c) = own \union (IF r.symbol = c THEN {n + 1} ELSE {})
      BY <1>2, <3>1, RowsGrow
    <3>. HIDE DEF n, more, own
    <3>. QED BY <1>2, <3>2, <3>3
  <2>2. own \intersect Entries(more) = own \intersect Entries(bandRows)
    <3>1. /\ Entries(more) = Entries(bandRows) \union (IF EntersBasket(r) THEN {n + 1} ELSE {})
          /\ n + 1 \notin 1..n
      BY <2>1, RowsGrow DEF BandKinds
    <3>. HIDE DEF more, own, n
    <3>. QED BY <2>1, <3>1
  <2>. HIDE DEF more, own, n
  <2>3. LastEntry(more, c) = LastEntry(bandRows, c) /\ LastEntry(bandRows, c) \in 0..n
    BY <2>1, <2>2, RowsIn DEF LastEntry, own, BandKinds, n
  <2>4. LastEntry(bandRows, c) # 0 => more[LastEntry(bandRows, c)] = bandRows[LastEntry(bandRows, c)]
    BY <2>1, <2>3
  <2>5. own # {} => more[Newest(own)] = bandRows[Newest(own)]
    BY <2>1, NewestOf
  <2>6. BasketClosed(bandRows, c) => BasketClosed(more, c)
    BY <2>1, <2>3, <2>4, <2>5 DEF BasketClosed, own
  <2>. QED BY <1>2, <2>3, <2>4, <2>6 DEF ToldInOrder, more
<1>. QED BY <1>1, <1>2

\* An event that arrives is the next of its chart's: what was on its way is now
\* on record.
LEMMA ArrivalTold ==
  ASSUME BandKinds, NEW s \in BandCharts, ToldInOrder(s), EventArrives(s)
  PROVE  ToldInOrder(s)'
<1>. DEFINE p == bandPosts[s]
            r == p[1]
            n == Len(bandRows)
            own == RowsOf(bandRows, s)
            entries == own \intersect Entries(bandRows)
            held == legsHeld[s]
<1>1. /\ p # <<>> /\ bandPosts'[s] = Tail(p) /\ bandRows' = Append(bandRows, r)
      /\ legsHeld' = legsHeld
  BY DEF EventArrives, BandKinds
<1>2. /\ r \in EventRows /\ r.symbol = s /\ Len(p) \in Nat \ {0} /\ Len(Tail(p)) = Len(p) - 1
      /\ \A k \in 1..(Len(p) - 1) : Tail(p)[k] = p[k + 1]
      /\ Tail(p) \in Seq(EventRows)
  BY <1>1, PostGoes
<1>3. /\ n \in Nat /\ own \in SUBSET (1..n) /\ Entries(bandRows) \in SUBSET (1..n)
      /\ \A i \in 1..n : bandRows'[i] = bandRows[i]
      /\ bandRows'[n + 1] = r /\ RowsOf(bandRows', s) = own \union {n + 1}
      /\ Entries(bandRows') = Entries(bandRows) \union (IF EntersBasket(r) THEN {n + 1} ELSE {})
  <2>1. bandRows \in Seq(EventRows) /\ r \in EventRows
    BY <1>2 DEF BandKinds
  <2>2. /\ n \in Nat /\ own \in SUBSET (1..n) /\ Entries(bandRows) \in SUBSET (1..n)
        /\ \A i \in 1..n : Append(bandRows, r)[i] = bandRows[i]
        /\ Append(bandRows, r)[n + 1] = r
    BY <2>1, RowsGrow
  <2>3. /\ RowsOf(Append(bandRows, r), s) = own \union {n + 1}
        /\ Entries(Append(bandRows, r))
              = Entries(bandRows) \union (IF EntersBasket(r) THEN {n + 1} ELSE {})
    BY <1>2, <2>1, RowsGrow
  <2>. QED BY <1>1, <2>2, <2>3
<1>. HIDE DEF n, own, r
<1>4. Newest(RowsOf(bandRows', s)) = n + 1 /\ RowsOf(bandRows', s) # {}
  BY <1>3, NewestOf
<1>5. /\ entries \in SUBSET (1..n)
      /\ RowsOf(bandRows', s) \intersect Entries(bandRows')
            = entries \union (IF EntersBasket(r) THEN {n + 1} ELSE {})
  <2>1. n + 1 \notin 1..n
    BY <1>3
  <2>. QED BY <1>3, <2>1
<1>. HIDE DEF entries
<1>6. LastEntry(bandRows', s) = IF EntersBasket(r) THEN n + 1 ELSE Newest(entries)
  BY <1>3, <1>5, NewestOf DEF LastEntry
<1>7. LastEntry(bandRows, s) = Newest(entries) /\ Newest(entries) \in 0..n
  BY <1>3, <1>5, NewestOf DEF LastEntry, entries, own
<1>8. LastEntry(bandRows', s) # 0 => bandRows'[LastEntry(bandRows', s)].dir = r.dir
  <2>1. CASE EntersBasket(r)
    BY <1>3, <1>6, <2>1
  <2>2. CASE ~EntersBasket(r)
    <3>1. r.event = "close"
      BY <1>2, <2>2 DEF EntersBasket, EventRows
    <3>2. Newest(entries) # 0 => bandRows[Newest(entries)].dir = r.dir
      BY <1>1, <1>7, <3>1 DEF ToldInOrder, r
    <3>3. Newest(entries) # 0 => bandRows'[Newest(entries)] = bandRows[Newest(entries)]
      BY <1>3, <1>7
    <3>. QED BY <1>6, <2>2, <3>2, <3>3
  <2>. QED BY <2>1, <2>2
<1>9. /\ \A k \in 2..Len(p) : p[k].event = "close" => p[k].dir = p[k - 1].dir
      /\ held # <<>> => p[Len(p)].dir = held[1].dir
      /\ held = <<>> => p[Len(p)].event = "close"
      /\ \A k \in 1..Len(held) : held[k].dir = held[1].dir
  BY <1>1 DEF ToldInOrder
<1>. DEFINE q == Tail(p)
<1>. HIDE DEF p, held, q
<1>10. /\ q \in Seq(EventRows) /\ Len(q) = Len(p) - 1 /\ \A k \in 1..Len(q) : q[k] = p[k + 1]
       /\ Len(<<>>) = 0
  BY <1>2, EmptySeq DEF q, p
<1>11. /\ q = <<>> => Len(p) = 1
       /\ q # <<>> => Len(q) \in Nat \ {0} /\ Len(p) > 1
  <2>1. q # <<>> => Len(q) \in Nat \ {0}
    BY <1>10, EmptySeq
  <2>2. Len(p) \in Nat \ {0}
    BY <1>2 DEF p
  <2>. QED BY <1>10, <2>1, <2>2
<1>12. q # <<>> /\ q[1].event = "close" => q[1].dir = r.dir
  <2>. HAVE q # <<>> /\ q[1].event = "close"
  <2>1. q[1] = p[2] /\ 2 \in 2..Len(p) /\ 2 - 1 = 1
    BY <1>10, <1>11, <1>2 DEF p
  <2>. QED BY <1>9, <2>1 DEF r
<1>13. \A k \in 2..Len(q) : q[k].event = "close" => q[k].dir = q[k - 1].dir
  <2>. TAKE k \in 2..Len(q)
  <2>1. q[k] = p[k + 1] /\ q[k - 1] = p[k] /\ k + 1 \in 2..Len(p) /\ (k + 1) - 1 = k
    <3>1. Len(p) \in Nat /\ k \in 1..Len(q) /\ k - 1 \in 1..Len(q)
      BY <1>2, <1>10 DEF p
    <3>. QED BY <1>10, <3>1
  <2>. QED BY <1>9, <2>1
<1>14. q # <<>> => q[Len(q)] = p[Len(p)]
  <2>1. Len(p) \in Nat
    BY <1>2 DEF p
  <2>. QED BY <1>10, <1>11, <2>1
<1>15. q = <<>> => p[Len(p)] = r
  BY <1>11 DEF r
<1>16. q = <<>> /\ held = <<>> => BasketClosed(bandRows', s)
  BY <1>3, <1>4, <1>8, <1>9, <1>15 DEF BasketClosed
<1>17. bandPosts'[s] = q /\ legsHeld'[s] = held
  BY <1>1 DEF p, held, q
<1>. QED BY <1>8, <1>9, <1>12, <1>13, <1>14, <1>15, <1>16, <1>17 DEF ToldInOrder

LEMMA FillTold ==
  ASSUME BandKinds, NEW s \in BandCharts, ToldInOrder(s), NEW dir \in {"BUY", "SELL"},
         NEW px \in Prices, NEW adr \in AdrModes, LegFills(s, dir, px, adr)
  PROVE  ToldInOrder(s)'
<1>. DEFINE p == bandPosts[s]
            held == legsHeld[s]
            ticket == MaxFills - bdLeft.legs + 1
            sl == px - Up(dir) * StopGap
            leg == [ticket |-> ticket, dir |-> dir, px |-> px, sl |-> sl]
            event == [symbol |-> s, event |-> IF held = <<>> THEN "open" ELSE "add",
                      ticket |-> ticket, dir |-> dir, px |-> px, sl |-> sl,
                      tp |-> IF adr \/ held # <<>> THEN px + Up(dir) * TargetGap ELSE 0]
<1>1. /\ legsHeld' = [legsHeld EXCEPT ![s] = Append(@, leg)] /\ Posts(s, event)
      /\ held # <<>> => held[1].dir = dir /\ bandRows' = bandRows
  BY DEF LegFills, ServiceKeeps
<1>2. /\ legsHeld'[s] = Append(held, leg) /\ bandPosts'[s] = Append(p, event)
      /\ bandRows' = bandRows
  BY <1>1 DEF Posts, BandKinds, LegFills, ServiceKeeps
<1>3. leg.dir = dir /\ event.dir = dir /\ event.event # "close"
  OBVIOUS
<1>4. p \in Seq(EventRows) /\ held \in Seq(BandLegs)
  BY DEF BandKinds
<1>5. ToldInOrder(s)
  OBVIOUS
<1>. HIDE DEF p, held, leg, event, ticket, sl
<1>6. /\ Len(p) \in Nat /\ Len(held) \in Nat
      /\ Append(p, event) # <<>> /\ Len(Append(p, event)) = Len(p) + 1
      /\ Append(held, leg) # <<>> /\ Len(Append(held, leg)) = Len(held) + 1
      /\ \A k \in 1..Len(p) : Append(p, event)[k] = p[k]
      /\ \A k \in 1..Len(held) : Append(held, leg)[k] = held[k]
      /\ Append(p, event)[Len(p) + 1] = event /\ Append(held, leg)[Len(held) + 1] = leg
  BY <1>4
<1>7. /\ p = <<>> <=> Len(p) = 0
      /\ held = <<>> <=> Len(held) = 0
  BY <1>4
<1>. DEFINE q == Append(p, event)
            hs == Append(held, leg)
<1>. HIDE DEF q, hs
<1>8. \A k \in 1..Len(hs) : hs[k].dir = dir
  <2>1. \A k \in 1..Len(held) : held[k].dir = held[1].dir
    BY <1>5 DEF ToldInOrder, held
  <2>2. \A k \in 1..Len(held) : held[k].dir = dir
    BY <1>1, <1>6, <1>7, <2>1 DEF held
  <2>. TAKE k \in 1..Len(hs)
  <2>3. k \in 1..Len(held) \/ k = Len(held) + 1
    BY <1>6 DEF hs
  <2>. QED BY <1>3, <1>6, <2>2, <2>3 DEF hs
<1>9. hs[1].dir = dir /\ hs # <<>>
  BY <1>6, <1>8 DEF hs
<1>10. q # <<>> /\ q[Len(q)] = event
  BY <1>6 DEF q
<1>11. /\ p # <<>> /\ p[1].event = "close" /\ LastEntry(bandRows, s) # 0
             => bandRows[LastEntry(bandRows, s)].dir = p[1].dir
       /\ \A k \in 2..Len(p) : p[k].event = "close" => p[k].dir = p[k - 1].dir
  BY <1>5 DEF ToldInOrder, p
<1>12. q[1].event = "close" => p # <<>> /\ q[1] = p[1]
  <2>1. p = <<>> => q[1] = event
    BY <1>6, <1>7 DEF q
  <2>2. p # <<>> => q[1] = p[1]
    BY <1>6, <1>7 DEF q
  <2>. QED BY <1>3, <2>1, <2>2
<1>13. \A k \in 2..Len(q) : q[k].event = "close" => q[k].dir = q[k - 1].dir
  <2>. TAKE k \in 2..Len(q)
  <2>1. CASE k = Len(p) + 1
    BY <1>3, <1>6, <2>1 DEF q
  <2>2. CASE k # Len(p) + 1
    <3>1. k \in 2..Len(p) /\ k \in 1..Len(p) /\ k - 1 \in 1..Len(p)
      BY <1>6, <2>2 DEF q
    <3>2. q[k] = p[k] /\ q[k - 1] = p[k - 1]
      BY <1>6, <3>1 DEF q
    <3>. QED BY <1>11, <3>1, <3>2
  <2>. QED BY <2>1, <2>2
<1>14. bandPosts'[s] = q /\ legsHeld'[s] = hs
  BY <1>2 DEF q, hs
<1>. QED BY <1>2, <1>3, <1>8, <1>9, <1>10, <1>11, <1>12, <1>13, <1>14 DEF ToldInOrder

LEMMA CloseTold ==
  ASSUME BandKinds, NEW s \in BandCharts, ToldInOrder(s), legsHeld[s] # <<>>,
         NEW left \in {<<>>, Tail(legsHeld[s])}, LegsClose(s, left)
  PROVE  ToldInOrder(s)'
<1>. DEFINE p == bandPosts[s]
            held == legsHeld[s]
            event == [symbol |-> s, event |-> "close", ticket |-> 0, dir |-> held[1].dir,
                      px |-> held[1].px, sl |-> 0, tp |-> 0]
<1>1. /\ legsHeld'[s] = left /\ bandPosts'[s] = Append(p, event) /\ bandRows' = bandRows
  BY DEF LegsClose, Posts, BandKinds, ServiceKeeps
<1>2. event.dir = held[1].dir /\ event.event = "close"
  OBVIOUS
<1>3. p \in Seq(EventRows) /\ left \in {<<>>, Tail(held)}
  BY DEF BandKinds
<1>4. /\ p # <<>> /\ p[1].event = "close" /\ LastEntry(bandRows, s) # 0
            => bandRows[LastEntry(bandRows, s)].dir = p[1].dir
      /\ \A k \in 2..Len(p) : p[k].event = "close" => p[k].dir = p[k - 1].dir
      /\ \A k \in 1..Len(held) : held[k].dir = held[1].dir
      /\ p # <<>> => p[Len(p)].dir = held[1].dir
      /\ p = <<>> /\ LastEntry(bandRows, s) # 0
            => bandRows[LastEntry(bandRows, s)].dir = held[1].dir
  BY DEF ToldInOrder
<1>5. /\ Len(held) \in Nat \ {0} /\ Tail(held) \in Seq(BandLegs)
      /\ Len(Tail(held)) = Len(held) - 1
      /\ \A k \in 1..(Len(held) - 1) : Tail(held)[k] = held[k + 1]
  BY LegGoes
<1>. HIDE DEF p, held, event
<1>6. /\ Len(p) \in Nat /\ (p = <<>> <=> Len(p) = 0)
      /\ Append(p, event) # <<>> /\ Len(Append(p, event)) = Len(p) + 1
      /\ \A k \in 1..Len(p) : Append(p, event)[k] = p[k]
      /\ Append(p, event)[Len(p) + 1] = event
  BY <1>3
<1>. DEFINE q == Append(p, event)
<1>. HIDE DEF q
<1>7. q # <<>> /\ q[Len(q)] = event
  BY <1>6 DEF q
<1>8. LastEntry(bandRows, s) # 0 /\ q[1].event = "close"
         => bandRows[LastEntry(bandRows, s)].dir = q[1].dir
  <2>1. p = <<>> => q[1] = event
    BY <1>6 DEF q
  <2>2. p # <<>> => q[1] = p[1]
    BY <1>6 DEF q
  <2>. QED BY <1>2, <1>4, <2>1, <2>2
<1>9. \A k \in 2..Len(q) : q[k].event = "close" => q[k].dir = q[k - 1].dir
  <2>. TAKE k \in 2..Len(q)
  <2>1. CASE k = Len(p) + 1
    <3>1. Len(p) \in 1..Len(p) /\ p # <<>> /\ k - 1 = Len(p)
      BY <1>6, <2>1 DEF q
    <3>2. q[k] = event /\ q[k - 1] = p[Len(p)]
      BY <1>6, <2>1, <3>1 DEF q
    <3>. QED BY <1>2, <1>4, <3>1, <3>2
  <2>2. CASE k # Len(p) + 1
    <3>1. k \in 2..Len(p) /\ k \in 1..Len(p) /\ k - 1 \in 1..Len(p)
      BY <1>6, <2>2 DEF q
    <3>2. q[k] = p[k] /\ q[k - 1] = p[k - 1]
      BY <1>6, <3>1 DEF q
    <3>. QED BY <1>4, <3>1, <3>2
  <2>. QED BY <2>1, <2>2
<1>10. \A k \in 1..Len(left) : left[k].dir = held[1].dir
  <2>1. CASE left = <<>>
    BY <2>1
  <2>2. CASE left = Tail(held)
    <3>. TAKE k \in 1..Len(left)
    <3>1. k \in 1..(Len(held) - 1) /\ k + 1 \in 1..Len(held)
      BY <1>5, <2>2
    <3>. QED BY <1>4, <1>5, <2>2, <3>1
  <2>. QED BY <1>3, <2>1, <2>2
<1>11. left # <<>> => left[1].dir = held[1].dir
  <2>. HAVE left # <<>>
  <2>1. left \in Seq(BandLegs)
    BY <1>3, <1>5
  <2>2. 1 \in 1..Len(left)
    BY <2>1, EmptySeq
  <2>. QED BY <1>10, <2>2
<1>12. bandPosts'[s] = q
  BY <1>1 DEF q
<1>. QED BY <1>1, <1>2, <1>7, <1>8, <1>9, <1>10, <1>11, <1>12 DEF ToldInOrder

LEMMA StopsTold ==
  ASSUME BandKinds, NEW s \in BandCharts, ToldInOrder(s), NEW sl \in Stops, StopsMove(s, sl)
  PROVE  ToldInOrder(s)'
<1>. DEFINE held == legsHeld[s]
            moved == legsHeld'[s]
<1>1. /\ held # <<>> /\ moved \in Seq(BandLegs) /\ Len(moved) = Len(held)
      /\ \A k \in 1..Len(held) : moved[k].dir = held[k].dir
  BY StopsMoved DEF StopsMove
<1>2. bandPosts' = bandPosts /\ bandRows' = bandRows
  BY DEF StopsMove, ServiceKeeps
<1>3. Len(held) \in Nat \ {0}
  BY <1>1, LegGoes
<1>4. /\ \A k \in 1..Len(held) : held[k].dir = held[1].dir
      /\ bandPosts[s] # <<>> => bandPosts[s][Len(bandPosts[s])].dir = held[1].dir
      /\ bandPosts[s] = <<>> /\ LastEntry(bandRows, s) # 0
            => bandRows[LastEntry(bandRows, s)].dir = held[1].dir
  BY <1>1 DEF ToldInOrder
<1>. HIDE DEF held, moved
<1>5. moved # <<>> /\ moved[1].dir = held[1].dir
      /\ \A k \in 1..Len(moved) : moved[k].dir = moved[1].dir
  BY <1>1, <1>3, <1>4, EmptySeq
<1>. QED BY <1>2, <1>4, <1>5 DEF ToldInOrder, moved

LEMMA NothingMissedHolds ==
  ASSUME BandKinds, NothingMissed, [BandsNext]_bandVars
  PROVE  NothingMissed'
<1>1. SUFFICES ASSUME NEW c \in BandCharts, c \notin lostRows' PROVE ToldInOrder(c)'
  BY DEF NothingMissed
<1>2. c \notin lostRows => ToldInOrder(c)
  BY DEF NothingMissed
<1>3. ASSUME c \notin lostRows, bandPosts'[c] = bandPosts[c], legsHeld'[c] = legsHeld[c],
             UNCHANGED bandRows
      PROVE  ToldInOrder(c)'
  BY <1>2, <1>3, ToldRests
<1>4. CASE UNCHANGED <<legsHeld, bandPosts, bandRows, lostRows>>
  BY <1>1, <1>3, <1>4
<1>5. ASSUME NEW s \in BandCharts, EventArrives(s) PROVE ToldInOrder(c)'
  <2>1. /\ bandPosts[s] # <<>> /\ bandRows' = Append(bandRows, bandPosts[s][1])
        /\ legsHeld' = legsHeld /\ lostRows' = lostRows
        /\ c # s => bandPosts'[c] = bandPosts[c]
    BY <1>5 DEF EventArrives, BandKinds
  <2>2. bandPosts[s][1] \in EventRows /\ bandPosts[s][1].symbol = s
    BY <2>1, PostGoes
  <2>3. CASE c = s
    BY <1>1, <1>2, <1>5, <2>1, <2>3, ArrivalTold
  <2>4. CASE c # s
    BY <1>1, <1>2, <2>1, <2>2, <2>4, ToldRests
  <2>. QED BY <2>3, <2>4
<1>6. ASSUME NEW s \in BandCharts, EventLost(s) PROVE ToldInOrder(c)'
  <2>1. /\ c # s /\ c \notin lostRows /\ bandPosts'[c] = bandPosts[c]
        /\ legsHeld' = legsHeld /\ bandRows' = bandRows
    BY <1>1, <1>6 DEF EventLost, BandKinds
  <2>. QED BY <1>3, <2>1
<1>7. ASSUME NEW s \in BandCharts, NEW dir \in {"BUY", "SELL"}, NEW px \in Prices,
             NEW adr \in AdrModes, LegFills(s, dir, px, adr)
      PROVE  ToldInOrder(c)'
  <2>1. /\ lostRows' = lostRows /\ bandRows' = bandRows
        /\ c # s => bandPosts'[c] = bandPosts[c] /\ legsHeld'[c] = legsHeld[c]
    BY <1>7 DEF LegFills, Posts, ServiceKeeps, BandKinds
  <2>2. c = s => ToldInOrder(c)'
    BY <1>1, <1>2, <1>7, <2>1, FillTold
  <2>. QED BY <1>1, <1>3, <2>1, <2>2
<1>8. ASSUME NEW s \in BandCharts, legsHeld[s] # <<>>, NEW left \in {<<>>, Tail(legsHeld[s])},
             LegsClose(s, left)
      PROVE  ToldInOrder(c)'
  <2>1. /\ lostRows' = lostRows /\ bandRows' = bandRows
        /\ c # s => bandPosts'[c] = bandPosts[c] /\ legsHeld'[c] = legsHeld[c]
    BY <1>8 DEF LegsClose, Posts, ServiceKeeps, BandKinds
  <2>2. c = s => ToldInOrder(c)'
    BY <1>1, <1>2, <1>8, <2>1, CloseTold
  <2>. QED BY <1>1, <1>3, <2>1, <2>2
<1>9. ASSUME NEW s \in BandCharts, NEW sl \in Stops, StopsMove(s, sl) PROVE ToldInOrder(c)'
  <2>1. /\ lostRows' = lostRows /\ bandRows' = bandRows /\ bandPosts' = bandPosts
        /\ c # s => legsHeld'[c] = legsHeld[c]
    BY <1>9 DEF StopsMove, ServiceKeeps, BandKinds
  <2>2. c = s => ToldInOrder(c)'
    BY <1>1, <1>2, <1>9, <2>1, StopsTold
  <2>. QED BY <1>1, <1>3, <2>1, <2>2
<1>10. CASE UNCHANGED bandVars
  BY <1>4, <1>10 DEF bandVars
<1>11. CASE ViewerConnects \/ ViewerReads \/ BandsRestart
  BY <1>4, <1>11 DEF ViewerConnects, ViewerReads, BandsRestart
<1>12. ASSUME NEW s \in BandCharts, BeatStores(s) \/ BeatBroadcasts(s) PROVE ToldInOrder(c)'
  BY <1>4, <1>12 DEF BeatStores, BeatBroadcasts
<1>. QED
  BY <1>5, <1>6, <1>7, <1>8, <1>9, <1>10, <1>11, <1>12 DEF BandsNext

\* What fits the deeds still fits when there is one more.
LEMMA FitsMore ==
  ASSUME NEW n \in Nat, NEW deed \in [1..n -> Deeds], NEW more \in [1..(n + 1) -> Deeds],
         \A t \in 1..n : more[t] = deed[t]
  PROVE  /\ \A s, leg : LegFits(deed, s, leg) => LegFits(more, s, leg)
         /\ \A r : RowFits(deed, r) => RowFits(more, r)
<1>1. DOMAIN deed = 1..n /\ DOMAIN more = 1..(n + 1) /\ 1..n \subseteq 1..(n + 1)
  OBVIOUS
<1>. QED BY <1>1 DEF LegFits, RowFits

LEMMA FillFits ==
  ASSUME BandKinds, OneDeedEach, NEW s \in BandCharts, NEW dir \in {"BUY", "SELL"},
         NEW px \in Prices, NEW adr \in AdrModes, LegFills(s, dir, px, adr)
  PROVE  OneDeedEach'
<1>. DEFINE ticket == MaxFills - bdLeft.legs + 1
            leg == [ticket |-> ticket, dir |-> dir, px |-> px, sl |-> px - Up(dir) * StopGap]
            event == [symbol |-> s, event |-> IF legsHeld[s] = <<>> THEN "open" ELSE "add",
                      ticket |-> ticket, dir |-> dir, px |-> px, sl |-> px - Up(dir) * StopGap,
                      tp |-> IF adr \/ legsHeld[s] # <<>> THEN px + Up(dir) * TargetGap ELSE 0]
<1>1. bdLeft.legs \in Nat /\ MaxFills \in Nat /\ bdLeft.legs <= MaxFills
  BY BandNumbers DEF BandKinds, OneDeedEach
<1>2. PICK n \in Nat : n = MaxFills - bdLeft.legs
  BY <1>1
<1>3. PICK deed \in [1..n -> Deeds] :
         LegsFit(deed) /\ BeatsFit(deed) /\ PostsFit(deed) /\ RowsFit(deed)
  BY <1>2 DEF OneDeedEach
<1>4. PICK more : more = [t \in 1..(n + 1) |-> IF t = n + 1 THEN [chart |-> s, dir |-> dir, px |-> px]
                                              ELSE deed[t]]
  OBVIOUS
<1>5. /\ more \in [1..(n + 1) -> Deeds] /\ \A t \in 1..n : more[t] = deed[t]
      /\ n + 1 \in 1..(n + 1) /\ more[n + 1] = [chart |-> s, dir |-> dir, px |-> px]
  <2>1. n + 1 \in 1..(n + 1) /\ \A t \in 1..(n + 1) : t = n + 1 \/ t \in 1..n
    OBVIOUS
  <2>2. \A t \in 1..n : t \in 1..(n + 1) /\ t # n + 1
    OBVIOUS
  <2>3. [chart |-> s, dir |-> dir, px |-> px] \in Deeds
    BY DEF Deeds
  <2>4. \A t \in 1..n : deed[t] \in Deeds
    OBVIOUS
  <2>. QED BY <1>4, <2>1, <2>2, <2>3, <2>4
<1>6. /\ \A c, x : LegFits(deed, c, x) => LegFits(more, c, x)
      /\ \A x : RowFits(deed, x) => RowFits(more, x)
  BY <1>5, FitsMore
<1>7. /\ legsHeld' = [legsHeld EXCEPT ![s] = Append(@, leg)]
      /\ bandPosts' = [bandPosts EXCEPT ![s] = Append(@, event)]
      /\ bdLeft.legs > 0 /\ bdLeft' = [bdLeft EXCEPT !["legs"] = @ - 1]
      /\ bandRows' = bandRows /\ heartbeats' = heartbeats
  BY DEF LegFills, Posts, ServiceKeeps, Uses
<1>8. LegFits(more, s, leg) /\ RowFits(more, event)
  <2>1. ticket = n + 1 /\ ticket \in DOMAIN more
    BY <1>1, <1>2, <1>5
  <2>2. /\ leg.ticket = ticket /\ leg.dir = dir /\ leg.px = px
        /\ event.ticket = ticket /\ event.dir = dir /\ event.px = px /\ event.symbol = s
        /\ event.tp \in {0, px + Up(dir) * TargetGap}
    OBVIOUS
  <2>. HIDE DEF leg, event, ticket
  <2>. QED BY <1>5, <2>1, <2>2 DEF LegFits, RowFits
<1>. HIDE DEF leg, event, ticket
<1>9. LegsFit(more)'
  <2>. SUFFICES ASSUME NEW c \in BandCharts, NEW k \in 1..Len(legsHeld'[c])
                PROVE  LegFits(more, c, legsHeld'[c][k])
    BY DEF LegsFit, LegFits
  <2>1. CASE c = s
    <3>1. legsHeld'[c] = Append(legsHeld[s], leg)
      BY <1>7, <2>1 DEF BandKinds
    <3>2. /\ Len(legsHeld[s]) \in Nat /\ Len(legsHeld'[c]) = Len(legsHeld[s]) + 1
          /\ legsHeld'[c][Len(legsHeld[s]) + 1] = leg
          /\ \A j \in 1..Len(legsHeld[s]) : legsHeld'[c][j] = legsHeld[s][j]
      <4>1. leg \in BandLegs
        <5>1. ticket \in Int /\ px \in Int /\ px - Up(dir) * StopGap \in Int
          <6>1. ticket \in Int
            BY <1>1 DEF ticket
          <6>2. px \in Nat /\ StopGap \in Nat
            BY BandNumbers
          <6>. QED BY <6>1, <6>2 DEF Up
        <5>. QED BY <5>1 DEF BandLegs, leg
      <4>. QED BY <3>1, <4>1, AppendProperties, LenProperties DEF BandKinds
    <3>3. CASE k = Len(legsHeld[s]) + 1
      BY <1>8, <2>1, <3>2, <3>3
    <3>4. CASE k \in 1..Len(legsHeld[s])
      BY <1>3, <1>6, <2>1, <3>2, <3>4 DEF LegsFit
    <3>. QED BY <3>2, <3>3, <3>4
  <2>2. CASE c # s
    <3>1. legsHeld'[c] = legsHeld[c]
      BY <1>7, <2>2 DEF BandKinds
    <3>. QED BY <1>3, <1>6, <3>1 DEF LegsFit
  <2>. QED BY <2>1, <2>2
<1>10. PostsFit(more)'
  <2>. SUFFICES ASSUME NEW c \in BandCharts, NEW k \in 1..Len(bandPosts'[c])
                PROVE  RowFits(more, bandPosts'[c][k])
    BY DEF PostsFit, RowFits, EntersBasket
  <2>1. CASE c = s
    <3>1. bandPosts'[c] = Append(bandPosts[s], event)
      BY <1>7, <2>1 DEF BandKinds
    <3>2. /\ Len(bandPosts[s]) \in Nat /\ Len(bandPosts'[c]) = Len(bandPosts[s]) + 1
          /\ bandPosts'[c][Len(bandPosts[s]) + 1] = event
          /\ \A j \in 1..Len(bandPosts[s]) : bandPosts'[c][j] = bandPosts[s][j]
      <4>1. event \in EventRows
        <5>1. ticket \in Int /\ px \in Int /\ px - Up(dir) * StopGap \in Int
              /\ px + Up(dir) * TargetGap \in Int
          <6>1. ticket \in Int
            BY <1>1 DEF ticket
          <6>2. px \in Nat /\ StopGap \in Nat /\ TargetGap \in Nat
            BY BandNumbers
          <6>. QED BY <6>1, <6>2 DEF Up
        <5>2. s \in {"XAUUSD", "BTCUSD"}
          BY BandNumbers
        <5>. QED BY <5>1, <5>2 DEF EventRows, event
      <4>. QED BY <3>1, <4>1, AppendProperties, LenProperties DEF BandKinds
    <3>3. CASE k = Len(bandPosts[s]) + 1
      BY <1>8, <2>1, <3>2, <3>3
    <3>4. CASE k \in 1..Len(bandPosts[s])
      BY <1>3, <1>6, <2>1, <3>2, <3>4 DEF PostsFit
    <3>. QED BY <3>2, <3>3, <3>4
  <2>2. CASE c # s
    <3>1. bandPosts'[c] = bandPosts[c]
      BY <1>7, <2>2 DEF BandKinds
    <3>. QED BY <1>3, <1>6, <3>1 DEF PostsFit
  <2>. QED BY <2>1, <2>2
<1>11. BeatsFit(more)' /\ RowsFit(more)'
  <2>1. BeatsFit(more) /\ RowsFit(more)
    BY <1>3, <1>6 DEF BeatsFit, RowsFit
  <2>2. BeatsFit(more)'
    BY <1>7, <2>1 DEF BeatsFit
  <2>3. RowsFit(more)'
    BY <1>7, <2>1 DEF RowsFit
  <2>. QED BY <2>2, <2>3
<1>12. bdLeft'.legs = bdLeft.legs - 1
  BY <1>7 DEF BandKinds
<1>13. bdLeft'.legs <= MaxFills /\ MaxFills - bdLeft'.legs = n + 1
  BY <1>1, <1>2, <1>12
<1>. QED BY <1>5, <1>9, <1>10, <1>11, <1>13 DEF OneDeedEach

LEMMA TicketsHold ==
  ASSUME BandKinds, OneDeedEach, [BandsNext]_bandVars
  PROVE  OneDeedEach'
<1>1. PICK n : n = MaxFills - bdLeft.legs
  OBVIOUS
<1>2. PICK deed \in [1..n -> Deeds] :
         LegsFit(deed) /\ BeatsFit(deed) /\ PostsFit(deed) /\ RowsFit(deed)
  BY <1>1 DEF OneDeedEach
<1>3. ASSUME bdLeft'.legs = bdLeft.legs, LegsFit(deed)', BeatsFit(deed)', PostsFit(deed)',
             RowsFit(deed)'
      PROVE  OneDeedEach'
  BY <1>1, <1>3 DEF OneDeedEach
<1>u. ASSUME NEW what \in {"beats", "stops", "trouble"}, Uses(what)
      PROVE  bdLeft'.legs = bdLeft.legs
  BY <1>u DEF Uses, BandKinds
<1>l. UNCHANGED legsHeld => LegsFit(deed)'
  BY <1>2 DEF LegsFit
<1>b. UNCHANGED heartbeats => BeatsFit(deed)'
  BY <1>2 DEF BeatsFit
<1>p. UNCHANGED bandPosts => PostsFit(deed)'
  BY <1>2 DEF PostsFit
<1>r. UNCHANGED bandRows => RowsFit(deed)'
  BY <1>2 DEF RowsFit
<1>4. CASE UNCHANGED <<legsHeld, heartbeats, bandPosts, bandRows>> /\ bdLeft'.legs = bdLeft.legs
  BY <1>3, <1>4, <1>l, <1>b, <1>p, <1>r
<1>5. CASE UNCHANGED bandVars
  BY <1>4, <1>5 DEF bandVars
<1>6. CASE ViewerConnects \/ ViewerReads
  BY <1>4, <1>6, <1>u DEF ViewerConnects, ViewerReads
<1>7. CASE BandsRestart
  <2>1. BeatsFit(deed)'
    <3>1. \A s \in BandCharts : Len(heartbeats'[s].legs) = 0
      BY <1>7, EmptySeq DEF BandsRestart, NoHeartbeat
    <3>. QED BY <3>1 DEF BeatsFit
  <2>2. UNCHANGED <<legsHeld, bandPosts, bandRows>> /\ bdLeft'.legs = bdLeft.legs
    BY <1>7, <1>u DEF BandsRestart
  <2>. QED BY <1>3, <1>l, <1>p, <1>r, <2>1, <2>2
\* The first event of a chart goes, to the rows or for good.
<1>8. ASSUME NEW s \in BandCharts, bandPosts[s] # <<>>,
             bandPosts' = [bandPosts EXCEPT ![s] = Tail(@)]
      PROVE  PostsFit(deed)' /\ RowFits(deed, bandPosts[s][1])
  <2>1. /\ Len(bandPosts[s]) \in Nat \ {0} /\ Len(Tail(bandPosts[s])) = Len(bandPosts[s]) - 1
        /\ \A k \in 1..(Len(bandPosts[s]) - 1) : Tail(bandPosts[s])[k] = bandPosts[s][k + 1]
    BY <1>8, PostGoes
  <2>2. 1 \in 1..Len(bandPosts[s])
    BY <2>1
  <2>3. ASSUME NEW c \in BandCharts, NEW k \in 1..Len(bandPosts'[c])
        PROVE  RowFits(deed, bandPosts'[c][k])
    <3>1. CASE c = s
      <4>1. bandPosts'[c] = Tail(bandPosts[s])
        BY <1>8, <3>1 DEF BandKinds
      <4>2. k + 1 \in 1..Len(bandPosts[s]) /\ bandPosts'[c][k] = bandPosts[s][k + 1]
        BY <2>1, <4>1
      <4>. QED BY <1>2, <4>2 DEF PostsFit
    <3>2. CASE c # s
      <4>1. bandPosts'[c] = bandPosts[c]
        BY <1>8, <3>2 DEF BandKinds
      <4>. QED BY <1>2, <4>1 DEF PostsFit
    <3>. QED BY <3>1, <3>2
  <2>4. PostsFit(deed)'
    BY <2>3 DEF PostsFit, RowFits, EntersBasket
  <2>. QED BY <1>2, <2>2, <2>4 DEF PostsFit
<1>9. ASSUME NEW s \in BandCharts, EventArrives(s) PROVE OneDeedEach'
  <2>1. /\ bandPosts[s] # <<>> /\ bandPosts' = [bandPosts EXCEPT ![s] = Tail(@)]
        /\ bandRows' = Append(bandRows, bandPosts[s][1])
        /\ UNCHANGED <<legsHeld, heartbeats, bdLeft>>
    BY <1>9 DEF EventArrives
  <2>2. PostsFit(deed)' /\ RowFits(deed, bandPosts[s][1])
    BY <1>8, <2>1
  <2>3. bandRows \in Seq(EventRows) /\ bandPosts[s][1] \in EventRows
    BY <2>1, PostGoes DEF BandKinds
  <2>4. /\ Len(bandRows) \in Nat /\ Len(bandRows') = Len(bandRows) + 1
        /\ bandRows'[Len(bandRows) + 1] = bandPosts[s][1]
        /\ \A i \in 1..Len(bandRows) : bandRows'[i] = bandRows[i]
    BY <2>1, <2>3, AppendProperties, LenProperties
  <2>5. ASSUME NEW i \in 1..Len(bandRows') PROVE RowFits(deed, bandRows'[i])
    <3>1. CASE i = Len(bandRows) + 1
      BY <2>2, <2>4, <3>1
    <3>2. CASE i \in 1..Len(bandRows)
      BY <1>2, <2>4, <3>2 DEF RowsFit
    <3>. QED BY <2>4, <3>1, <3>2
  <2>6. RowsFit(deed)'
    BY <2>5 DEF RowsFit, RowFits, EntersBasket
  <2>. QED BY <1>3, <1>l, <1>b, <2>1, <2>2, <2>6
<1>10. ASSUME NEW s \in BandCharts, EventLost(s) PROVE OneDeedEach'
  <2>1. /\ bandPosts[s] # <<>> /\ bandPosts' = [bandPosts EXCEPT ![s] = Tail(@)]
        /\ UNCHANGED <<legsHeld, heartbeats, bandRows>> /\ Uses("trouble")
    BY <1>10 DEF EventLost
  <2>2. PostsFit(deed)'
    BY <1>8, <2>1
  <2>. QED BY <1>3, <1>l, <1>b, <1>r, <1>u, <2>1, <2>2
<1>11. ASSUME NEW s \in BandCharts, BeatStores(s) PROVE OneDeedEach'
  <2>1. /\ heartbeats' = [heartbeats EXCEPT ![s] = [known |-> TRUE, legs |-> legsHeld[s]]]
        /\ UNCHANGED <<legsHeld, bandPosts, bandRows>> /\ Uses("beats")
    BY <1>11 DEF BeatStores
  <2>2. ASSUME NEW c \in BandCharts, NEW k \in 1..Len(heartbeats'[c].legs)
        PROVE  LegFits(deed, c, heartbeats'[c].legs[k])
    <3>1. CASE c = s
      <4>1. heartbeats'[c].legs = legsHeld[c]
        BY <2>1, <3>1 DEF BandKinds
      <4>. QED BY <1>2, <2>2, <4>1 DEF LegsFit
    <3>2. CASE c # s
      <4>1. heartbeats'[c] = heartbeats[c]
        BY <2>1, <3>2 DEF BandKinds
      <4>. QED BY <1>2, <2>2, <4>1 DEF BeatsFit
    <3>. QED BY <3>1, <3>2
  <2>3. BeatsFit(deed)'
    BY <2>2 DEF BeatsFit, LegFits
  <2>. QED BY <1>3, <1>l, <1>p, <1>r, <1>u, <2>1, <2>3
<1>12. ASSUME NEW s \in BandCharts, BeatBroadcasts(s) PROVE OneDeedEach'
  BY <1>4, <1>12 DEF BeatBroadcasts
<1>13. ASSUME NEW s \in BandCharts, NEW dir \in {"BUY", "SELL"}, NEW px \in Prices,
              NEW adr \in AdrModes, LegFills(s, dir, px, adr)
       PROVE  OneDeedEach'
  BY <1>13, FillFits
<1>14. ASSUME NEW s \in BandCharts, legsHeld[s] # <<>>, NEW left \in {<<>>, Tail(legsHeld[s])},
              LegsClose(s, left)
       PROVE  OneDeedEach'
  <2>. DEFINE event == [symbol |-> s, event |-> "close", ticket |-> 0,
                        dir |-> legsHeld[s][1].dir, px |-> legsHeld[s][1].px, sl |-> 0, tp |-> 0]
  <2>1. /\ legsHeld' = [legsHeld EXCEPT ![s] = left]
        /\ bandPosts' = [bandPosts EXCEPT ![s] = Append(@, event)]
        /\ UNCHANGED <<heartbeats, bandRows, bdLeft>>
    BY <1>14 DEF LegsClose, Posts, ServiceKeeps
  <2>2. /\ Len(legsHeld[s]) \in Nat \ {0} /\ legsHeld[s][1] \in BandLegs
        /\ Len(Tail(legsHeld[s])) = Len(legsHeld[s]) - 1
        /\ \A k \in 1..(Len(legsHeld[s]) - 1) : Tail(legsHeld[s])[k] = legsHeld[s][k + 1]
    BY <1>14, LegGoes
  <2>3. event \in EventRows /\ ~EntersBasket(event)
    <3>1. s \in {"XAUUSD", "BTCUSD"}
      BY BandNumbers
    <3>2. legsHeld[s][1].dir \in {"BUY", "SELL"} /\ legsHeld[s][1].px \in Int
      BY <2>2 DEF BandLegs
    <3>. QED BY <3>1, <3>2 DEF EventRows, EntersBasket
  <2>. HIDE DEF event
  <2>4. ASSUME NEW c \in BandCharts, NEW k \in 1..Len(legsHeld'[c])
        PROVE  LegFits(deed, c, legsHeld'[c][k])
    <3>1. CASE c # s
      <4>1. legsHeld'[c] = legsHeld[c]
        BY <2>1, <3>1 DEF BandKinds
      <4>. QED BY <1>2, <2>4, <4>1 DEF LegsFit
    <3>2. CASE c = s
      <4>1. legsHeld'[c] = left
        BY <2>1, <3>2 DEF BandKinds
      <4>2. left = Tail(legsHeld[s])
        <5>1. Len(<<>>) = 0
          BY EmptySeq
        <5>. QED BY <2>4, <4>1, <5>1
      <4>3. k + 1 \in 1..Len(legsHeld[s]) /\ left[k] = legsHeld[s][k + 1]
        BY <2>2, <2>4, <4>1, <4>2
      <4>. QED BY <1>2, <3>2, <4>1, <4>3 DEF LegsFit
    <3>. QED BY <3>1, <3>2
  <2>5. LegsFit(deed)'
    BY <2>4 DEF LegsFit, LegFits
  <2>6. ASSUME NEW c \in BandCharts, NEW k \in 1..Len(bandPosts'[c])
        PROVE  RowFits(deed, bandPosts'[c][k])
    <3>1. CASE c # s
      <4>1. bandPosts'[c] = bandPosts[c]
        BY <2>1, <3>1 DEF BandKinds
      <4>. QED BY <1>2, <2>6, <4>1 DEF PostsFit
    <3>2. CASE c = s
      <4>1. bandPosts'[c] = Append(bandPosts[s], event) /\ bandPosts[s] \in Seq(EventRows)
        BY <2>1, <3>2 DEF BandKinds
      <4>2. /\ Len(bandPosts[s]) \in Nat /\ Len(bandPosts'[c]) = Len(bandPosts[s]) + 1
            /\ bandPosts'[c][Len(bandPosts[s]) + 1] = event
            /\ \A j \in 1..Len(bandPosts[s]) : bandPosts'[c][j] = bandPosts[s][j]
        BY <2>3, <4>1, AppendProperties, LenProperties
      <4>3. CASE k = Len(bandPosts[s]) + 1
        BY <2>3, <4>2, <4>3 DEF RowFits
      <4>4. CASE k \in 1..Len(bandPosts[s])
        BY <1>2, <4>2, <4>4 DEF PostsFit
      <4>. QED BY <2>6, <4>2, <4>3, <4>4
    <3>. QED BY <3>1, <3>2
  <2>7. PostsFit(deed)'
    BY <2>6 DEF PostsFit, RowFits, EntersBasket
  <2>. QED BY <1>3, <1>b, <1>r, <2>1, <2>5, <2>7
<1>15. ASSUME NEW s \in BandCharts, NEW sl \in Stops, StopsMove(s, sl) PROVE OneDeedEach'
  <2>1. UNCHANGED <<heartbeats, bandRows, bandPosts>> /\ Uses("stops")
        /\ \A c \in BandCharts \ {s} : legsHeld'[c] = legsHeld[c]
    BY <1>15 DEF StopsMove, ServiceKeeps, BandKinds
  <2>2. Len(legsHeld'[s]) = Len(legsHeld[s])
        /\ \A k \in 1..Len(legsHeld[s]) : /\ legsHeld'[s][k].dir = legsHeld[s][k].dir
                                          /\ legsHeld'[s][k].px = legsHeld[s][k].px
                                          /\ legsHeld'[s][k].ticket = legsHeld[s][k].ticket
    BY <1>15, StopsMoved
  <2>3. ASSUME NEW c \in BandCharts, NEW k \in 1..Len(legsHeld'[c])
        PROVE  LegFits(deed, c, legsHeld'[c][k])
    <3>1. CASE c # s
      BY <1>2, <2>1, <2>3, <3>1 DEF LegsFit
    <3>2. CASE c = s
      <4>1. LegFits(deed, s, legsHeld[s][k]) /\ k \in 1..Len(legsHeld[s])
        BY <1>2, <2>2, <2>3, <3>2 DEF LegsFit
      <4>. QED BY <2>2, <3>2, <4>1 DEF LegFits
    <3>. QED BY <3>1, <3>2
  <2>4. LegsFit(deed)'
    BY <2>3 DEF LegsFit, LegFits
  <2>. QED BY <1>3, <1>b, <1>p, <1>r, <1>u, <2>1, <2>4
<1>. QED
  BY <1>5, <1>6, <1>7, <1>9, <1>10, <1>11, <1>12, <1>13, <1>14, <1>15 DEF BandsNext

-----------------------------------------------------------------------------
(* What follows *)

\* The rows that are read are the newest: with one of them, every later one of the
\* symbol.
LEMMA RecentIsNewest ==
  ASSUME NEW rows \in Seq(EventRows), NEW s, NEW limit \in Nat \ {0}
  PROVE  LET own == RowsOf(rows, s)
             latest == RecentTrades(rows, s, limit)
         IN /\ own # {} => latest # {} /\ Newest(latest) = Newest(own)
            /\ latest \intersect Entries(rows) # {}
                  => Newest(latest \intersect Entries(rows)) = LastEntry(rows, s)
<1>. DEFINE n == Len(rows)
            own == RowsOf(rows, s)
            latest == RecentTrades(rows, s, limit)
            later(i) == {j \in own : j > i}
<1>1. /\ n \in Nat /\ own \in SUBSET (1..n) /\ latest \in SUBSET (1..n)
      /\ latest = {i \in own : Cardinality(later(i)) < limit}
  BY RowsIn DEF RecentTrades
<1>. HIDE DEF n, own, latest
<1>0. \A i \in own : i \in Nat
  BY <1>1
<1>2. ASSUME NEW i \in latest, NEW k \in own, i <= k PROVE k \in latest
  <2>1. IsFiniteSet(1..n)
    BY <1>1, FS_Interval
  <2>2. IsFiniteSet(later(i)) /\ later(k) \subseteq later(i)
    <3>1. later(i) \subseteq 1..n
      BY <1>1
    <3>2. later(k) \subseteq later(i)
      <4>1. i \in own
        BY <1>1, <1>2
      <4>. SUFFICES ASSUME NEW j \in own, j > k PROVE j > i
        OBVIOUS
      <4>2. i \in Nat /\ j \in Nat /\ k \in Nat
        BY <1>0, <4>1
      <4>. QED BY <1>2, <4>2
    <3>. QED BY <2>1, <3>1, <3>2, FS_Subset
  <2>3. /\ Cardinality(later(k)) <= Cardinality(later(i))
        /\ Cardinality(later(k)) \in Nat /\ Cardinality(later(i)) \in Nat
    BY <2>2, FS_Subset, FS_CardinalityType
  <2>4. Cardinality(later(i)) < limit
    BY <1>1, <1>2
  <2>. HIDE DEF later
  <2>5. Cardinality(later(k)) < limit
    BY <2>3, <2>4
  <2>. QED BY <1>1, <2>5
<1>3. ASSUME own # {} PROVE latest # {} /\ Newest(latest) = Newest(own)
  <2>1. Newest(own) \in own /\ \A i \in own : i <= Newest(own)
    BY <1>1, <1>3, NewestOf
  <2>2. later(Newest(own)) = {}
    <3>. SUFFICES ASSUME NEW j \in own, j > Newest(own) PROVE FALSE
      OBVIOUS
    <3>. DEFINE m == Newest(own)
    <3>1. j \in Nat /\ m \in Nat /\ j <= m /\ j > m
      BY <1>0, <2>1
    <3>. HIDE DEF m
    <3>. QED BY <3>1
  <2>3. Cardinality(later(Newest(own))) < limit
    <3>1. Cardinality({}) = 0
      BY FS_EmptySet
    <3>. HIDE DEF later
    <3>. QED BY <2>2, <3>1
  <2>4. Newest(own) \in latest
    BY <1>1, <2>1, <2>3
  <2>5. \A i \in latest : i <= Newest(own)
    BY <1>1, <2>1
  <2>. QED BY <1>1, <2>4, <2>5, NewestIs
<1>4. ASSUME latest \intersect Entries(rows) # {}
      PROVE  Newest(latest \intersect Entries(rows)) = LastEntry(rows, s)
  <2>. DEFINE seen == latest \intersect Entries(rows)
              all == own \intersect Entries(rows)
  <2>1. /\ seen \in SUBSET (1..n) /\ all \in SUBSET (1..n) /\ seen \subseteq all /\ seen # {}
    BY <1>1, <1>4
  <2>2. PICK i : i \in seen
    BY <2>1
  <2>3. Newest(all) \in all /\ \A k \in all : k <= Newest(all)
    <3>1. all # {} /\ all \in SUBSET (1..n)
      BY <2>1
    <3>. HIDE DEF all
    <3>. QED BY <1>1, <3>1, NewestOf
  <2>4. Newest(all) \in latest
    BY <1>2, <2>1, <2>2, <2>3
  <2>5. Newest(all) \in seen /\ \A k \in seen : k <= Newest(all)
    BY <2>1, <2>3, <2>4
  <2>6. Newest(seen) = Newest(all)
    BY <1>1, <2>1, <2>5, NewestIs
  <2>. QED BY <2>6 DEF LastEntry, own
<1>. QED BY <1>3, <1>4 DEF own, latest

LEMMA BandsFollow ==
  BandsInv => BandsTypeOK /\ StreamAgrees /\ ClosedIsTheLast
<1>. SUFFICES ASSUME BandsInv PROVE BandsTypeOK /\ StreamAgrees /\ ClosedIsTheLast
  OBVIOUS
<1>. USE DEF BandsInv
<1>1. BandsTypeOK
  <2>1. Len(bandRows) \in Nat
    BY LenProperties DEF BandKinds
  <2>2. \A s \in BandCharts : told[s].row <= Len(bandRows)
    BY <2>1 DEF ToldOnRecord
  <2>3. \A s \in BandCharts : /\ Len(legsHeld[s]) <= LegCap[s]
                              /\ told[s].state \in {"none", "open", "closed"}
    BY DEF BandKinds, ToldOnRecord
  <2>4. unread <= QueueCap
    <3>1. QueueCap \in Nat /\ unread \in 0..QueueCap
      BY BandNumbers DEF BandKinds
    <3>. QED BY <3>1
  <2>5. /\ listening \in BOOLEAN /\ lostRows \subseteq BandCharts
        /\ lastBeat \in BandCharts \union {"none"}
    BY DEF BandKinds
  <2>. QED BY <2>2, <2>3, <2>4, <2>5 DEF BandsTypeOK
<1>2. StreamAgrees
  BY DEF ToldAgrees, StreamAgrees
<1>3. ClosedIsTheLast
  <2>. SUFFICES ASSUME NEW s \in BandCharts, heartbeats[s] = [known |-> TRUE, legs |-> <<>>],
                       legsHeld[s] = <<>>, bandPosts[s] = <<>>, s \notin lostRows,
                       RowsOf(bandRows, s) # {}
                PROVE  LET b == AskedBand(s)
                       IN /\ b.state = "closed"
                          /\ bandRows[Newest(RowsOf(bandRows, s))].event = "close"
                          /\ b.row # 0 => b.dir = bandRows[b.row].dir
    BY DEF ClosedIsTheLast
  <2>. DEFINE own == RowsOf(bandRows, s)
              latest == RecentTrades(bandRows, s, ClosedLookback)
              seen == latest \intersect Entries(bandRows)
              last == bandRows[Newest(own)]
  <2>1. ToldInOrder(s)
    BY DEF NothingMissed
  <2>2. /\ last.event = "close"
        /\ LastEntry(bandRows, s) # 0 => bandRows[LastEntry(bandRows, s)].dir = last.dir
    BY <2>1 DEF ToldInOrder, BasketClosed
  <2>3. bandRows \in Seq(EventRows) /\ ClosedLookback \in Nat \ {0}
    BY BandNumbers DEF BandKinds
  <2>4. latest # {} /\ Newest(latest) = Newest(own)
    BY <2>3, RecentIsNewest
  <2>5. seen # {} => Newest(seen) = LastEntry(bandRows, s)
    BY <2>3, RecentIsNewest
  <2>6. AskedBand(s) = ClosedBand(bandRows, s)
    BY <2>4 DEF AskedBand, BandOf, Band
  <2>. DEFINE b == ClosedBand(bandRows, s)
  <2>7. b.state = "closed" /\ b.dir = last.dir /\ b.row = Newest(seen)
    BY <2>2, <2>4 DEF ClosedBand
  <2>8. seen = {} => Newest(seen) = 0
    BY DEF Newest
  <2>. HIDE DEF b, last, seen, own
  <2>9. b.row # 0 => b.dir = bandRows[b.row].dir
    BY <2>2, <2>5, <2>7, <2>8
  <2>. QED BY <2>2, <2>6, <2>7, <2>9 DEF b, own, last
<1>. QED BY <1>1, <1>2, <1>3

\* The entry of the first leg is matched by its ticket, which no other leg has.
LEMMA TargetFollows == BandsInv => TargetIsOwn
<1>. SUFFICES ASSUME BandKinds, OneDeedEach, NEW s \in BandCharts,
                     heartbeats[s].known, AskedBand(s).state = "open",
                     \E i \in RecentTrades(bandRows, s, OpenLookback) \intersect Entries(bandRows) :
                        bandRows[i].ticket = heartbeats[s].legs[1].ticket
              PROVE  LET b == AskedBand(s)
                         first == heartbeats[s].legs[1]
                     IN /\ bandRows[b.row].ticket = first.ticket
                        /\ bandRows[b.row].dir = b.dir /\ bandRows[b.row].px = first.px
                        /\ b.legs = 1 => (b.tp - b.entry) * Up(b.dir) > 0
  BY DEF BandsInv, TargetIsOwn
<1>. DEFINE held == heartbeats[s].legs
            first == held[1]
            b == AskedBand(s)
            seen == RecentTrades(bandRows, s, OpenLookback) \intersect Entries(bandRows)
            mine == {i \in seen : bandRows[i].ticket = first.ticket}
            row == Newest(mine)
\* It is the band of the legs that were beaten.
<1>1. held \in Seq(BandLegs) /\ held # <<>> /\ b = OpenBand(bandRows, s, held)
  <2>1. b = Band(bandRows, s, held)
    BY DEF AskedBand, BandOf
  <2>2. ClosedBand(bandRows, s).state = "closed" /\ NoBand.state = "none"
    BY DEF ClosedBand, NoBand
  <2>3. held # <<>>
    BY <2>1, <2>2 DEF Band
  <2>4. heartbeats[s] \in BandBeats
    BY DEF BandKinds
  <2>. QED BY <2>1, <2>3, <2>4 DEF Band, BandBeats
<1>2. first \in BandLegs /\ Len(held) \in Nat \ {0} /\ 1 \in 1..Len(held)
  <2>. HIDE DEF held
  <2>1. Len(held) \in Nat \ {0}
    BY <1>1, EmptySeq
  <2>2. 1 \in 1..Len(held)
    BY <2>1
  <2>. QED BY <1>1, <2>1, <2>2, ElementOfSeq
<1>3. row \in mine /\ row # 0 /\ row \in 1..Len(bandRows) /\ row \in Entries(bandRows)
  <2>1. bandRows \in Seq(EventRows)
    BY DEF BandKinds
  <2>2. /\ Len(bandRows) \in Nat /\ Entries(bandRows) \in SUBSET (1..Len(bandRows))
    BY <2>1, RowsIn
  <2>3. mine \in SUBSET (1..Len(bandRows)) /\ mine # {}
    BY <2>2
  <2>. HIDE DEF mine
  <2>4. row \in mine /\ row # 0
    BY <2>2, <2>3, NewestOf
  <2>. QED BY <2>2, <2>3, <2>4 DEF mine
<1>4. OpenRow(bandRows, s, first) = row
  BY <1>3 DEF OpenRow
<1>. HIDE DEF row, seen, mine
\* Its row and its leg tell of the same deed.
<1>5. PICK n \in Nat : n = MaxFills - bdLeft.legs /\ n <= MaxFills
  BY BandNumbers, SMTT(30) DEF OneDeedEach, BandKinds
<1>6. PICK deed \in [1..n -> Deeds] : BeatsFit(deed) /\ RowsFit(deed)
  BY <1>5 DEF OneDeedEach
<1>7. /\ LegFits(deed, s, first) /\ RowFits(deed, bandRows[row])
  BY <1>2, <1>3, <1>6 DEF BeatsFit, RowsFit
<1>8. first.ticket \in 1..MaxFills /\ deed[first.ticket] = [chart |-> s, dir |-> first.dir, px |-> first.px]
  <2>1. first.ticket \in 1..n /\ deed[first.ticket] = [chart |-> s, dir |-> first.dir, px |-> first.px]
    BY <1>7 DEF LegFits
  <2>2. MaxFills \in Nat
    BY BandNumbers
  <2>. QED BY <1>5, <2>1, <2>2
<1>9. bandRows[row].ticket = first.ticket /\ EntersBasket(bandRows[row])
  BY <1>3 DEF mine, Entries
<1>10. /\ bandRows[row].dir = first.dir /\ bandRows[row].px = first.px
       /\ bandRows[row].tp \in {0, first.px + Up(first.dir) * TargetGap}
  <2>1. /\ deed[first.ticket] = [chart |-> bandRows[row].symbol, dir |-> bandRows[row].dir,
                                  px |-> bandRows[row].px]
        /\ bandRows[row].tp \in {0, bandRows[row].px + Up(bandRows[row].dir) * TargetGap}
    BY <1>7, <1>8, <1>9 DEF RowFits
  <2>2. bandRows[row].dir = first.dir /\ bandRows[row].px = first.px
    BY <1>8, <2>1
  <2>. QED BY <2>1, <2>2
<1>11. first.px \in Int /\ first.sl \in Int /\ first.dir \in {"BUY", "SELL"}
  BY <1>2 DEF BandLegs
<1>. DEFINE entry == Total([k \in DOMAIN held |-> held[k].px]) \div Len(held)
            r == IF first.sl > 0 THEN Distance(entry, first.sl) ELSE 0
            beyond(d) == entry + Up(first.dir) * d
            tp == IF bandRows[row].tp > 0 THEN bandRows[row].tp
                  ELSE IF r > 0 THEN beyond((3 * r) \div 2) ELSE beyond(PctDelta)
<1>12. /\ b.row = row /\ b.dir = first.dir /\ b.entry = entry /\ b.tp = tp
       /\ b.legs = Len(held)
  <2>. DEFINE shown == OpenRow(bandRows, s, first)
              onRecord == IF shown = 0 THEN 0 ELSE bandRows[shown].tp
  <2>1. LET open == OpenBand(bandRows, s, held)
        IN /\ open.row = shown /\ open.dir = first.dir /\ open.entry = entry
           /\ open.legs = Len(held)
    BY DEF OpenBand
  <2>2. OpenBand(bandRows, s, held).tp
        = IF onRecord > 0 THEN onRecord
          ELSE IF r > 0 THEN beyond((3 * r) \div 2) ELSE beyond(PctDelta)
    BY DEF OpenBand
  <2>3. shown = row /\ onRecord = bandRows[row].tp
    BY <1>3, <1>4
  <2>. HIDE DEF shown, onRecord, entry, r, beyond, first, row, held, b
  <2>4. tp = IF onRecord > 0 THEN onRecord
             ELSE IF r > 0 THEN beyond((3 * r) \div 2) ELSE beyond(PctDelta)
    BY <2>3
  <2>. QED BY <1>1, <2>1, <2>2, <2>3, <2>4
<1>. HIDE DEF b
<1>13. ASSUME Len(held) = 1 PROVE (tp - entry) * Up(first.dir) > 0
  <2>1. entry = first.px
    <3>. DEFINE px == [k \in DOMAIN held |-> held[k].px]
    <3>1. DOMAIN held = 1..1
      BY <1>1, <1>13, LenProperties
    <3>2. px \in [1..1 -> Int] /\ px[1] = first.px
      BY <1>11, <3>1
    <3>. HIDE DEF px
    <3>3. PICK f \in [0..1 -> Int] : /\ f[0] = 0 /\ Total(px) = f[1]
                                     /\ \A k \in 1..1 : f[k] = f[k - 1] + px[k]
      <4>1. 1 \in Nat /\ px \in [1..1 -> Int]
        BY <3>2
      <4>. QED BY <4>1, SumUp
    <3>4. f[1] = f[0] + px[1]
      BY <3>3
    <3>5. Total(px) = first.px
      BY <1>11, <3>2, <3>3, <3>4
    <3>6. first.px \div 1 = first.px
      BY <1>11
    <3>. QED BY <1>13, <3>5, <3>6 DEF px
  <2>. HIDE DEF entry
  <2>2. r \in Nat
    <3>1. \A x, y \in Int : Distance(x, y) \in Nat
      BY DEF Distance
    <3>2. entry \in Int /\ first.sl \in Int
      BY <1>11, <2>1
    <3>. HIDE DEF first
    <3>. QED BY <3>1, <3>2
  <2>. HIDE DEF r
  <2>3. PctDelta \in Nat \ {0} /\ TargetGap \in Nat \ {0}
    BY BandNumbers
  <2>4. r > 0 => (3 * r) \div 2 \in Nat \ {0}
    BY <2>2
  <2>5. \E d \in Nat \ {0} : tp = first.px + Up(first.dir) * d
    BY <1>10, <2>1, <2>3, <2>4
  <2>6. PICK d \in Nat \ {0} : tp = first.px + Up(first.dir) * d
    BY <2>5
  <2>. HIDE DEF tp
  <2>7. CASE first.dir = "BUY"
    BY <1>11, <2>1, <2>6, <2>7 DEF Up
  <2>8. CASE first.dir = "SELL"
    BY <1>11, <2>1, <2>6, <2>8 DEF Up
  <2>. QED BY <1>11, <2>7, <2>8
<1>. HIDE DEF entry, r, tp, held
<1>. QED BY <1>9, <1>10, <1>12, <1>13 DEF b, held

\* What a stream was told last is what a request is answered; an open band has the
\* target of its own first leg; and a flat chart whose events all arrived shows the
\* basket that closed last, in its direction.
THEOREM BandsHold ==
  BandsSpec => [](BandsTypeOK /\ StreamAgrees /\ TargetIsOwn /\ ClosedIsTheLast)
<1>1. BandsInv /\ [BandsNext]_bandVars => BandsInv'
  BY KindsHold, RecordHolds, BeatsHold, AgreementHolds, NothingMissedHolds, TicketsHold
     DEF BandsInv
<1>2. BandsInv => BandsTypeOK /\ StreamAgrees /\ TargetIsOwn /\ ClosedIsTheLast
  BY BandsFollow, TargetFollows
<1>. QED BY <1>1, <1>2, BandsStart, PTL DEF BandsSpec

-----------------------------------------------------------------------------
(* The records together                                                    *)

\* However the starts of the data base, the analyses, and the events and heartbeats
\* of the charts interleave, and whichever statements of a start and writes of an
\* analysis fail: a start that succeeds serves what the file holds, with every
\* column and name whose own statement did not fail, and current statistics; memory,
\* table and dashboard agree on the candles, as ChartIsWhole says; and a band is the
\* same pushed and asked for.
THEOREM RecordsServe == StoreSpec /\ CandlesSpec /\ BandsSpec => []ServesTheFile
<1>1. /\ StartedIsComplete /\ StatsAreFresh /\ CandlesAgree
      /\ StreamAgrees /\ TargetIsOwn /\ ClosedIsTheLast
      => ServesTheFile
  BY DEF ServesTheFile
<1>. QED BY <1>1, StoreServes, CandlesHold, BandsHold, PTL
=============================================================================
