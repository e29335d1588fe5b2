CONSTANTS
 Threads = {1, 2}
 Series = {1, 2}
 LastBar <- MCLastBar
 Horizon = 1
 Answers <- MCAnswers
 AgentStarts <- MCStarts
 PerHour = 1
 PerDay = 2
 HourSpan = 0
 DaySpan = 1
 MinResolved = 1
 MinAccuracyPct = 50
 MaxPosts = 3
 MaxTrouble = 1
 KeepRuns = 2
 MaxRuns = 4
 MaxCrashes = 2
 MaxPurges = 2
 InputLane <- MCInputLane
 Dwell = 1
 MaxSwitches = 2
 Ids = {"iziGold5", "iziGold15", "iziBit5", "iziBit15", "stub", "izi5", "izi15", "bit9"}
 BitNames = {"iziBit5", "iziBit15", "bit9"}
 FlagSets <- MCFlags
 Systems = {"Linux", "Windows"}
 MaxRunsOfLauncher = 2
 MaxMishaps = 2
 Linked = TRUE
 MaxUpdates = 3
 MaxCycles = 3
 MaxTelegramTrouble = 2
 Backfill = 6
 MaxCandles = 6
 MaxFeedBars = 7
 MaxFeedTrouble = 1
 Channels = {1, 2}
 Checks = {1, 2}
 CredTtl = 1
 MemberTtl = 2
 MaxViewerTicks = 3
 MaxViewerEvents = 2
SPECIFICATION ServiceSpec
INVARIANTS ServiceTypeOK SlotsMatchJobs RunsAccounted SafeUnlessOverlapped RunsWhatItSays
           NothingTwice RingSound AdmissionIsRecent ActionsBounded
PROPERTIES GradedWhenLatest
CHECK_DEADLOCK FALSE
