----------------------------- MODULE MCService -----------------------------
(***************************************************************************)
(* The parts around the proposal rail: the agent, the back-test jobs, the  *)
(* switching of lanes, the launcher, the messages in Telegram, the live    *)
(* feed and its viewers.  They share no state that their properties depend *)
(* on, so that a behaviour is about one of them, `focus`; the others stay  *)
(* as they are.                                                            *)
(***************************************************************************)
EXTENDS Agent, BacktestJobs, LaneSwitch, Launcher, TelegramTasks, Feed, Viewers

VARIABLE focus

MCAnswers == {<<"pause_entries", "bearish">>, <<"close_all", "bullish">>}
MCLastBar == <<2, 1>>
MCStarts == {<<[level |-> "L3", allowLive |-> TRUE, bypass |-> FALSE, laneSwitch |-> FALSE],
               "live">>}
MCInputLane == [c \in Charts |-> IF c = Gold THEN "iziGold15" ELSE "iziBit15"]
MCFlags == {{}, {"dry"}, {"dry", "restart"}, {"restart"}, {"noInstall"}, {"skipMt5"}, {"stop"}}

\* The state of every part but one.
AllVars == <<agentVars, btVars, laneVars, launcherVars, telegramVars, feedVars, viewersVars, focus>>
AfterAgent == <<btVars, laneVars, launcherVars, telegramVars, feedVars, viewersVars, focus>>
ButBacktests == <<agentVars, laneVars, launcherVars, telegramVars, feedVars, viewersVars, focus>>
ButLanes == <<agentVars, btVars, launcherVars, telegramVars, feedVars, viewersVars, focus>>
ButLauncher == <<agentVars, btVars, laneVars, telegramVars, feedVars, viewersVars, focus>>
ButTelegram == <<agentVars, btVars, laneVars, launcherVars, feedVars, viewersVars, focus>>
ButFeed == <<agentVars, btVars, laneVars, launcherVars, telegramVars, viewersVars, focus>>
ButViewers == <<agentVars, btVars, laneVars, launcherVars, telegramVars, feedVars, focus>>

Focuses == {"agent", "slots", "backtests", "lanes", "launcher", "ticker", "pin", "poller", "feed",
            "viewers"}

\* Where a part may start in several ways, the parts out of focus start in one.
\* Nothing tells the two channels apart, so the first is the linked one.
ServiceInit ==
    /\ focus \in Focuses
    /\ AgentInit /\ BacktestInit /\ LaneInit /\ LauncherInit /\ TelegramInit /\ FeedInit
    /\ ViewersInit
    /\ agBudget.posts = IF focus = "slots" THEN 3 ELSE 2
    /\ focus # "backtests" => enoughBars
    /\ focus # "lanes" => ~dynamic
    /\ focus # "launcher" => system = "Linux" /\ ~terminal.installed
    /\ linkedChannel = 1 /\ (focus # "viewers" => memberOf = {})

AgentPart == \/ focus = "agent" /\ AgentNext /\ requests'[2] = NoRequest
             \/ focus = "slots" /\ (AnalyzeStep \/ JobStep \/ WorldStep)

Telegram == ApplyTelegram \/ TelegramRestart
TelegramPart == \/ focus = "ticker" /\ (TickerStep \/ BasketOpensOrCloses \/ Telegram)
                \/ focus = "pin" /\ (PinnedStep \/ Telegram)
                \/ focus = "poller" /\ (PollerStep \/ UpdateArrives \/ Telegram)

ServiceNext ==
    \/ AgentPart /\ UNCHANGED AfterAgent
    \/ focus = "backtests" /\ BacktestNext /\ UNCHANGED ButBacktests
    \/ focus = "lanes" /\ LaneNext /\ UNCHANGED ButLanes
    \/ focus = "launcher" /\ LauncherNext /\ UNCHANGED ButLauncher
    \/ TelegramPart /\ UNCHANGED ButTelegram
    \/ focus = "feed" /\ FeedNext /\ UNCHANGED ButFeed
    \/ focus = "viewers" /\ ViewersNext /\ UNCHANGED ButViewers

\* AgentFairness, of the steps of this specification.
InAgent == focus = "agent" /\ UNCHANGED AfterAgent
ServiceFairness ==
    WF_AllVars(InAgent /\ SupervisorGoesOn) /\ WF_AllVars(InAgent /\ LoopGoesOn)

ServiceSpec == ServiceInit /\ [][ServiceNext]_AllVars /\ ServiceFairness

ServiceTypeOK ==
    /\ AgentTypeOK /\ BacktestTypeOK /\ LaneTypeOK /\ LauncherTypeOK /\ TelegramTypeOK
    /\ FeedTypeOK /\ ViewersTypeOK

GradedWhenLatest == focus = "agent" => EverySignalGraded
=============================================================================
