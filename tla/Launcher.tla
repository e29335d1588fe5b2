----------------------------- MODULE Launcher -----------------------------
(***************************************************************************)
(* launch.py: one run prepares the host, starts the containers, applies    *)
(* the onboarding, compiles the EA, starts the terminal, the feed bridge   *)
(* and the relay, stage after stage.  The owner may interrupt it between   *)
(* any two steps and start it again with other flags, the host lives on.   *)
(* Times are edits of the repository.                                      *)
(***************************************************************************)
EXTENDS Naturals

CONSTANTS
    Systems,      \* subset of {"Linux", "Windows"}
    FlagSets,     \* sets of flags a run may be started with
    MaxRunsOfLauncher, MaxMishaps \* bounds of the run

ASSUME LauncherAssumption ==
    /\ Systems \subseteq {"Linux", "Windows"}
    /\ FlagSets \subseteq SUBSET {"dry", "noInstall", "skipMt5", "restart", "stop"}
    /\ {MaxRunsOfLauncher, MaxMishaps} \subseteq Nat

VARIABLES
    system,
    tools,        \* docker, wine and winetricks are there
    env,          \* service/.env: [exists, key, tunnel]; key 0 is an empty FEED_KEY
    stack,        \* [up, key, tunnel]: the containers, the key they were created with
    onboarded,    \* the profile names an ngrok token and domain
    terminal,     \* [installed, running, unsaved, saved]: the terminal's settings
    ea,           \* [main, include, copied, built, at]: edit times of the sources in the
                  \* repository, what was copied, what iziBot.ex5 was built from, and when
    python,       \* Python for the bridge: "none", "bare" or "ready" (MetaTrader5)
    bridge,       \* [count, key]: bridge processes and the key of the newest
    relay,        \* the relay runs
    launch,       \* [pc, flags, said]
    lnLeft        \* runs and mishaps still to come

host == <<tools, env, stack, terminal, ea, bridge, relay>>
launcherVars == <<system, tools, env, stack, onboarded, terminal, ea, python, bridge, relay,
                  launch, lnLeft>>

NoBridge == [count |-> 0, key |-> 0]
Idle == [pc |-> "idle", flags |-> {}, said |-> "nothing"]
LauncherInit ==
    /\ system \in Systems
    /\ tools = FALSE /\ env = [exists |-> FALSE, key |-> 0, tunnel |-> FALSE]
    /\ stack = [up |-> FALSE, key |-> 0, tunnel |-> FALSE]
    /\ onboarded = FALSE
    /\ \E there \in BOOLEAN :
          terminal = [installed |-> there, running |-> FALSE, unsaved |-> FALSE, saved |-> FALSE]
    /\ ea = [main |-> 1, include |-> 1, copied |-> 0, built |-> 0, at |-> 0]
    /\ python = IF system = "Windows" THEN "bare" ELSE "none"
    /\ bridge = NoBridge /\ relay = FALSE
    /\ launch = Idle
    /\ lnLeft = [runs |-> MaxRunsOfLauncher, mishaps |-> MaxMishaps]

On(pc) == launch.pc = pc
Given(flag) == flag \in launch.flags
Dry == Given("dry")
Then(pc) == launch' = [launch EXCEPT !.pc = pc]
End == launch' = Idle
Same == UNCHANGED <<system, onboarded>>
NoMishap == UNCHANGED lnLeft
Mishap == /\ lnLeft.mishaps > 0
          /\ lnLeft' = [lnLeft EXCEPT !.mishaps = @ - 1]

Run(flags) ==
    /\ On("idle") /\ lnLeft.runs > 0
    /\ lnLeft' = [lnLeft EXCEPT !.runs = @ - 1]
    /\ launch' = [pc |-> IF "stop" \in flags THEN "stop" ELSE "packages",
                  flags |-> flags, said |-> "nothing"]
    /\ UNCHANGED <<host, python>> /\ Same

-----------------------------------------------------------------------------
(* stop_mt5: a graceful close saves the settings; on Linux a terminal that *)
(* does not close in 30 s is killed with all that runs under Wine, and     *)
(* loses what was not saved.                                               *)

Closed == [terminal EXCEPT !.running = FALSE, !.saved = @ \/ terminal.unsaved,
                           !.unsaved = FALSE]
Killed == [terminal EXCEPT !.running = FALSE, !.unsaved = FALSE]
StopMt5 ==
    \/ (Dry \/ ~terminal.running) /\ UNCHANGED <<terminal, bridge>> /\ NoMishap
    \/ ~Dry /\ terminal.running /\ terminal' = Closed /\ UNCHANGED bridge /\ NoMishap
    \/ /\ ~Dry /\ terminal.running /\ Mishap
       /\ \/ system = "Linux" /\ terminal' = Killed /\ bridge' = NoBridge
          \/ system = "Windows" /\ UNCHANGED <<terminal, bridge>>

\* --stop: the terminal first, then the containers.
StopAll ==
    /\ On("stop")
    /\ StopMt5 /\ Then("down")
    /\ UNCHANGED <<tools, env, stack, ea, python, relay>> /\ Same
ComposeDown ==
    /\ On("down") /\ End
    /\ stack' = IF Dry THEN stack ELSE [up |-> FALSE, key |-> 0, tunnel |-> FALSE]
    /\ UNCHANGED <<tools, env, terminal, ea, python, bridge, relay>> /\ Same /\ NoMishap

-----------------------------------------------------------------------------
(* Packages, .env and the containers *)

CheckPackages ==
    /\ On("packages")
    /\ \/ (tools \/ Dry) /\ Then("env") /\ UNCHANGED tools
       \/ ~tools /\ ~Dry /\ Given("noInstall") /\ End /\ UNCHANGED tools
       \/ ~tools /\ ~Dry /\ ~Given("noInstall") /\ Then("env") /\ tools' = TRUE
    /\ UNCHANGED <<env, stack, terminal, ea, python, bridge, relay>> /\ Same /\ NoMishap

\* ensure_env: the file from the example, then the key that it lacks.
CopyEnv ==
    /\ On("env") /\ Then("key")
    /\ env' = IF Dry THEN env ELSE [env EXCEPT !.exists = TRUE]
    /\ UNCHANGED <<tools, stack, terminal, ea, python, bridge, relay>> /\ Same /\ NoMishap

NextKey == 1 + MaxRunsOfLauncher - lnLeft.runs
\* Mutant: every run makes a key.
GenerateKey_Always ==
    /\ On("key") /\ Then("compose")
    /\ env' = IF Dry THEN env ELSE [env EXCEPT !.key = NextKey]
    /\ UNCHANGED <<tools, stack, terminal, ea, python, bridge, relay>> /\ Same /\ NoMishap
GenerateKey ==
    /\ On("key") /\ Then("compose")
    /\ env' = IF Dry \/ env.key # 0 THEN env ELSE [env EXCEPT !.key = NextKey]
    /\ UNCHANGED <<tools, stack, terminal, ea, python, bridge, relay>> /\ Same /\ NoMishap

\* Compose creates the containers anew when .env has changed; a failure or
\* services that do not get healthy in time end the run.
ComposeUp ==
    /\ On("compose")
    /\ \/ Dry /\ Then("integrations") /\ UNCHANGED stack /\ NoMishap
       \/ /\ ~Dry /\ NoMishap /\ Then("integrations")
          /\ stack' = [stack EXCEPT !.up = TRUE, !.key = env.key]
       \/ /\ ~Dry /\ Mishap /\ End
          /\ stack' \in {stack, [stack EXCEPT !.up = TRUE, !.key = env.key]}
    /\ UNCHANGED <<tools, env, terminal, ea, python, bridge, relay>> /\ Same

\* configure_onboarding_integrations: the profile is read from the container.
NoTunnel ==
    /\ On("integrations") /\ ~(stack.up /\ onboarded) /\ Then("detect")
    /\ stack' = IF Dry THEN stack ELSE [stack EXCEPT !.tunnel = FALSE]
    /\ UNCHANGED <<tools, env, terminal, ea, python, bridge, relay>> /\ Same /\ NoMishap
SyncEnv ==
    /\ On("integrations") /\ stack.up /\ onboarded
    /\ IF Dry THEN Then("detect") /\ UNCHANGED env
              ELSE Then("tunnel") /\ env' = [env EXCEPT !.tunnel = TRUE]
    /\ UNCHANGED <<tools, stack, terminal, ea, python, bridge, relay>> /\ Same /\ NoMishap
\* main is created anew; when it does not recover the tunnel is left alone, and
\* ngrok may fail to start.
StartTunnel ==
    /\ On("tunnel") /\ Then("detect")
    /\ \/ stack' = [stack EXCEPT !.key = env.key, !.tunnel = TRUE] /\ NoMishap
       \/ /\ stack' \in {[stack EXCEPT !.key = env.key, !.up = FALSE],
                         [stack EXCEPT !.key = env.key, !.tunnel = FALSE]}
          /\ Mishap
    /\ UNCHANGED <<tools, env, terminal, ea, python, bridge, relay>> /\ Same

-----------------------------------------------------------------------------
(* The terminal and the EA *)

\* On Linux the installer is run, and may leave the terminal for later; on
\* Windows the terminal must be there.
DetectMt5 ==
    /\ On("detect")
    /\ \/ /\ Given("skipMt5") \/ terminal.installed \/ (Dry /\ system = "Linux")
          /\ Then("prepare") /\ UNCHANGED terminal /\ NoMishap
       \/ /\ ~Given("skipMt5") /\ ~terminal.installed /\ system = "Windows"
          /\ End /\ UNCHANGED terminal /\ NoMishap
       \/ /\ ~Given("skipMt5") /\ ~terminal.installed /\ ~Dry /\ system = "Linux"
          /\ Then("prepare")
          /\ \/ terminal' = [terminal EXCEPT !.installed = TRUE] /\ NoMishap
             \/ Mishap /\ UNCHANGED terminal
    /\ UNCHANGED <<tools, env, stack, ea, python, bridge, relay>> /\ Same

HasTerminal == terminal.installed /\ ~Given("skipMt5")
StopForRestart ==
    /\ On("prepare")
    /\ IF HasTerminal /\ Given("restart") THEN StopMt5
       ELSE UNCHANGED <<terminal, bridge>> /\ NoMishap
    /\ Then(IF HasTerminal THEN "copy" ELSE "bridge")
    /\ UNCHANGED <<tools, env, stack, ea, python, relay>> /\ Same

\* The data folder may not be there yet.
CopySources ==
    /\ On("copy")
    /\ \/ Then("compile") /\ ea' = IF Dry THEN ea ELSE [ea EXCEPT !.copied = ea.main]
       \/ Then("start") /\ UNCHANGED ea
    /\ UNCHANGED <<tools, env, stack, terminal, python, bridge, relay>> /\ Same /\ NoMishap

\* MetaEditor may exit 0 and build nothing.  Fresh is an iziBot.ex5 at least as
\* new as iziBot.mq5, whose time a copy keeps; the includes are not looked at.
\* Without an editor, or a data folder, nothing is built or said; on Windows no
\* editor is ever found.  A dry run says "fresh" without a look.
Now == IF ea.main > ea.include THEN ea.main ELSE ea.include
Verdict(built) == IF built.at >= built.copied THEN "fresh" ELSE "stale"
Compile ==
    /\ On("compile")
    /\ LET built == [ea EXCEPT !.built = ea.copied, !.at = Now]
       IN \/ /\ ~Dry /\ system = "Linux" /\ NoMishap
             /\ ea' = built
             /\ launch' = [launch EXCEPT !.pc = "start", !.said = Verdict(built)]
          \/ /\ ~Dry /\ system = "Linux" /\ Mishap
             /\ launch' = [launch EXCEPT !.pc = "start", !.said = Verdict(ea)]
             /\ UNCHANGED ea
          \/ /\ Dry /\ system = "Linux" /\ NoMishap
             /\ launch' = [launch EXCEPT !.pc = "start", !.said = "fresh"]
             /\ UNCHANGED ea
          \/ Then("start") /\ UNCHANGED ea /\ NoMishap
    /\ UNCHANGED <<tools, env, stack, terminal, python, bridge, relay>> /\ Same

\* launch_mt5: a running terminal is left alone unless a restart was asked for,
\* and then it is stopped first, once more when the stage before did not.
LaunchMt5 ==
    /\ On("start")
    /\ \/ /\ Dry \/ (terminal.running /\ ~Given("restart"))
          /\ Then("bridge") /\ UNCHANGED <<terminal, bridge>> /\ NoMishap
       \/ /\ ~Dry /\ ~terminal.running /\ UNCHANGED bridge /\ NoMishap
          /\ Then("bridge") /\ terminal' = [terminal EXCEPT !.running = TRUE]
       \/ ~Dry /\ terminal.running /\ Given("restart") /\ StopMt5 /\ Then("started")
    /\ UNCHANGED <<tools, env, stack, ea, python, relay>> /\ Same
StartAgain ==
    /\ On("started") /\ Then("bridge")
    /\ terminal' = [terminal EXCEPT !.running = TRUE]
    /\ UNCHANGED <<tools, env, stack, ea, python, bridge, relay>> /\ Same /\ NoMishap

-----------------------------------------------------------------------------
(* The bridge, the relay, and the verdict *)

\* On Linux one bridge, and --no-install installs nothing; on Windows every
\* run starts another, and pip is run in any case.
BridgeBarred == system = "Linux" /\ (bridge.count > 0 \/ (Given("noInstall") /\ python # "ready"))
SkipBridge ==
    /\ On("bridge") /\ (Given("skipMt5") \/ BridgeBarred)
    /\ Then(IF Given("skipMt5") THEN "verify" ELSE "relay")
    /\ UNCHANGED <<host, python>> /\ Same /\ NoMishap

InstallPython ==
    /\ On("bridge") /\ ~Given("skipMt5") /\ ~BridgeBarred /\ python = "none"
    /\ \/ Dry /\ Then("relay") /\ UNCHANGED python /\ NoMishap
       \/ ~Dry /\ python' = "bare" /\ Then("bridge") /\ NoMishap
       \/ ~Dry /\ Mishap /\ Then("relay") /\ UNCHANGED python
    /\ UNCHANGED host /\ Same

\* pip is run on Linux without looking at --dry-run.
InstallPackage ==
    /\ On("bridge") /\ ~Given("skipMt5") /\ ~BridgeBarred /\ python = "bare"
    /\ \/ /\ ~Dry \/ system = "Linux"
          /\ python' = "ready" /\ Then("bridge") /\ NoMishap
       \/ /\ Then("relay") /\ UNCHANGED python
          /\ IF Dry /\ system = "Windows" THEN NoMishap ELSE Mishap
    /\ UNCHANGED host /\ Same

StartBridge ==
    /\ On("bridge") /\ ~Given("skipMt5") /\ ~BridgeBarred /\ python = "ready"
    /\ Then("relay")
    /\ bridge' = IF Dry \/ env.key = 0 THEN bridge
                 ELSE [count |-> bridge.count + 1, key |-> env.key]
    /\ UNCHANGED <<tools, env, stack, terminal, ea, python, relay>> /\ Same /\ NoMishap

StartRelay ==
    /\ On("relay") /\ Then("verify")
    /\ relay' = (relay \/ ~Dry)
    /\ UNCHANGED <<tools, env, stack, terminal, ea, python, bridge>> /\ Same /\ NoMishap

\* verify_ea, the seeding of candles and the summary write nothing kept here.
Verify == On("verify") /\ End /\ UNCHANGED <<host, python>> /\ Same /\ NoMishap

\* Ctrl-C, or an error that main() reports and ends with.
Interrupt == ~On("idle") /\ End /\ Mishap /\ UNCHANGED <<host, python>> /\ Same

-----------------------------------------------------------------------------
(* The owner and the host, between runs *)

OwnerOrHost ==
    /\ On("idle") /\ Mishap /\ UNCHANGED <<system, tools, env, launch>>
    /\ \/ /\ onboarded' = ~onboarded
          /\ UNCHANGED <<stack, terminal, ea, python, bridge, relay>>
       \/ /\ ea' \in {[ea EXCEPT !.main = Now + 1], [ea EXCEPT !.include = Now + 1]}
          /\ UNCHANGED <<stack, onboarded, terminal, python, bridge, relay>>
       \/ /\ terminal.running
          /\ terminal' \in {Killed, [terminal EXCEPT !.unsaved = TRUE]}
          /\ UNCHANGED <<stack, onboarded, ea, python, bridge, relay>>
       \/ /\ bridge' = NoBridge /\ relay' = FALSE
          /\ UNCHANGED <<stack, onboarded, terminal, ea, python>>

LauncherStep ==
    \/ StopAll \/ ComposeDown \/ CheckPackages \/ CopyEnv \/ GenerateKey \/ ComposeUp
    \/ NoTunnel \/ SyncEnv \/ StartTunnel \/ DetectMt5 \/ StopForRestart \/ CopySources
    \/ Compile \/ LaunchMt5 \/ StartAgain \/ SkipBridge \/ InstallPython \/ InstallPackage
    \/ StartBridge \/ StartRelay \/ Verify \/ Interrupt
LauncherNext == LauncherStep \/ OwnerOrHost \/ \E flags \in FlagSets : Run(flags)

LauncherSpec == LauncherInit /\ [][LauncherNext]_launcherVars /\ WF_launcherVars(LauncherStep)

-----------------------------------------------------------------------------
(* Properties *)

LauncherTypeOK ==
    /\ {tools, onboarded, relay, env.exists, env.tunnel, stack.up, stack.tunnel} \subseteq BOOLEAN
    /\ {env.key, stack.key, bridge.key} \subseteq 0..(1 + MaxRunsOfLauncher)
    /\ python \in {"none", "bare", "ready"} /\ launch.said \in {"nothing", "fresh", "stale"}
    /\ ea.copied <= ea.main /\ ea.built <= ea.copied
    /\ env.key # 0 => env.exists

\* A bridge that runs sends the key the containers check: it never starts
\* before they have it, and no run makes a second key, whatever the run before
\* it left half done.  A run, not a dry one, that says iziBot.ex5 is fresh has the newest
\* iziBot.mq5 in it; older includes may still be compiled in.
KeysAgree == bridge.count > 0 /\ stack.up => bridge.key = stack.key
FreshHasMain == launch.said = "fresh" /\ ~Dry => ea.built = ea.main

\* The bridge and the EA that run are the ones the launcher reports.
RunsWhatItSays == KeysAgree /\ FreshHasMain
=============================================================================
