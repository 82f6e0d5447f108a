---------------------------- MODULE Initialisation -----------------------------
(***************************************************************************)
(* `zylos init` and `zylos runtime` (cli/commands/init.js, runtime.js,     *)
(* cli/lib/runtime-setup.js, pm2.js): how a host is set up, set up again   *)
(* and moved to another runtime, step by step, with kills between steps.   *)
(* No lock keeps two such commands apart and nothing below would survive   *)
(* their overlap: here one command runs at a time.                         *)
(*                                                                         *)
(* A behaviour starts on an empty host.  Consent, flags that do not parse  *)
(* and missing packages end a command before it changes anything and are   *)
(* left out, and so are the time zone, the PATH, Caddy's files, the web    *)
(* password and PM2's start at boot, on which nothing here depends.        *)
(* config.json is read, changed and written in one step.  What the         *)
(* instructions go through is SplitInstructions.  Codex keeps its key in a *)
(* file of its own and is authenticated or not.                            *)
(***************************************************************************)
EXTENDS Naturals, Sequences

CONSTANTS
    MaxSetups,       \* bound on commands run
    MaxSetupTroubles \* bound on kills, failed steps and services that crash

ASSUME SetupAssumption == {MaxSetups, MaxSetupTroubles} \subseteq Nat

AgentRuntimes == {"claude", "codex"}
CoreServices == {"monitor", "dispatcher"}
Markers == <<"skills", "config", "components">>
Complete == {Markers[i] : i \in DOMAIN Markers}
Keys == {"none", "good", "bad"}

VARIABLES
    present,      \* which of the three directories and files exist that mark an installation
    config,       \* config.json: the runtime and the threshold for new sessions
    synced,       \* the core skills are in their directory
    ecosystem,    \* pm2/ecosystem.config.cjs
    instructions, \* "none", "files" without the marker of the split, or "active"
    secrets,      \* Claude's credential in ~/.claude/settings.json and in .env
    status,       \* agent-status.json: the runtime whose monitor has written it
    running,      \* the runtime each service has read when it started
    setup,        \* what each command does
    ready,        \* an init has ended well, and nothing was reset since
    chosen,       \* the runtime of the last command that ended well
    lost,         \* what a kill, a failure, a reset or an overlap has left undone
    setupsRun, setupTroubles \* bounded

setupVars == <<present, config, synced, ecosystem, instructions, secrets, status, running,
               setup, ready, chosen, lost, setupsRun, setupTroubles>>

NoConfig == [runtime |-> "none", threshold |-> 0]
Unstarted == [at |-> "idle", kind |-> "init", silent |-> TRUE, existing |-> "none",
              selected |-> "claude", complete |-> FALSE, key |-> "none", pending |-> FALSE,
              authenticated |-> FALSE]
RuntimeOf(c) == IF c.runtime = "none" THEN "claude" ELSE c.runtime

InitTypeOK ==
    /\ present \subseteq Complete
    /\ config.runtime \in AgentRuntimes \cup {"none"} /\ config.threshold \in {0, 30, 70}
    /\ instructions \in {"none", "files", "active"}
    /\ secrets.settings \in Keys /\ secrets.env \in Keys
    /\ status \in AgentRuntimes \cup {"none"}
    /\ \A x \in CoreServices : running[x] \in AgentRuntimes \cup {"stopped"}
    /\ setup.at = "idle" <=> setup = Unstarted
    \* config.json and components.json are inside the directory of the configuration.
    /\ config # NoConfig => "config" \in present
    /\ setupsRun \in 0..MaxSetups /\ setupTroubles \in 0..MaxSetupTroubles

SetupInit ==
    /\ present = {} /\ config = NoConfig /\ synced = FALSE /\ ecosystem = FALSE
    /\ instructions = "none" /\ status = "none"
    /\ secrets = [settings |-> "none", env |-> "none"]
    /\ running = [x \in CoreServices |-> "stopped"]
    /\ setup = Unstarted
    /\ ready = FALSE /\ chosen = "none" /\ lost = {}
    /\ setupsRun = 0 /\ setupTroubles = 0

-----------------------------------------------------------------------------
\* The order of the steps after the authentication, on a host that is complete and on one that
\* is not, and of a switch.
StepsOf(w) ==
    CASE w.kind = "switch" ->
           <<"settings", "env", "gate", "runtime", "health", "monitor", "dispatcher">>
      [] w.kind = "init" /\ w.complete ->
           <<"skills", "runtime", "threshold", "deploy", "env", "health", "delete",
             "start", "bypass">>
      [] w.kind = "init" /\ ~w.complete ->
           <<"dirs", "runtime", "threshold", "deploy", "env", "skills", "health",
             "delete", "start", "bypass">>

After(w) ==
    LET steps == StepsOf(w)
        i == CHOOSE n \in DOMAIN steps : steps[n] = w.at
    IN  IF i = Len(steps) THEN "end" ELSE steps[i + 1]

\* How far a command is, zero before the first of the steps.
Position(w) ==
    LET steps == StepsOf(w)
    IN  CASE w.at \in {"install", "auth", "verify", "state", "reset"} -> 0
          [] w.at \in {"accept", "end"} -> Len(steps) + 1
          [] OTHER -> CHOOSE n \in DOMAIN steps : steps[n] = w.at

IsPast(w, step) == \E n \in 1..(Position(w) - 1) : StepsOf(w)[n] = step

\* What a command leaves undone that ends where it is.
Undone(w) ==
    UNION {IF IsPast(w, "runtime") THEN {"services", "runtime"} ELSE {},
           IF \/ w.at = "verify"
              \/ w.pending /\ ~IsPast(w, "env")
              \/ w.kind = "switch" /\ w.at = "env" THEN {"secrets"} ELSE {},
           IF w.kind = "init" /\ ~w.complete /\ ~IsPast(w, "deploy") THEN {"instructions"} ELSE {}}

Advance == setup' = [setup EXCEPT !.at = After(setup)]
Leaves == setup' = Unstarted

At(step) == setup.at = step
Trouble == setupTroubles < MaxSetupTroubles /\ setupTroubles' = setupTroubles + 1
Smooth == UNCHANGED setupTroubles
Lasting == UNCHANGED <<ready, chosen, setupsRun>>
Disk == <<present, config, synced, ecosystem, instructions>>

StartSetup(kind) ==
    /\ At("idle") /\ setupsRun < MaxSetups
    /\ setupsRun' = setupsRun + 1
    /\ \E silent \in BOOLEAN, key \in Keys, wanted \in AgentRuntimes \cup {"none"} :
          /\ kind = "switch" => wanted # "none" /\ silent
          /\ \E selected \in AgentRuntimes :
                /\ selected = IF wanted # "none" THEN wanted
                              ELSE IF config.runtime # "none" THEN config.runtime
                              ELSE IF silent THEN "claude" ELSE selected
                /\ setup' = [Unstarted EXCEPT !.at = "install",
                       !.kind = kind, !.silent = silent, !.key = key,
                       !.existing = config.runtime, !.selected = selected]
          \* "Already on" the runtime; the services are not looked at.
          /\ kind = "switch" => ~(RuntimeOf(config) = wanted /\ key = "none")
    /\ UNCHANGED <<Disk, secrets, status, running, ready, chosen, lost>> /\ Smooth

\* The runtime's own program is installed if it is missing; the command exits with 1 if it cannot.
InstallCli ==
    /\ At("install")
    /\ \/ setup' = [setup EXCEPT !.at =
                        IF setup.kind = "switch" THEN "settings" ELSE "auth"]
       \/ Leaves
    /\ UNCHANGED <<Disk, secrets, status, running, lost>> /\ Lasting /\ Smooth

Authenticated == setup' = [setup EXCEPT !.at = "state", !.authenticated = TRUE]
NotAuthenticated == setup' = [setup EXCEPT !.at = "state"]

\* What is stored counts as authenticated, good or bad; a login in a browser is stored elsewhere.
\* A setup token is saved and then verified, an API key verified and then saved.
Authenticate ==
    LET w == setup
    IN  /\ At("auth")
        /\ \/ Authenticated /\ UNCHANGED secrets
           \/ /\ w.selected = "codex" \/ secrets.settings = "none"
              /\ NotAuthenticated /\ UNCHANGED secrets
           \/ /\ w.selected = "claude" /\ secrets.settings = "none" /\ w.key # "none"
              /\ secrets' = [secrets EXCEPT !.settings = w.key]
              /\ \/ setup' = [setup EXCEPT !.at = "verify"]
                 \/ w.key = "good" /\ setup' = [setup EXCEPT !.at = "state",
                                   !.pending = TRUE, !.authenticated = TRUE]
        /\ UNCHANGED <<Disk, status, running, lost>> /\ Lasting /\ Smooth

\* A network that fails looks like a token that is refused.
VerifyToken ==
    /\ At("verify")
    /\ \/ /\ setup.key = "good" /\ UNCHANGED secrets
          /\ setup' = [setup EXCEPT !.at = "state", !.pending = TRUE,
                                    !.authenticated = TRUE]
       \/ secrets' = [secrets EXCEPT !.settings = "none"] /\ NotAuthenticated
    /\ UNCHANGED <<Disk, status, running, lost>> /\ Lasting /\ Smooth

\* detectInstallState; an incomplete installation may be continued or reset.
DetectState ==
    /\ At("state")
    /\ \/ /\ present = Complete
          /\ setup' = [setup EXCEPT !.at = "skills", !.complete = TRUE]
       \/ present # Complete /\ setup' = [setup EXCEPT !.at = "dirs"]
       \/ /\ present \notin {Complete, {}} /\ ~setup.silent
          /\ setup' = [setup EXCEPT !.at = "reset"]
    /\ UNCHANGED <<Disk, secrets, status, running, lost>> /\ Lasting /\ Smooth

\* The services go first, then the skills, then the configuration with the runtime that was read
\* before, and the marker of the split instructions with it.
ResetManagedState ==
    /\ At("reset")
    /\ ready' = FALSE
    /\ IF \E x \in CoreServices : running[x] # "stopped"
       THEN /\ running' = [x \in CoreServices |-> "stopped"]
            /\ UNCHANGED <<Disk, setup, lost>>
       ELSE IF "skills" \in present
       THEN /\ present' = present \ {"skills"} /\ synced' = FALSE
            /\ UNCHANGED <<config, ecosystem, instructions, running, setup, lost>>
       ELSE /\ present' = {} /\ config' = NoConfig /\ ecosystem' = FALSE
            /\ instructions' = IF instructions = "active" THEN "files" ELSE instructions
            /\ lost' = IF setup.existing = setup.selected THEN lost \cup {"runtime"}
                                                                ELSE lost
            /\ setup' = [setup EXCEPT !.at = "dirs"]
            /\ UNCHANGED <<synced, running>>
    /\ UNCHANGED <<secrets, status, chosen, setupsRun>> /\ Smooth

CreateDirectories ==
    /\ At("dirs")
    /\ IF present = Complete THEN Advance /\ UNCHANGED present
       ELSE /\ present' = present \cup
                   {Markers[CHOOSE i \in DOMAIN Markers : /\ Markers[i] \notin present
                               /\ \A j \in 1..(i - 1) : Markers[j] \in present]}
            /\ UNCHANGED setup
    /\ UNCHANGED <<config, synced, ecosystem, instructions, secrets, status, running, lost>>
    /\ Lasting /\ Smooth

\* updateZylosConfig, by an init only if the runtime it has read before is another one.
PersistRuntime ==
    LET w == setup
    IN  /\ At("runtime")
        /\ IF w.kind = "switch" \/ w.existing # w.selected
           THEN /\ config' = [config EXCEPT !.runtime = w.selected]
                /\ present' = present \cup {"config"}
           ELSE UNCHANGED <<config, present>>
        /\ Advance
        /\ UNCHANGED <<synced, ecosystem, instructions, secrets, status, running, lost>>
        /\ Lasting /\ Smooth

SeedThreshold ==
    /\ At("threshold")
    /\ config' = IF config.threshold # 0 THEN config
                 ELSE [config EXCEPT !.threshold = IF setup.complete THEN 70 ELSE 30]
    /\ present' = IF config' = config THEN present ELSE present \cup {"config"}
    /\ Advance
    /\ UNCHANGED <<synced, ecosystem, instructions, secrets, status, running, lost>>
    /\ Lasting /\ Smooth

\* Only an installation that was not complete activates instructions where there are none.  What
\* throws here ends the command.
DeployTemplates ==
    /\ At("deploy")
    /\ ecosystem' = TRUE
    /\ \/ /\ instructions' = IF instructions = "none" /\ ~setup.complete THEN "active"
                                                                            ELSE instructions
          /\ Advance /\ UNCHANGED lost /\ Smooth
       \/ /\ UNCHANGED instructions /\ Leaves /\ Trouble
          /\ lost' = lost \cup Undone(setup)
    /\ UNCHANGED <<present, config, synced, secrets, status, running>> /\ Lasting

\* A switch saves the credential it was given before it asks whether it is any good.
SaveSettings ==
    /\ At("settings")
    /\ secrets' = IF setup.selected = "claude" /\ setup.key # "none"
                  THEN [secrets EXCEPT !.settings = setup.key] ELSE secrets
    /\ Advance
    /\ UNCHANGED <<Disk, status, running, lost>> /\ Lasting /\ Smooth

\* A write to .env that fails is ignored.
SaveEnv ==
    LET w == setup
        saves == w.selected = "claude" /\ IF w.kind = "switch" THEN w.key # "none" ELSE w.pending
    IN  /\ At("env")
        /\ \/ /\ secrets' = IF saves THEN [secrets EXCEPT !.env = w.key] ELSE secrets
              /\ lost' = IF secrets'.env = secrets.settings
                          THEN lost \ {"secrets"} ELSE lost
              /\ Smooth
           \/ saves /\ lost' = lost \cup {"secrets"} /\ Trouble /\ UNCHANGED secrets
        /\ Advance
        /\ UNCHANGED <<Disk, status, running>> /\ Lasting

\* A copy that fails is only warned of, and the skill stays as it is.
SyncSkills ==
    /\ At("skills")
    /\ \/ synced' = TRUE /\ UNCHANGED lost /\ Smooth
       \/ UNCHANGED synced /\ lost' = lost \cup {"skills"} /\ Trouble
    /\ Advance
    /\ UNCHANGED <<present, config, ecosystem, instructions, secrets, status, running>> /\ Lasting

ClearHealth ==
    LET w == setup
    IN  /\ At("health")
        /\ status' = IF w.kind = "switch" \/ w.existing \notin {"none", w.selected} THEN "none"
                                                                                    ELSE status
        /\ Advance
        /\ UNCHANGED <<Disk, secrets, running, lost>> /\ Lasting /\ Smooth

DeleteServices ==
    /\ At("delete")
    /\ IF ecosystem
       THEN running' = [x \in CoreServices |-> "stopped"] /\ Advance
       ELSE UNCHANGED running /\ setup' = [setup EXCEPT !.at = "bypass"]
    /\ UNCHANGED <<Disk, secrets, status, lost>> /\ Lasting /\ Smooth

\* A service that starts reads the configuration once.
Launched == IF synced THEN RuntimeOf(config) ELSE "stopped"

\* If PM2 fails, the command reports that no service was started and goes on.
StartServices ==
    /\ At("start")
    /\ \/ /\ running' = [x \in CoreServices |-> Launched]
          /\ lost' = lost \ {"services"}
          /\ Smooth
       \/ UNCHANGED running /\ lost' = lost \cup {"services"} /\ Trouble
    /\ Advance
    /\ UNCHANGED <<Disk, secrets, status>> /\ Lasting

\* guideBypassAcceptance stops the monitor while the user accepts Claude's terms.
GuideBypass ==
    LET w == setup
    IN  /\ At("bypass")
        /\ \/ /\ w.selected = "claude" /\ w.authenticated /\ ~w.silent
              /\ running' = [running EXCEPT !["monitor"] = "stopped"]
              /\ setup' = [setup EXCEPT !.at = "accept"]
           \/ UNCHANGED running /\ setup' = [setup EXCEPT !.at = "end"]
        /\ UNCHANGED <<Disk, secrets, status, lost>> /\ Lasting /\ Smooth

AcceptBypass ==
    /\ At("accept")
    /\ running' = [running EXCEPT !["monitor"] =
                       IF running["dispatcher"] = "stopped" THEN "stopped" ELSE Launched]
    /\ setup' = [setup EXCEPT !.at = "end"]
    /\ UNCHANGED <<Disk, secrets, status, lost>> /\ Lasting /\ Smooth

\* checkRuntimeAuthGate; --no-validate skips it.  A switch that is refused exits with 2.
AuthGate ==
    /\ At("gate")
    /\ Advance \/ Leaves
    /\ UNCHANGED <<Disk, secrets, status, running, lost>> /\ Lasting /\ Smooth

\* restartRuntimeServices restarts one after the other and warns of what fails.
RestartService ==
    \E x \in CoreServices :
        /\ At(x)
        /\ \/ running' = [running EXCEPT ![x] = IF ecosystem THEN Launched ELSE @]
              /\ UNCHANGED lost /\ Smooth
           \/ running' \in {running, [running EXCEPT ![x] = "stopped"]}
              /\ lost' = lost \cup {"services"} /\ Trouble
        /\ Advance
        /\ UNCHANGED <<Disk, secrets, status>> /\ Lasting

EndSetup ==
    LET w == setup
    IN  /\ At("end")
        /\ chosen' = w.selected
        /\ ready' = (ready \/ w.kind = "init")
        /\ lost' = IF RuntimeOf(config) = w.selected THEN lost \ {"runtime"} ELSE lost
        /\ Leaves
        /\ UNCHANGED <<Disk, secrets, status, running, setupsRun>> /\ Smooth

-----------------------------------------------------------------------------
KillSetup ==
    /\ ~At("idle") /\ Trouble
    /\ lost' = lost \cup Undone(setup)
    /\ Leaves
    /\ UNCHANGED <<Disk, secrets, status, running>> /\ Lasting

\* The monitor writes its status every second.
MonitorWrites ==
    /\ running["monitor"] # "stopped" /\ status # running["monitor"]
    /\ status' = running["monitor"]
    /\ UNCHANGED <<Disk, secrets, running, setup, lost>> /\ Lasting /\ Smooth

\* PM2 restarts a service that has crashed, which then reads the configuration of the day.
ServiceCrashes(x) ==
    /\ running[x] # "stopped" /\ synced /\ Trouble
    /\ running' = [running EXCEPT ![x] = Launched]
    /\ UNCHANGED <<Disk, secrets, status, setup, lost>> /\ Lasting

SetUp ==
    \/ InstallCli \/ Authenticate \/ VerifyToken \/ DetectState
    \/ ResetManagedState \/ CreateDirectories \/ PersistRuntime \/ SeedThreshold
    \/ DeployTemplates \/ SaveEnv \/ SyncSkills \/ ClearHealth
    \/ DeleteServices \/ StartServices \/ GuideBypass \/ AcceptBypass
    \/ EndSetup

SwitchRuntime == SaveSettings \/ AuthGate \/ RestartService

SetupNext ==
    \/ \E kind \in {"init", "switch"} : StartSetup(kind)
    \/ SetUp \/ SwitchRuntime \/ KillSetup
    \/ MonitorWrites
    \/ \E x \in CoreServices : ServiceCrashes(x)

-----------------------------------------------------------------------------
(* Properties *)

\* When no command works and nothing was lost on the way: the services have read the runtime of
\* the configuration (runtime.js:325-341 restarts them because the dispatcher caches its
\* session's name), a good credential that Claude has is also in the file from which the services
\* are started, and a host that was set up keeps every part and the runtime that was chosen last,
\* however often it is set up again, switched, killed or reset.
SetupKeepsWord ==
    At("idle") =>
        /\ "services" \notin lost =>
               \A x \in CoreServices : running[x] \in {"stopped", RuntimeOf(config)}
        /\ "secrets" \notin lost /\ secrets.settings = "good" => secrets.env = "good"
        /\ ready =>
               /\ present = Complete /\ ecosystem
               /\ "skills" \notin lost => synced
               /\ "instructions" \notin lost => instructions # "none"
               /\ "runtime" \notin lost => RuntimeOf(config) = chosen
=============================================================================
