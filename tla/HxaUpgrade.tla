------------------------------ MODULE HxaUpgrade ------------------------------
(***************************************************************************)
(* The scripts that replace one component under a release                  *)
(* (scripts/upgrade-hxa-connect.js) and that put lost ones back            *)
(* (scripts/restore-hxa-connect.js, restore-ss-upgrade-blockers.js),       *)
(* beside the command `zylos upgrade`.  Each has a lock of its own, and    *)
(* each looks for the others in its own way, or not at all.                *)
(*                                                                         *)
(* The transaction itself is ComponentUpgrade, here its installation and   *)
(* its commit.  A rehearsal reads only and is left out.                    *)
(***************************************************************************)
EXTENDS Naturals, FiniteSets

CONSTANTS
    MaxScriptRuns,    \* bound on the runs of the scripts together
    MaxScriptCrashes, \* bound on scripts that are killed
    Stale             \* the owner of a lock whose process is gone

ASSUME ScriptAssumption == MaxScriptRuns \in Nat \ {0} /\ MaxScriptCrashes \in Nat

Upgrader == "upgrade-hxa-connect"
Command == "zylos upgrade"
HxaRestorer == "restore-hxa-connect"
OthersRestorer == "restore-ss-upgrade-blockers"
Restorers == {HxaRestorer, OthersRestorer}
Upgraders == {Upgrader, Command}
Scripts == Upgraders \cup Restorers
NoScript == "nobody"

\* A lock whose process is gone is nobody's that runs.
ASSUME StaleAssumption == Stale \notin Scripts \cup {NoScript}

Targets == {"hxa", "others"}
Bound == {"pinned", "next"} \* the release to be restored, and the one to be installed
ScriptLocks == {"component"} \cup Restorers
Results == {"none", "RUNNING", "PASS", "HOLD", "ROLLED_BACK", "COMMITTED_HOLD"}

VARIABLES
    files,       \* files of each target: a release, missing, or mixed
    marker,      \* release its source marker names
    registry,    \* release its entry of components.json names
    online,      \* targets whose service is online
    journal,     \* whether the metadata of an upgrade of HXA waits to be recovered
    scriptLocks, \* owner of each lock
    script,      \* what each script does, and what it has seen
    told,        \* its last report, with what was installed when it was written
    excused,     \* whether an upgrade was left half done, or met a restorer unseen
    scriptRuns,
    scriptCrashes

hxaVars == <<files, marker, registry, online, journal, scriptLocks, script, told, excused,
             scriptRuns, scriptCrashes>>

Waits == [at |-> "idle", existing |-> FALSE, before |-> "pinned",
          copy |-> [c \in Targets |-> "pinned"]]
NothingTold == [result |-> "none", files |-> "pinned", marker |-> "pinned", before |-> "pinned"]

HxaTypeOK ==
    /\ \A c \in Targets : files[c] \in Bound \cup {"missing", "mixed"}
    /\ marker \in [Targets -> Bound] /\ registry \in [Targets -> Bound]
    /\ online \subseteq Targets /\ journal \in BOOLEAN /\ excused \in BOOLEAN
    /\ scriptLocks \in [ScriptLocks -> Scripts \cup {NoScript, Stale}]
    /\ \A s \in Upgraders : told[s].result \in Results
    /\ scriptRuns \in 0..MaxScriptRuns /\ scriptCrashes \in 0..MaxScriptCrashes
    \* Whoever is gone holds no lock but a stale one.
    /\ \A l \in ScriptLocks : scriptLocks[l] \in Scripts => script[scriptLocks[l]].at # "idle"

HxaInit ==
    /\ files \in [Targets -> {"pinned", "missing"}]
    /\ marker = [c \in Targets |-> "pinned"]
    /\ registry = [c \in Targets |-> "pinned"]
    /\ online = {c \in Targets : files[c] = "pinned"}
    /\ journal = FALSE
    /\ scriptLocks = [l \in ScriptLocks |-> NoScript]
    /\ script = [s \in Scripts |-> Waits]
    /\ told = [s \in Upgraders |-> NothingTold]
    /\ excused = FALSE
    /\ scriptRuns = 0
    /\ scriptCrashes = 0

-----------------------------------------------------------------------------
TargetOf(s) == IF s = OthersRestorer THEN "others" ELSE "hxa"
LockOf(s) == IF s \in Restorers THEN s ELSE "component"
Others(s) == {o \in Scripts \ {s} : script[o].at # "idle"}

Installed == <<files, marker, registry, online, journal>>
Counted == <<excused, scriptRuns, scriptCrashes>>

ProceedsTo(s, to) == script' = [script EXCEPT ![s].at = to]

\* Seeded fault: a script that ends on another path than its success keeps its lock.
EndScriptLocked(s, result) ==
    /\ told' = [u \in Upgraders |->
                    IF u # s THEN told[u]
                    ELSE [result |-> result, files |-> files'["hxa"], marker |-> marker'["hxa"],
                          before |-> script[s].before]]
    /\ script' = [script EXCEPT ![s] = Waits]
    /\ UNCHANGED scriptLocks

\* The last report of a script, which ends it; its lock, if it holds it, is released on every path.
EndScript(s, result) ==
    /\ told' = [u \in Upgraders |->
                    IF u # s THEN told[u]
                    ELSE [result |-> result, files |-> files'["hxa"], marker |-> marker'["hxa"],
                          before |-> script[s].before]]
    /\ script' = [script EXCEPT ![s] = Waits]
    /\ scriptLocks' = [l \in ScriptLocks |->
                           IF scriptLocks[l] = s THEN NoScript ELSE scriptLocks[l]]

ContinuesTo(s, to) == ProceedsTo(s, to) /\ UNCHANGED <<told, scriptLocks>>

\* Only the upgrader looks for the others: a restorer does not see that the component is being
\* upgraded, nor the command that it is being restored.
Unseen(s) ==
    \/ s \in Restorers /\ Others(s) \cap Upgraders # {}
    \/ s = Command /\ Others(s) \cap Restorers # {}

BeginScript(s) ==
    /\ script[s].at = "idle" /\ scriptRuns < MaxScriptRuns
    /\ scriptRuns' = scriptRuns + 1
    /\ ProceedsTo(s, "lock")
    /\ told' = [u \in Upgraders |->
                    IF u = s THEN [NothingTold EXCEPT !.result = "RUNNING"] ELSE told[u]]
    /\ excused' = (excused \/ Unseen(s))
    /\ UNCHANGED <<Installed, scriptLocks, scriptCrashes>>

\* inspectLocks: the directory of all locks must be empty but for the script's own, whether their
\* owners live or not.
LocksAreFree(s) == \A l \in ScriptLocks : scriptLocks[l] \in {NoScript, s}

\* acquireLock evicts the dead; the restorers' directories are made once and for all.
MayLock(s) ==
    CASE s = Upgrader -> LocksAreFree(s)
      [] s = Command -> scriptLocks[LockOf(s)] \in {NoScript, Stale}
      [] s \in Restorers -> scriptLocks[LockOf(s)] = NoScript

TakeScriptLock(s) ==
    /\ script[s].at = "lock"
    /\ UNCHANGED <<Installed, Counted>>
    /\ IF MayLock(s)
       THEN /\ scriptLocks' = [scriptLocks EXCEPT ![LockOf(s)] = s]
            /\ ProceedsTo(s, CASE s = Upgrader -> "check" [] s = Command -> "install"
                               [] s \in Restorers -> "validate")
            /\ UNCHANGED told
       ELSE EndScript(s, "HOLD")

-----------------------------------------------------------------------------
(* upgrade-hxa-connect --execute, and the command *)

\* validateCurrentTarget.  What is mixed may carry the right versions.
TargetIsCurrent == files["hxa"] \in {registry["hxa"], "mixed"}

\* inspectUpgradeProcesses: the other scripts are found in the list of processes.
NobodyElse(s) == Others(s) = {}

ServiceOnline(c) == c \in online /\ files[c] # "missing"

NothingWaits == ~journal

\* The agent's identity or the room on the disks is not proved.
Unproven(s) == EndScript(s, "HOLD")

\* The checks are made before the archive is staged and again after.
CheckTarget(s) ==
    /\ script[s].at \in {"check", "recheck"}
    /\ UNCHANGED <<Installed, Counted>>
    /\ \/ /\ TargetIsCurrent /\ LocksAreFree(s) /\ NothingWaits /\ NobodyElse(s)
          /\ ServiceOnline("hxa")
          /\ ContinuesTo(s, IF script[s].at = "check" THEN "stage" ELSE "install")
       \/ Unproven(s)

\* The archive is fetched, listed, extracted, validated and frozen, or refused.
StageCandidate(s) ==
    /\ script[s].at = "stage"
    /\ UNCHANGED <<Installed, Counted>>
    /\ ContinuesTo(s, "recheck") \/ EndScript(s, "HOLD")

\* runUpgrade up to its commit: all files replaced and the service back, or rolled back, wholly or
\* not; or it throws.  The upgrader has the files compared with the archive before the commit; the
\* command has recovered first what waited.
InstallNext(s) ==
    LET old == files["hxa"]
        Becomes(now) == files' = [files EXCEPT !["hxa"] = now]
        seen == [script EXCEPT ![s].before = old]
    IN  /\ script[s].at = "install" /\ NothingWaits
        /\ UNCHANGED <<marker, registry, journal, scriptRuns, scriptCrashes>>
        /\ IF old = "missing"
           THEN UNCHANGED <<files, online, excused>> /\ EndScript(s, "HOLD")
           ELSE \/ /\ UNCHANGED excused
                   /\ Becomes("next") /\ online' = online \cup {"hxa"}
                   /\ script' = [seen EXCEPT ![s].at = "commit"] /\ UNCHANGED <<told, scriptLocks>>
                \/ /\ UNCHANGED <<files, online, excused>>
                   /\ told' = [told EXCEPT ![s] = [result |-> "ROLLED_BACK", files |-> old,
                                                   marker |-> marker["hxa"], before |-> old]]
                   /\ script' = [script EXCEPT ![s] = Waits]
                   /\ scriptLocks' = [scriptLocks EXCEPT ![LockOf(s)] = NoScript]
                \/ /\ excused' = TRUE
                   /\ Becomes("mixed") \/ Becomes("next")
                   /\ online' \in {online, online \ {"hxa"}}
                   /\ EndScript(s, "HOLD")

\* finalizeUpgradeMetadataTransaction, or a journal that is left of it.
CommitNext(s) ==
    /\ script[s].at = "commit"
    /\ UNCHANGED <<files, online, Counted>>
    /\ \/ /\ marker' = [marker EXCEPT !["hxa"] = "next"]
          /\ registry' = [registry EXCEPT !["hxa"] = "next"]
          /\ UNCHANGED journal
          /\ IF s = Upgrader THEN ContinuesTo(s, "postcheck") ELSE EndScript(s, "PASS")
       \/ /\ journal' = TRUE
          /\ \/ marker' = [marker EXCEPT !["hxa"] = "next"]
             \/ UNCHANGED marker
          /\ UNCHANGED registry
          /\ EndScript(s, "COMMITTED_HOLD")

\* verifyPostUpgrade
NextIsInstalled ==
    /\ files["hxa"] = "next" /\ registry["hxa"] = "next" /\ marker["hxa"] = "next"
    /\ ServiceOnline("hxa")

\* Whatever fails from here on is on hold with the release committed.
VerifyNext(s) ==
    /\ script[s].at = "postcheck"
    /\ UNCHANGED <<Installed, Counted>>
    /\ \/ NextIsInstalled /\ EndScript(s, "PASS")
       \/ EndScript(s, "COMMITTED_HOLD")

\* recoverUpgradeMetadataTransactions, by whatever command comes next.
RecoverJournal ==
    /\ journal
    /\ journal' = FALSE
    /\ marker' = [marker EXCEPT !["hxa"] = "next"]
    /\ registry' = [registry EXCEPT !["hxa"] = "next"]
    /\ excused' = (excused \/ \E s \in Restorers : script[s].at # "idle")
    /\ UNCHANGED <<files, online, scriptLocks, script, told, scriptRuns, scriptCrashes>>

-----------------------------------------------------------------------------
(* The restorers.  They look at no other script's lock, and at no process. *)

\* The registry must name the pinned release; files that exist must be of it.
RegistryIsPinned(c) == registry[c] = "pinned"
FilesArePinned(c) ==
    files[c] # "missing" => files[c] \in {"pinned", "mixed"} /\ marker[c] = "pinned"
\* The others are restored beside a component that works.
HxaContinues(s) == s = OthersRestorer => ServiceOnline("hxa")

ValidateTarget(s) ==
    LET c == TargetOf(s)
    IN  /\ script[s].at = "validate"
        /\ UNCHANGED <<Installed, Counted>>
        /\ \/ /\ RegistryIsPinned(c) /\ FilesArePinned(c) /\ HxaContinues(s)
              /\ script' = [script EXCEPT ![s].at = "place", ![s].existing = files[c] # "missing"]
              /\ UNCHANGED <<told, scriptLocks>>
           \/ EndScript(s, "HOLD")

\* The archive is staged and compared, then renamed into place, or npm install runs in place.
PlaceTarget(s) ==
    LET c == TargetOf(s)
    IN  /\ script[s].at = "place"
        /\ UNCHANGED <<registry, online, journal, Counted>>
        /\ \/ /\ script[s].existing /\ files[c] # "missing"
              /\ UNCHANGED <<files, marker>> /\ ContinuesTo(s, "read")
           \/ \* A directory that has come meanwhile is not replaced.
              /\ ~script[s].existing /\ files[c] = "missing"
              /\ files' = [files EXCEPT ![c] = "pinned"]
              /\ marker' = [marker EXCEPT ![c] = "pinned"]
              /\ ContinuesTo(s, "read")
           \/ UNCHANGED <<files, marker>> /\ EndScript(s, "HOLD")

\* components.json is read and written without its lock.
ReadRegistry(s) ==
    /\ script[s].at = "read"
    /\ script' = [script EXCEPT ![s].at = "write", ![s].copy = registry]
    /\ UNCHANGED <<Installed, told, scriptLocks, Counted>>

WriteRegistryBack(s) ==
    /\ script[s].at = "write"
    /\ registry' = [script[s].copy EXCEPT ![TargetOf(s)] = "pinned"]
    /\ script' = [script EXCEPT ![s].at = "start", ![s].copy = Waits.copy]
    /\ UNCHANGED <<files, marker, online, journal, told, scriptLocks, Counted>>

StartTarget(s) ==
    LET c == TargetOf(s)
    IN  /\ script[s].at = "start"
        /\ UNCHANGED <<files, marker, registry, journal, Counted>>
        /\ \/ online' = online \cup {c} /\ ContinuesTo(s, "verify")
           \/ online' \in {online, online \ {c}} /\ EndScript(s, "HOLD")

\* The files are not looked at again.
VerifyRestored(s) ==
    /\ script[s].at = "verify"
    /\ UNCHANGED <<Installed, Counted>>
    /\ \/ ServiceOnline(TargetOf(s)) /\ HxaContinues(s) /\ EndScript(s, "PASS")
       \/ EndScript(s, "HOLD")

-----------------------------------------------------------------------------
\* A killed script leaves its lock, and half of what it was replacing.
KillScript(s) ==
    /\ script[s].at # "idle" /\ scriptCrashes < MaxScriptCrashes
    /\ scriptCrashes' = scriptCrashes + 1
    /\ script' = [script EXCEPT ![s] = Waits]
    /\ scriptLocks' = [l \in ScriptLocks |->
                           IF scriptLocks[l] = s THEN Stale ELSE scriptLocks[l]]
    /\ IF script[s].at = "install" /\ files["hxa"] # "missing"
       THEN files' \in {files, [files EXCEPT !["hxa"] = "mixed"]}
            /\ online' \in {online, online \ {"hxa"}}
       ELSE UNCHANGED <<files, online>>
    /\ journal' \in {journal, journal \/ script[s].at = "commit"}
    /\ excused' = (excused \/ script[s].at \in {"install", "commit"})
    /\ UNCHANGED <<marker, registry, told, scriptRuns>>

UpgradeHxa(s) ==
    CheckTarget(s) \/ StageCandidate(s) \/ InstallNext(s) \/ CommitNext(s) \/ VerifyNext(s)

RestoreTarget(s) ==
    \/ ValidateTarget(s) \/ PlaceTarget(s) \/ ReadRegistry(s) \/ WriteRegistryBack(s)
    \/ StartTarget(s) \/ VerifyRestored(s)

HxaNext ==
    \/ \E s \in Scripts :
          \/ BeginScript(s) \/ TakeScriptLock(s) \/ UpgradeHxa(s) \/ RestoreTarget(s)
          \/ KillScript(s)
    \/ RecoverJournal

-----------------------------------------------------------------------------
(* Properties *)

\* A report tells what was installed when it was written: a committed release is never called
\* rolled back, nor the other way round (upgrade-hxa-connect.js:1597-1640).
ReportsTellTruth ==
    \A s \in Upgraders :
        /\ told[s].result = "PASS" => told[s].files = "next" /\ told[s].marker = "next"
        /\ told[s].result = "COMMITTED_HOLD" => told[s].files = "next"
        /\ told[s].result = "ROLLED_BACK" => told[s].files = told[s].before

\* Whatever is killed or refused, and whatever locks are left, the registry names the release
\* that is installed when no script runs, unless it is a mixture, its metadata still wait, an
\* upgrade was killed or ended on hold with its files replaced, or a restorer met an upgrade
\* that it does not look for (upgrade-hxa-connect.js:738-820, 1268-1303,
\* restore-hxa-connect.js:391-404).
RegistryNamesInstalled ==
    (~excused /\ ~journal /\ \A s \in Scripts : script[s].at = "idle") =>
        \A c \in Targets : files[c] \in Bound => registry[c] = files[c]
=============================================================================
