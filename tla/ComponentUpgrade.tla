--------------------------- MODULE ComponentUpgrade ---------------------------
(***************************************************************************)
(* The upgrade of one installed component (cli/lib/upgrade.js): steps 0 to *)
(* 10 in order, and the rollback when one fails.  What the upgrade knows   *)
(* of the installed release is a baseline, the pair of manifest.json and   *)
(* originals/ that three-way merges start from (cli/lib/manifest.js), and  *)
(* its provenance, the source marker and the entry of components.json,     *)
(* committed through a journal (cli/lib/upgrade-metadata.js,               *)
(* components-registry.js).  Any other command that lists components rolls *)
(* a committed journal forward, at any time, without the upgrade's lock.   *)
(*                                                                         *)
(* A tree of files is abstracted to the release it is of, and what the     *)
(* owner changed in it does not count.  A file is written, renamed or      *)
(* removed as a whole.  A process may be killed between two steps, and in  *)
(* the middle of a step that copies or removes a tree or restarts the      *)
(* service.  PM2 is installed.  One target release is installed, by at     *)
(* most MaxAttempts attempts.                                              *)
(***************************************************************************)
EXTENDS Naturals

CONSTANTS
    MaxAttempts, \* bound on the attempts to upgrade
    MaxCrashes   \* bound on killed processes and failed commits of metadata

ASSUME ComponentUpgradeAssumption == MaxAttempts \in Nat /\ MaxCrashes \in Nat

VARIABLES
    disk,     \* the component's files, dependencies, data with environment, routes
    baseline, \* manifest.json, originals/, manifest.json.tmp, originals.new/
    meta,     \* the journal, the source marker, the registry entry, the registry's lock
    service,  \* the PM2 process: the release it runs, or that it is stopped or not listed
    upgrade,  \* the process that upgrades and its context
    command,  \* a process that loads the components and recovers the journal
    report,   \* the result of the last attempt
    attempts,
    crashes

componentVars == <<disk, baseline, meta, service, upgrade, command, report, attempts, crashes>>

Releases == {"old", "new"}
Trees == Releases \cup {"mixed"}
Disk == [files : Trees, deps : Trees, data : Trees, routes : Releases]
Steps == {"capabilities", "backup", "preHook", "stop", "recover", "merge", "npm", "routes",
          "postHook", "start", "postcheck", "journal", "stage", "copy", "commit", "swap"}
Undoing == {"undo", "undoFiles", "undoDeps", "undoData", "undoRoutes", "undoService", "abort"}
Finishing == {"inspect", "marker", "lock", "registry", "unlock", "drop"}
NoUpgrade == [pc |-> "idle"]

\* What an attempt reports, with the state it found.
Result == [result : {"success", "failed", "hold"}, clean : BOOLEAN, found : Disk,
           ran : Trees \cup {"stopped"}]
NoResult == [result |-> "none"]
Reports(result, clean) ==
    report' = [result |-> result, clean |-> clean, found |-> upgrade.found, ran |-> upgrade.ran]

\* The context, with the state the attempt found.
Context(at) == [pc |-> at, found |-> disk, ran |-> service, backup |-> "none",
    transition |-> FALSE, mutated |-> FALSE, routed |-> FALSE, journal |-> FALSE, clean |-> TRUE]

ComponentTypeOK ==
    /\ disk \in Disk
    /\ baseline \in [manifest : Releases, originals : {"old", "new", "gone"}, tmp : BOOLEAN,
                     staged : {"none", "mixed", "new"}]
    /\ meta \in [journal : BOOLEAN, marker : Releases, registry : Releases,
                 lock : {"free", "upgrade", "command", "dead"}]
    /\ service \in Trees \cup {"stopped"}
    /\ upgrade.pc \in {"idle"} \cup Steps \cup Undoing \cup Finishing
    /\ command \in {"idle"} \cup Finishing
    /\ report \in Result \cup {NoResult}
    /\ attempts \in 0..MaxAttempts
    /\ crashes \in 0..MaxCrashes

ComponentInit ==
    /\ disk = [files |-> "old", deps |-> "old", data |-> "old", routes |-> "old"]
    /\ baseline = [manifest |-> "old", originals |-> "old", tmp |-> FALSE, staged |-> "none"]
    /\ meta = [journal |-> FALSE, marker |-> "old", registry |-> "old", lock |-> "free"]
    /\ service \in {"old", "stopped"}
    /\ upgrade = NoUpgrade
    /\ command = "idle"
    /\ report = NoResult
    /\ attempts = 0
    /\ crashes = 0

-----------------------------------------------------------------------------
(* Steps 0 to 9 *)

\* A step that succeeds still counts as failed when its progress callback throws.
After(step, next) ==
    /\ upgrade.pc = step
    /\ \E pc \in {next, "undo"} : upgrade' = [upgrade EXCEPT !.pc = pc]
    /\ UNCHANGED <<baseline, meta, command, report, attempts, crashes>>

\* What a step may leave of a tree it was writing.
Leaves(tree, release) == {tree, "mixed", release}

Start ==
    /\ upgrade.pc = "idle" /\ attempts < MaxAttempts /\ baseline.manifest = "old"
    /\ ~meta.journal
    /\ upgrade' = Context("capabilities")
    /\ attempts' = attempts + 1
    /\ report' = NoResult
    /\ UNCHANGED <<disk, baseline, meta, service, command, crashes>>

VerifyCapabilities == After("capabilities", "backup") /\ UNCHANGED <<disk, service>>

\* The backup of files, data and environment is complete before anything changes.
Backup ==
    /\ upgrade.pc = "backup"
    /\ \/ \E pc \in {"preHook", "undo"} :
             upgrade' = [upgrade EXCEPT !.pc = pc, !.backup = disk.files]
       \/ upgrade' = [upgrade EXCEPT !.pc = "undo"]
    /\ UNCHANGED <<disk, baseline, meta, service, command, report, attempts, crashes>>

\* A hook may migrate the component's data, in part when it fails.
HookMigrates ==
    \E data \in Leaves(disk.data, "new") :
        /\ disk' = [disk EXCEPT !.data = data]
        /\ data = "mixed" /\ disk.data # "mixed" => upgrade'.pc = "undo"

PreUpgradeHook ==
    /\ After("preHook", "stop")
    /\ HookMigrates
    /\ UNCHANGED service

\* The service is stopped when PM2 says that it runs; what PM2 says may not be known.  Then
\* the merge begins, and what it finds missing fails it before it changed a file.
StopService ==
    /\ upgrade.pc = "stop"
    /\ \E pc \in {"recover", "undo"}, asked \in BOOLEAN :
          /\ asked => service # "stopped"
          /\ pc = "recover" /\ service # "stopped" => asked
          /\ upgrade' = [upgrade EXCEPT !.pc = pc, !.mutated = pc = "recover",
                                        !.transition = asked]
          /\ \/ asked /\ service' = "stopped"
             \/ (asked => pc = "undo") /\ UNCHANGED service
    /\ UNCHANGED <<disk, baseline, meta, command, report, attempts, crashes>>

SmartMerge ==
    /\ upgrade.pc = "merge"
    /\ \/ \E pc \in {"npm", "undo"} :
             /\ upgrade' = [upgrade EXCEPT !.pc = pc]
             /\ disk' = [disk EXCEPT !.files = "new"]
       \/ /\ upgrade' = [upgrade EXCEPT !.pc = "undo"]
          /\ disk' = [disk EXCEPT !.files = "mixed"]
    /\ UNCHANGED <<baseline, meta, service, command, report, attempts, crashes>>

NpmInstall ==
    /\ upgrade.pc = "npm"
    /\ \E pc \in {"routes", "undo"}, deps \in Leaves(disk.deps, "new") :
          /\ pc = "routes" => deps = "new"
          /\ upgrade' = [upgrade EXCEPT !.pc = pc]
          /\ disk' = [disk EXCEPT !.deps = deps]
    /\ UNCHANGED <<baseline, meta, service, command, report, attempts, crashes>>

\* Routes that cannot be applied do not fail the upgrade.
UpdateCaddyRoutes ==
    /\ upgrade.pc = "routes"
    /\ \E pc \in {"postHook", "undo"}, routed \in BOOLEAN :
          /\ upgrade' = [upgrade EXCEPT !.pc = pc, !.routed = routed]
          /\ disk' = [disk EXCEPT !.routes = IF routed THEN "new" ELSE @]
    /\ UNCHANGED <<baseline, meta, service, command, report, attempts, crashes>>

PostUpgradeHook ==
    /\ After("postHook", "start")
    /\ HookMigrates
    /\ UNCHANGED service

\* Only a service that ran before is started.
StartService ==
    /\ upgrade.pc = "start"
    /\ \E pc \in {"postcheck", "undo"} :
          /\ upgrade' = [upgrade EXCEPT !.pc = pc]
          /\ IF upgrade.ran = "stopped" THEN UNCHANGED service
             ELSE \/ service' = disk.files
                  \/ pc = "undo" /\ UNCHANGED service
    /\ UNCHANGED <<disk, baseline, meta, command, report, attempts, crashes>>

-----------------------------------------------------------------------------
(* Step 10, the baseline *)

BaselineMoves(pc, change) ==
    /\ upgrade' = [upgrade EXCEPT !.pc = pc]
    /\ baseline' = change
    /\ UNCHANGED <<disk, meta, service, command, report, attempts, crashes>>

Throws(step) ==
    /\ upgrade.pc = step
    /\ upgrade' = [upgrade EXCEPT !.pc = "undo"]
    /\ UNCHANGED <<disk, baseline, meta, service, command, report, attempts, crashes>>

Postcheck == After("postcheck", "journal") /\ UNCHANGED <<disk, service>>

BeginMetadata ==
    \/ /\ upgrade.pc = "journal"
       /\ upgrade' = [upgrade EXCEPT !.pc = "recover", !.journal = TRUE]
       /\ meta' = [meta EXCEPT !.journal = TRUE]
       /\ UNCHANGED <<disk, baseline, service, command, report, attempts, crashes>>
    \/ Throws("journal")

\* One deletion or renaming of the recovery of an interrupted commit.  Smart merge runs it
\* before it reads the baseline, the commit before it stages the next one.
\* Seeded fault: the mark of an uncommitted baseline is discarded before what it marks.
RecoverBaselineMarkFirst ==
    LET go(change) == BaselineMoves("recover", change)
    IN  /\ upgrade.pc = "recover"
        /\ IF baseline.tmp THEN go([baseline EXCEPT !.tmp = FALSE])
           ELSE IF baseline.staged # "none"
           THEN go([baseline EXCEPT !.originals = baseline.staged, !.staged = "none"])
           ELSE BaselineMoves(IF upgrade.journal THEN "stage" ELSE "merge", baseline)
RecoverBaseline ==
    LET go(change) == BaselineMoves("recover", change)
    IN  /\ upgrade.pc = "recover"
        /\ \/ baseline.tmp /\ baseline.staged # "none" /\ go([baseline EXCEPT !.staged = "none"])
           \/ baseline.tmp /\ baseline.staged = "none" /\ go([baseline EXCEPT !.tmp = FALSE])
           \/ /\ ~baseline.tmp /\ baseline.staged # "none"
              /\ go(IF baseline.originals # "gone"
                    THEN [baseline EXCEPT !.originals = "gone"]
                    ELSE [baseline EXCEPT !.originals = baseline.staged, !.staged = "none"])
           \/ /\ ~baseline.tmp /\ baseline.staged = "none"
              /\ BaselineMoves(IF upgrade.journal THEN "stage" ELSE "merge", baseline)

\* A deletion may fail, or be interrupted, half done; originals that are gone are so in
\* whole or in part.
HalfRecovered == {baseline} \cup (IF baseline.tmp /\ baseline.staged # "none"
                                  THEN {[baseline EXCEPT !.staged = "mixed"]} ELSE {})

RecoveryFails ==
    /\ upgrade.pc = "recover"
    /\ \E left \in HalfRecovered : BaselineMoves("undo", left)

\* What is left when staging fails: what it staged goes first, in whole or in part, then its
\* mark, and either deletion may fail.
Discarded(staged) ==
    {[baseline EXCEPT !.staged = "none", !.tmp = FALSE]}
        \cup {[baseline EXCEPT !.staged = s, !.tmp = TRUE] : s \in {"none"} \cup staged}

Stage ==
    /\ upgrade.pc = "stage"
    /\ \/ BaselineMoves("copy", [baseline EXCEPT !.tmp = TRUE])
       \/ \E left \in Discarded({}) : BaselineMoves("undo", left)

CopyOriginals ==
    /\ upgrade.pc = "copy"
    /\ \/ BaselineMoves("commit", [baseline EXCEPT !.staged = "new"])
       \/ \E left \in Discarded({"mixed"}) : BaselineMoves("undo", left)

\* The renaming of the staged manifest is the commit.
CommitBaseline ==
    /\ upgrade.pc = "commit"
    /\ \/ BaselineMoves("swap", [baseline EXCEPT !.manifest = "new", !.tmp = FALSE])
       \/ \E left \in Discarded({"mixed", "new"}) : BaselineMoves("undo", left)

\* A swap that fails is left to the next recovery; the commit stands.
SwapOriginals ==
    /\ upgrade.pc = "swap"
    /\ \E left \in {[baseline EXCEPT !.originals = "new", !.staged = "none"],
                    [baseline EXCEPT !.originals = "gone"], baseline} :
          BaselineMoves("inspect", left)

-----------------------------------------------------------------------------
(* The metadata: the upgrade and any other command finish a committed journal *)

Finishers == {"upgrade", "command"}
At(p) == IF p = "upgrade" THEN upgrade.pc ELSE command

\* The step after 10 is the report: a success, or a hold when the callback throws.
Goes(p, pc) ==
    IF p = "command" THEN command' = pc /\ UNCHANGED <<upgrade, report>>
    ELSE /\ UNCHANGED command
         /\ IF pc # "idle" THEN upgrade' = [upgrade EXCEPT !.pc = pc] /\ UNCHANGED report
            ELSE /\ upgrade' = NoUpgrade
                 /\ \E result \in {"success", "hold"} : Reports(result, TRUE)

Finishes(p, step, next, change) ==
    /\ At(p) = step
    /\ meta' = change
    /\ Goes(p, next)
    /\ UNCHANGED <<disk, baseline, service, attempts, crashes>>

LoadComponents ==
    /\ command = "idle" /\ meta.journal
    /\ command' = "inspect"
    /\ UNCHANGED <<disk, baseline, meta, service, upgrade, report, attempts, crashes>>

\* A journal whose baseline is not committed is left alone, or held when its owner is dead.
Inspect(p) ==
    Finishes(p, "inspect",
        IF baseline.manifest = "new" THEN "marker" ELSE "idle", meta)

WriteMarker(p) == Finishes(p, "marker", "lock", [meta EXCEPT !.marker = "new"])
LockRegistry(p) ==
    meta.lock = "free" /\ Finishes(p, "lock", "registry", [meta EXCEPT !.lock = p])
WriteRegistry(p) == Finishes(p, "registry", "unlock", [meta EXCEPT !.registry = "new"])
UnlockRegistry(p) == Finishes(p, "unlock", "drop", [meta EXCEPT !.lock = "free"])
\* Seeded fault: the journal of an upgrade that may still need recovery is never removed.
KeepJournal(p) == Finishes(p, "drop", "idle", meta)
DropJournal(p) == Finishes(p, "drop", "idle", [meta EXCEPT !.journal = FALSE])

\* A dead owner's lock is never broken, and a live one's may be held for too long.
RegistryBusy(p) == meta.lock # "free" /\ Finishes(p, "lock", "idle", meta)

\* An unreadable manifest or a write that fails: the journal stays for the next command.
MetadataFails(p) ==
    /\ crashes < MaxCrashes /\ crashes' = crashes + 1
    /\ At(p) \in Finishing
    /\ meta' = [meta EXCEPT !.lock = IF @ = p THEN "free" ELSE @]
    /\ Goes(p, "idle")
    /\ UNCHANGED <<disk, baseline, service, attempts>>

Finish(p) == \/ Inspect(p) \/ WriteMarker(p) \/ LockRegistry(p) \/ WriteRegistry(p)
             \/ UnlockRegistry(p) \/ DropJournal(p) \/ RegistryBusy(p)

-----------------------------------------------------------------------------
(* The rollback *)

\* Every part is attempted, whether or not an earlier one failed.
Undoes(step, next, done, left) ==
    /\ upgrade.pc = step
    /\ \/ disk' = done /\ upgrade' = [upgrade EXCEPT !.pc = next]
       \/ /\ disk' \in left
          /\ upgrade' = [upgrade EXCEPT !.pc = next, !.clean = FALSE]
    /\ UNCHANGED <<baseline, meta, service, command, report, attempts, crashes>>

\* Before the service or the files were touched only the data is restored, if it was saved.
Undo ==
    /\ upgrade.pc = "undo"
    /\ upgrade' = [upgrade EXCEPT !.pc =
           IF upgrade.transition \/ upgrade.mutated THEN "undoFiles"
           ELSE IF upgrade.backup # "none" THEN "undoData" ELSE "abort"]
    /\ UNCHANGED <<disk, baseline, meta, service, command, report, attempts, crashes>>

RestoreFiles ==
    Undoes("undoFiles", "undoDeps", [disk EXCEPT !.files = upgrade.backup],
           {[disk EXCEPT !.files = v] : v \in {disk.files, "mixed"}})
RestoreDependencies ==
    Undoes("undoDeps", "undoData", [disk EXCEPT !.deps = disk.files],
           {[disk EXCEPT !.deps = v] : v \in {disk.deps, "mixed"}})
\* Seeded fault: the data that a hook migrated is not restored.
RestoreNoData ==
    Undoes("undoData", IF upgrade.transition \/ upgrade.mutated THEN "undoRoutes" ELSE "abort",
           disk, {[disk EXCEPT !.data = v] : v \in {disk.data, "mixed"}})
RestoreData ==
    Undoes("undoData", IF upgrade.transition \/ upgrade.mutated THEN "undoRoutes" ELSE "abort",
           [disk EXCEPT !.data = upgrade.found.data],
           {[disk EXCEPT !.data = v] : v \in {disk.data, "mixed"}})
\* The routes are those of the backup's own contract.
RestoreRoutes ==
    /\ upgrade.pc = "undoRoutes"
    /\ \E contract \in IF upgrade.backup = "mixed" THEN Releases ELSE {upgrade.backup} :
          Undoes("undoRoutes", "undoService",
                 [disk EXCEPT !.routes = IF upgrade.routed THEN contract ELSE @],
                 IF upgrade.routed THEN {disk} ELSE {})

RestartService ==
    /\ upgrade.pc = "undoService"
    /\ \/ /\ upgrade' = [upgrade EXCEPT !.pc = "abort"]
          /\ service' = IF upgrade.ran = "stopped" THEN service ELSE disk.files
       \/ /\ upgrade.ran # "stopped"
          /\ upgrade' = [upgrade EXCEPT !.pc = "abort", !.clean = FALSE]
          /\ service' \in {service, disk.files, "stopped"}
    /\ UNCHANGED <<disk, baseline, meta, command, report, attempts, crashes>>

\* The journal is aborted only after a rollback that succeeded in every part; aborting may
\* itself fail.
AbortMetadata ==
    /\ upgrade.pc = "abort"
    /\ upgrade' = NoUpgrade
    /\ \E aborted \in BOOLEAN :
          /\ aborted => upgrade.journal /\ upgrade.clean
          /\ Reports("failed", upgrade.clean /\ (upgrade.journal => aborted))
          /\ meta' = [meta EXCEPT !.journal = @ /\ ~aborted]
    /\ UNCHANGED <<disk, baseline, service, command, attempts, crashes>>

Rollback == \/ Undo \/ RestoreFiles \/ RestoreDependencies \/ RestoreData \/ RestoreRoutes
            \/ RestartService \/ AbortMetadata

-----------------------------------------------------------------------------
(* Crashes *)

Torn(p, tree) == IF p THEN {tree, "mixed"} ELSE {tree}

KillUpgrade ==
    /\ upgrade.pc # "idle"
    /\ crashes < MaxCrashes /\ crashes' = crashes + 1
    /\ upgrade' = NoUpgrade
    /\ meta' = [meta EXCEPT !.lock = IF @ = "upgrade" THEN "dead" ELSE @]
    /\ \E files \in Torn(upgrade.pc \in {"merge", "undoFiles"}, disk.files),
          deps \in Torn(upgrade.pc \in {"npm", "undoDeps"}, disk.deps),
          data \in Torn(upgrade.pc \in {"preHook", "postHook", "undoData"}, disk.data) :
          disk' = [disk EXCEPT !.files = files, !.deps = deps, !.data = data]
    /\ baseline' \in
           CASE upgrade.pc = "copy" -> {baseline, [baseline EXCEPT !.staged = "mixed"]}
             [] upgrade.pc = "swap" -> {baseline, [baseline EXCEPT !.originals = "gone"]}
             [] upgrade.pc = "recover" -> HalfRecovered
             [] OTHER -> {baseline}
    /\ service' \in IF upgrade.pc = "undoService" /\ upgrade.ran # "stopped"
                    THEN {service, "stopped"} ELSE {service}
    /\ UNCHANGED <<command, report, attempts>>

KillCommand ==
    /\ command # "idle"
    /\ crashes < MaxCrashes /\ crashes' = crashes + 1
    /\ command' = "idle"
    /\ meta' = [meta EXCEPT !.lock = IF @ = "command" THEN "dead" ELSE @]
    /\ UNCHANGED <<disk, baseline, service, upgrade, report, attempts>>

UpgradeStep ==
    \/ VerifyCapabilities \/ Backup \/ PreUpgradeHook \/ StopService \/ RecoverBaseline
    \/ RecoveryFails \/ SmartMerge \/ NpmInstall \/ UpdateCaddyRoutes \/ PostUpgradeHook
    \/ StartService \/ Postcheck \/ BeginMetadata \/ Stage \/ CopyOriginals \/ CommitBaseline
    \/ SwapOriginals \/ Rollback \/ Finish("upgrade")
CommandStep == LoadComponents \/ Finish("command")

ComponentNext ==
    \/ Start \/ UpgradeStep \/ CommandStep
    \/ \E p \in Finishers : MetadataFails(p)
    \/ KillUpgrade \/ KillCommand

\* A process that runs gets on, and some command lists the components again and again.
ComponentFairness == WF_componentVars(UpgradeStep) /\ WF_componentVars(CommandStep)

-----------------------------------------------------------------------------
(* Properties *)

\* A failed upgrade whose rollback reports success in every part has put back the files, the
\* data and the service as the attempt found them, dependencies and routes that fit those
\* files, and has left neither a new baseline nor a journal (upgrade.js:1201-1352,1504-1534).
RollbackRestores ==
    report.result = "failed" /\ report.clean =>
        /\ disk.files = report.found.files /\ disk.data = report.found.data
        /\ disk.deps \in {report.found.deps, report.found.files}
        /\ disk.routes \in {report.found.routes, report.found.files} \cup
               IF report.found.files = "mixed" THEN Releases ELSE {}
        /\ service \in IF report.ran = "stopped" THEN {"stopped"}
                       ELSE {report.ran, report.found.files}
        /\ baseline.manifest = "old" /\ ~meta.journal

\* An upgrade that reports success, or that its commit must stand, is the new release as a
\* whole: files, dependencies, baseline, and a service that runs the new files if it ran
\* before; its provenance is committed or its journal is there to be rolled forward
\* (upgrade.js:960-1032,1481-1503).
SuccessIsWhole ==
    report.result \in {"success", "hold"} =>
        /\ disk.files = "new" /\ disk.deps = "new" /\ baseline.manifest = "new"
        /\ service = IF report.ran = "stopped" THEN "stopped" ELSE "new"
        /\ meta.journal \/ (meta.marker = "new" /\ meta.registry = "new")

UpgradeIsWhole == RollbackRestores /\ SuccessIsWhole

\* At every moment, a crash included, recovery makes of what is on disk the originals of the
\* live manifest: a merge never starts from a mix of two releases (manifest.js:191-247,254-262).
BaselineIsWhole ==
    baseline.manifest =
        IF ~baseline.tmp /\ baseline.staged # "none" THEN baseline.staged ELSE baseline.originals

\* The source marker and the registry never name a release whose baseline is not committed,
\* whichever process writes them and wherever one is killed (upgrade-metadata.js:269-333).
MetadataFollowsBaseline == "new" \in {meta.marker, meta.registry} => baseline.manifest = "new"

BaselineLeads == BaselineIsWhole /\ MetadataFollowsBaseline

\* Once the baseline is committed the marker and the registry follow and the journal goes,
\* unless a process died with the registry's lock (upgrade-metadata.js:319-322).
CommittedIsFinished ==
    baseline.manifest = "new" ~>
        \/ meta.marker = "new" /\ meta.registry = "new" /\ ~meta.journal
        \/ meta.lock = "dead"
=============================================================================
