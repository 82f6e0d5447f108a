------------------------------ MODULE SelfUpgrade ------------------------------
(***************************************************************************)
(* The upgrade of Core itself (cli/lib/self-upgrade.js).  The installed    *)
(* release runs steps 0 to 4: it verifies, backs up, stops the services    *)
(* and installs the new package.  Steps 5 to 14 are run by the new package *)
(* in a process of its own, the finalizer, which gets a part of the first  *)
(* process's context in a file and rolls back by itself when a step fails. *)
(* When it dies or is killed by its timeout the first process rolls back,  *)
(* with its own context.                                                   *)
(*                                                                         *)
(* A tree of files is abstracted to the release it is of.  Both processes  *)
(* are of this release of the code.  A behaviour is one upgrade; nobody    *)
(* takes up what a killed first process leaves.  A service that a rollback *)
(* has restarted stays up.                                                 *)
(***************************************************************************)
EXTENDS FiniteSets

CONSTANTS
    CoreServices,  \* services of Core's ecosystem that the old release has
    OwnServices,   \* component daemons and cron one-shots with definitions of their own
    AddedServices  \* required Core services that only the new release has

ASSUME SelfUpgradeAssumption ==
    /\ IsFiniteSet(CoreServices \cup OwnServices \cup AddedServices)
    /\ CoreServices \cap OwnServices = {}
    /\ AddedServices \cap (CoreServices \cup OwnServices) = {}

VARIABLES
    tree,    \* the package, the skills, their node_modules and baselines, the ecosystem file,
             \* the configuration
    process, \* what PM2 runs: the release of each service; a one-shot may wait for its hour
    saved,   \* PM2's dump: what a reboot resurrects
    ctx,     \* the contexts of the first process and of the finalizer
    outcome  \* the result of the upgrade

selfVars == <<tree, process, saved, ctx, outcome>>

CoreTrees == {"old", "mixed", "new"}
CoreReleases == {"old", "new"}
Services == CoreServices \cup OwnServices \cup AddedServices
Running == CoreTrees \cup {"own"}
Restoring == {"undoPackage", "undoSkills", "undoEcosystem", "undoAdded", "undoServices", "undoSave"}
FirstSteps == {"verify", "backup", "stop", "npm", "wait"}
FinalSteps == {"sync", "deps", "configure", "prepare", "restart", "save", "services", "replies",
               "baselines", "print"}

\* A reboot cares for what is listed and whether it runs.
Listing(p) == [s \in Services |-> IF p[s] \in Running THEN "online" ELSE p[s]]

SelfTypeOK ==
    /\ tree \in [package : CoreTrees, skills : CoreTrees, deps : CoreTrees, baselines : CoreTrees,
                 ecosystem : CoreReleases, config : CoreTrees]
    /\ process \in [Services -> Running \cup {"stopped", "absent"}]
    /\ saved \in [Services -> {"online", "stopped", "absent"}]
    /\ ctx \in [first : [pc : {"idle"} \cup FirstSteps \cup Restoring, backup : BOOLEAN,
                         ran : SUBSET Services, started : SUBSET Services,
                         todo : SUBSET Services, relisted : BOOLEAN, clean : BOOLEAN],
                finalizer : [pc : {"idle", "killed"} \cup FinalSteps \cup Restoring,
                             backup : BOOLEAN, ran : SUBSET Services, started : SUBSET Services,
                             todo : SUBSET Services, relisted : BOOLEAN, clean : BOOLEAN]]
    /\ outcome.result \in {"none", "success", "failed"}

\* ctx of a process that has done nothing.
Fresh(pc) == [pc |-> pc, backup |-> FALSE, ran |-> {}, started |-> {}, todo |-> {},
              relisted |-> FALSE, clean |-> TRUE]

SelfInit ==
    /\ tree = [package |-> "old", skills |-> "old", deps |-> "old", baselines |-> "old",
               ecosystem |-> "old", config |-> "old"]
    /\ process \in {p \in [Services -> {"old", "own", "stopped", "absent"}] :
          /\ \A s \in CoreServices : p[s] \in {"old", "stopped"}
          /\ \A s \in OwnServices : p[s] \in {"own", "stopped"}
          /\ \A s \in AddedServices : p[s] = "absent"}
    /\ saved = Listing(process)
    /\ ctx = [first |-> Fresh("idle"), finalizer |-> Fresh("idle")]
    /\ outcome = [result |-> "none"]

Becomes(p, change) == ctx' = [ctx EXCEPT ![p] = change]
Outcome(result, clean, p, killed) ==
    outcome' = [result |-> result, clean |-> clean, ran |-> ctx[p].ran,
                started |-> ctx[p].started, killed |-> killed]

\* A process restarted with Core's ecosystem runs the skills that are installed, any other
\* its own release.
Runs(s) == IF s \in OwnServices THEN "own" ELSE tree.skills

\* What a restart that fails or is interrupted leaves.  Core's services are restarted from
\* the ecosystem file, if need be after they were deleted.
Unsettled(s) == {process[s], Runs(s), "stopped"}
                \cup (IF s \in OwnServices THEN {} ELSE {"absent"})

\* PM2's processes after the restarts of some services.
Restarted(settled, unsettled) ==
    {q \in [Services -> Running \cup {"stopped", "absent"}] : \A s \in Services :
        q[s] \in IF s \in settled THEN {Runs(s)}
                 ELSE IF s \in unsettled THEN Unsettled(s) ELSE {process[s]}}
Deleted(gone) == [s \in Services |-> IF s \in gone THEN "absent" ELSE process[s]]

-----------------------------------------------------------------------------
(* Steps 0 to 4, by the installed release *)

SelfStart ==
    /\ ctx.first.pc = "idle" /\ outcome.result = "none"
    /\ Becomes("first", Fresh("verify"))
    /\ UNCHANGED <<tree, process, saved, outcome>>

VerifyTarget ==
    /\ ctx.first.pc = "verify"
    /\ \E pc \in {"backup", "undoPackage"} : Becomes("first", [ctx.first EXCEPT !.pc = pc])
    /\ UNCHANGED <<tree, process, saved, outcome>>

BackupCore ==
    /\ ctx.first.pc = "backup"
    /\ \/ Becomes("first", [ctx.first EXCEPT !.pc = "stop", !.backup = TRUE])
       \/ Becomes("first", [ctx.first EXCEPT !.pc = "undoPackage"])
    /\ UNCHANGED <<tree, process, saved, outcome>>

\* A service that does not stop is tolerated; a list that cannot be read is empty.
StopCoreServices ==
    LET online == {s \in Services : process[s] \in Running}
    IN  /\ ctx.first.pc = "stop"
        /\ \/ \E stopped \in SUBSET online :
                 /\ process' = [s \in Services |->
                        IF s \in stopped THEN "stopped" ELSE process[s]]
                 /\ Becomes("first", [ctx.first EXCEPT !.pc = "npm", !.ran = online])
           \/ Becomes("first", [ctx.first EXCEPT !.pc = "npm"]) /\ UNCHANGED process
        /\ UNCHANGED <<tree, saved, outcome>>

\* npm install, then the start of the finalizer, with the context it is given.
NpmInstallGlobal ==
    /\ ctx.first.pc = "npm"
    /\ \/ /\ tree' = [tree EXCEPT !.package = "new"]
          /\ ctx' = [first |-> [ctx.first EXCEPT !.pc = "wait"],
                     finalizer |-> [Fresh("sync") EXCEPT !.backup = ctx.first.backup,
                                                         !.ran = ctx.first.ran]]
       \/ \E package \in {"old", "mixed", "new"} :
             /\ tree' = [tree EXCEPT !.package = package]
             /\ Becomes("first", [ctx.first EXCEPT !.pc = "undoPackage"])
    /\ UNCHANGED <<process, saved, outcome>>

-----------------------------------------------------------------------------
(* Steps 5 to 14, by the finalizer *)

FinalStep(step, next, done, left) ==
    /\ ctx.finalizer.pc = step
    /\ \/ Becomes("finalizer", [ctx.finalizer EXCEPT !.pc = next]) /\ tree' = done
       \/ Becomes("finalizer", [ctx.finalizer EXCEPT !.pc = "undoPackage"]) /\ tree' \in left
    /\ UNCHANGED <<process, saved, outcome>>

SyncCoreSkills == FinalStep("sync", "deps", [tree EXCEPT !.skills = "new"],
    {[tree EXCEPT !.skills = v] : v \in CoreTrees})
InstallSkillDeps == FinalStep("deps", "configure", [tree EXCEPT !.deps = "new"],
    {[tree EXCEPT !.deps = v] : v \in CoreTrees})

\* Steps 7 to 10: instructions, state, hooks and Codex configuration.  A state file that
\* cannot be written, or a Codex that is not the runtime, fails no step.
Configure ==
    \E config \in {"mixed", "new"} :
        FinalStep("configure", "prepare", [tree EXCEPT !.config = config],
                  {[tree EXCEPT !.config = v] : v \in CoreTrees})

\* Step 11: nothing is started when nothing ran.  A required service that PM2 does not
\* list is started with those that ran.
PrepareServices ==
    /\ ctx.finalizer.pc = "prepare"
    /\ IF ctx.finalizer.ran = {}
       THEN Becomes("finalizer", [ctx.finalizer EXCEPT !.pc = "services"]) /\ UNCHANGED tree
       ELSE \E ecosystem \in {tree.ecosystem, "new"} :
              /\ tree' = [tree EXCEPT !.ecosystem = ecosystem]
              /\ LET added == {s \in AddedServices : process[s] = "absent"}
                 IN \/ Becomes("finalizer", [ctx.finalizer EXCEPT !.pc = "restart",
                           !.started = added, !.todo = ctx.finalizer.ran \cup added])
                    \/ Becomes("finalizer", [ctx.finalizer EXCEPT !.pc = "undoPackage"])
    /\ UNCHANGED <<process, saved, outcome>>

\* A restart that fails lets the others go on, and then fails the step.  A service may die
\* as soon as it was restarted.
RestartServices ==
    /\ ctx.finalizer.pc = "restart"
    /\ \/ \E s \in ctx.finalizer.todo :
             \/ /\ \E v \in {Runs(s), "stopped"} : process' = [process EXCEPT ![s] = v]
                /\ Becomes("finalizer", [ctx.finalizer EXCEPT !.todo = @ \ {s}])
             \/ /\ process' \in Restarted({}, {s})
                /\ Becomes("finalizer", [ctx.finalizer EXCEPT !.todo = @ \ {s},
                                                              !.clean = FALSE])
       \/ /\ ctx.finalizer.todo = {}
          /\ Becomes("finalizer", [ctx.finalizer EXCEPT !.clean = TRUE,
                 !.pc = IF ctx.finalizer.clean THEN "save" ELSE "undoPackage"])
          /\ UNCHANGED process
    /\ UNCHANGED <<tree, saved, outcome>>

SaveList ==
    /\ ctx.finalizer.pc = "save"
    /\ \/ /\ saved' = Listing(process)
          /\ Becomes("finalizer", [ctx.finalizer EXCEPT !.pc = "services"])
       \/ /\ UNCHANGED saved
          /\ Becomes("finalizer", [ctx.finalizer EXCEPT !.pc = "undoPackage"])
    /\ UNCHANGED <<tree, process, outcome>>

ServicesVerified(expected) ==
    /\ FinalStep("services", "replies", tree, {tree})
    /\ ctx'.finalizer.pc = "replies" => \A s \in expected : process[s] \in Running
\* Step 12: every service that was started has to be online in time.
VerifyServices == ServicesVerified(ctx.finalizer.ran \cup ctx.finalizer.started)

VerifyReplies == FinalStep("replies", "baselines", tree, {tree})

CommitBaselines == FinalStep("baselines", "print", [tree EXCEPT !.baselines = "new"],
    {[tree EXCEPT !.baselines = v] : v \in CoreTrees})

\* The result on standard output is the upgrade's result.
WriteResult ==
    /\ ctx.finalizer.pc = "print"
    /\ ctx' = [first |-> Fresh("idle"), finalizer |-> Fresh("idle")]
    /\ Outcome("success", TRUE, "finalizer", FALSE)
    /\ UNCHANGED <<tree, process, saved>>

\* The processes as an interrupted step leaves them.
Interrupted(final) ==
    CASE final.pc = "restart" -> Restarted({}, final.todo)
      [] final.pc = "undoAdded" -> {Deleted(gone) : gone \in SUBSET (final.started \ final.ran)}
      [] final.pc = "undoServices" -> Restarted({}, final.ran)
      [] OTHER -> {process}

\* The finalizer dies or runs out of time in the middle of anything, or the first process's
\* progress callback throws on what it reports: the first process rolls back.
KillFinalizer ==
    /\ ctx.finalizer.pc \notin {"idle", "killed"}
    /\ ctx' = [first |-> [ctx.first EXCEPT !.pc = "undoPackage"], finalizer |-> Fresh("killed")]
    /\ \E skills \in IF ctx.finalizer.pc \in {"sync", "undoSkills"}
                     THEN {tree.skills, "mixed"} ELSE {tree.skills},
          package \in IF ctx.finalizer.pc = "undoPackage"
                      THEN {tree.package, "mixed"} ELSE {tree.package},
          baselines \in IF ctx.finalizer.pc \in {"baselines", "undoSkills"}
                        THEN {tree.baselines, "mixed"} ELSE {tree.baselines},
          deps \in IF ctx.finalizer.pc = "deps" THEN {tree.deps, "mixed"} ELSE {tree.deps},
          config \in IF ctx.finalizer.pc = "configure"
                     THEN {tree.config, "mixed"} ELSE {tree.config} :
          tree' = [tree EXCEPT !.skills = skills, !.package = package, !.baselines = baselines,
                               !.deps = deps, !.config = config]
    /\ process' \in Interrupted(ctx.finalizer)
    /\ saved' \in IF ctx.finalizer.pc = "undoSave" /\ ctx.finalizer.relisted
                  THEN {saved, Listing(process)} ELSE {saved}
    /\ UNCHANGED outcome

-----------------------------------------------------------------------------
(* The rollback, by either process *)

\* Every part is attempted, whether or not an earlier one failed.
Restores(p, step, next, done, left) ==
    /\ ctx[p].pc = step
    /\ \/ tree' = done /\ Becomes(p, [ctx[p] EXCEPT !.pc = next])
       \/ /\ ctx[p].backup
          /\ tree' \in left
          /\ Becomes(p, [ctx[p] EXCEPT !.pc = next, !.clean = FALSE])
    /\ UNCHANGED <<process, saved, outcome>>

RestorePackage(p) == Restores(p, "undoPackage", "undoSkills",
    IF ctx[p].backup THEN [tree EXCEPT !.package = "old"] ELSE tree,
    {[tree EXCEPT !.package = v] : v \in {tree.package, "mixed"}})

RestoreSkills(p) == Restores(p, "undoSkills", "undoEcosystem",
    IF ctx[p].backup THEN [tree EXCEPT !.skills = "old", !.baselines = "old"] ELSE tree,
    {[tree EXCEPT !.skills = v, !.baselines = v] : v \in {"mixed"}} \cup {tree})

RestoreEcosystem(p) == Restores(p, "undoEcosystem", "undoAdded",
    IF ctx[p].backup THEN [tree EXCEPT !.ecosystem = "old"] ELSE tree, {tree})

\* What this process knows to have been started by the upgrade is removed from PM2, which
\* refuses to delete what it does not list.
RemoveAdded(p) ==
    LET added == ctx[p].started \ ctx[p].ran
    IN  /\ ctx[p].pc = "undoAdded"
        /\ \E kept \in SUBSET added :
              /\ {s \in added : process[s] = "absent"} \subseteq kept
              /\ process' = Deleted(added \ kept)
              /\ Becomes(p, [ctx[p] EXCEPT !.pc = "undoServices", !.clean = @ /\ kept = {},
                                           !.relisted = @ \/ added \ kept # {}])
        /\ UNCHANGED <<tree, saved, outcome>>

RestartBaseline(p) ==
    /\ ctx[p].pc = "undoServices"
    /\ \E failed \in SUBSET ctx[p].ran :
          /\ process' \in Restarted(ctx[p].ran \ failed, failed)
          /\ Becomes(p, [ctx[p] EXCEPT !.pc = "undoSave", !.clean = @ /\ failed = {},
                                       !.relisted = @ \/ failed # ctx[p].ran])
    /\ UNCHANGED <<tree, saved, outcome>>

\* The list is saved when a process was removed or restarted; then the result is printed.
SaveRollback(p) ==
    /\ ctx[p].pc = "undoSave"
    /\ \E done \in BOOLEAN :
          /\ saved' = IF ctx[p].relisted /\ done THEN Listing(process) ELSE saved
          /\ Outcome("failed", ctx[p].clean /\ (ctx[p].relisted => done), p,
                     ctx.finalizer.pc = "killed")
    /\ ctx' = [first |-> Fresh("idle"), finalizer |-> Fresh("idle")]
    /\ UNCHANGED <<tree, process>>

SelfRollback(p) == \/ RestorePackage(p) \/ RestoreSkills(p) \/ RestoreEcosystem(p)
                   \/ RemoveAdded(p) \/ RestartBaseline(p) \/ SaveRollback(p)

SelfNext ==
    \/ SelfStart \/ VerifyTarget \/ BackupCore \/ StopCoreServices \/ NpmInstallGlobal
    \/ SyncCoreSkills \/ InstallSkillDeps \/ Configure \/ PrepareServices \/ RestartServices
    \/ SaveList \/ VerifyServices \/ VerifyReplies \/ CommitBaselines \/ WriteResult
    \/ KillFinalizer
    \/ \E p \in {"first", "finalizer"} : SelfRollback(p)

-----------------------------------------------------------------------------
(* Properties *)

\* A self-upgrade that succeeds leaves the new release as a whole: the package, the skills,
\* their dependencies and their baselines, and every service that ran or was added is online,
\* Core's on the new code, and in the list that a reboot resurrects
\* (self-upgrade.js:1030-1057,1549-1880).
SelfSuccessIsWhole ==
    outcome.result = "success" =>
        /\ tree.package = "new" /\ tree.skills = "new" /\ tree.deps = "new"
        /\ tree.baselines = "new"
        /\ \A s \in outcome.ran \cup outcome.started :
              process[s] = (IF s \in OwnServices THEN "own" ELSE "new") /\ saved[s] = "online"

\* A self-upgrade that fails, with every part of its rollback reported done, has put back the
\* package, the skills with their baselines and the ecosystem; every service that ran runs
\* the old code again; and unless the finalizer was killed no service that only the new
\* release has is left, running or saved (self-upgrade.js:1883-2003, CHANGELOG.md:462-465).
SelfRollbackRestores ==
    outcome.result = "failed" /\ outcome.clean =>
        /\ tree.package = "old" /\ tree.skills = "old" /\ tree.baselines = "old"
        /\ tree.ecosystem = "old"
        /\ \A s \in outcome.ran :
              process[s] = (IF s \in OwnServices THEN "own" ELSE "old") /\ saved[s] = "online"
        /\ outcome.killed \/ \A s \in AddedServices : process[s] = "absent" /\ saved[s] = "absent"

SelfUpgradeIsWhole == SelfSuccessIsWhole /\ SelfRollbackRestores
=============================================================================
